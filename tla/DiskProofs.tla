----------------------------- MODULE DiskProofs -----------------------------
(***************************************************************************)
(* The disk driver keeps to its assertions and to requests that are alive, *)
(* and returns what was transferred, for any number of drives, threads,    *)
(* CPUs and semaphores.  The argument does not use the semaphores'         *)
(* spinlocks, which a handler may release too late (SemaphoreLocked): a    *)
(* semaphore is raised by one handler and lowered by one thread.           *)
(***************************************************************************)
EXTENDS Disk, TLAPS

USE DiskAssumption

-----------------------------------------------------------------------------
(* The inductive invariant *)

\* Where threads and handlers are in P and V while they are in the driver.
PlaceInv ==
    /\ \A t \in Requester :
          /\ pc[t] \in {"idle", "create", "submit", "wait", "waiting"}
          /\ pc[t] = "create" <=> at[t] = "create"
          /\ pc[t] # "waiting" => at[t] \in {"out", "create"}
          /\ at[t] \in {"out", "create", "p", "p_release", "asleep"}
    /\ \A c \in CPU :
          /\ pc[c] \in {"idle", "signal", "signalling"}
          /\ pc[c] # "signalling" => at[c] = "out"
          /\ at[c] \in {"out", "v", "v_release"}

\* A handler has its drive's spinlock, and the drive rests.
DriveInv ==
    /\ \A c \in CPU : pc[c] # "idle" =>
          /\ drive[c] \in Drive /\ dlock[drive[c]]
          /\ served[drive[c]] # None /\ ~ busy[drive[c]] /\ ~ irq[drive[c]]
    /\ \A c, e \in CPU : pc[c] # "idle" /\ pc[e] # "idle" /\ drive[c] = drive[e] => c = e
    /\ \A d \in Drive : irq[d] \/ busy[d] => served[d] # None
    /\ \A d \in Drive : ~ (irq[d] /\ busy[d])

\* A thread in the driver has a semaphore of its own.
OwnInv ==
    /\ \A t \in Requester : pc[t] # "idle" =>
          drive[t] \in Drive /\ sem[t] \in Sem /\ creator[sem[t]] = t
    /\ \A s \in Sem : given[s] = 0
    /\ \A t \in Requester \cup CPU : holds[t] = None

Serving(t, d) == served[d] = t /\ \A c \in CPU : ~ Raised(c, d)

\* The request of t is queued or served, and its semaphore not yet raised.
Pending(t, d) == InSeq(t, queue[d]) \/ Serving(t, d)

Once(q) == \A i, j \in 1 .. Len(q) : q[i] = q[j] => i = j

\* A pending request is that of a thread that waits for it, and is there once.
QueueInv ==
    /\ \A t \in Requester : \A d \in Drive :
          Pending(t, d) => pc[t] \in {"wait", "waiting"} /\ drive[t] = d
    /\ \A d \in Drive : Once(queue[d])
    /\ \A d \in Drive : \A t \in Requester : served[d] = t => ~ InSeq(t, queue[d])

\* Only the thread that waits for a request sleeps on its semaphore.
SleepInv ==
    \A s \in Sem :
        \/ sleepers[s] = <<>>
        \/ \E t \in Requester : /\ sleepers[s] = <<t>> /\ sem[t] = s
                                /\ pc[t] = "waiting" /\ at[t] \in {"p_release", "asleep"}

\* A semaphore is raised once for a request, when the request is done.
ValueInv ==
    \A t \in Requester :
        /\ pc[t] = "submit" => value[sem[t]] = 0
        /\ pc[t] = "wait" \/ at[t] = "p" =>
              value[sem[t]] = IF Pending(t, drive[t]) THEN 0 ELSE 1
        /\ at[t] \in {"p_release", "asleep"} =>
              IF Pending(t, drive[t]) THEN value[sem[t]] = -1 /\ sleepers[sem[t]] = <<t>>
              ELSE at[t] = "p_release" /\ sleepers[sem[t]] = <<>>
        /\ pc[t] = "waiting" /\ at[t] = "out" => ~ Pending(t, drive[t])

\* A handler signals the request its drive was given and has transferred.
DoneInv ==
    /\ \A t \in Requester : pc[t] \in {"wait", "waiting"} /\ ~ Pending(t, drive[t]) =>
          transferred[t] /\ return_value[t] = 0
    /\ \A d \in Drive : irq[d] => transferred[served[d]]
    /\ \A c \in CPU : pc[c] = "signal" \/ at[c] = "v" =>
          transferred[served[drive[c]]] /\ return_value[served[drive[c]]] = 0
    /\ \A c \in CPU : at[c] = "v" => sem[c] = sem[served[drive[c]]]

IInv == TypeOK /\ PlaceInv /\ DriveInv /\ OwnInv /\ QueueInv /\ SleepInv /\ ValueInv /\ DoneInv

-----------------------------------------------------------------------------
(* Types, and what each step does *)

Proc == Requester \cup CPU

\* TypeOK in the terms of this module.
SemTypes ==
    /\ creator \in [Sem -> Proc \cup {None}]
    /\ value \in [Sem -> Int] /\ slock \in [Sem -> BOOLEAN] /\ next \in Sem
    /\ sleepers \in [Sem -> Seq(Proc)]
    /\ at \in [Proc -> {"out", "create", "p", "p_release", "asleep", "v", "v_release"}]
    /\ sem \in [Proc -> Sem \cup {None}]
    /\ given \in [Sem -> Nat] /\ holds \in [Proc -> Sem \cup {None}]

DiskTypes ==
    /\ queue \in [Drive -> Seq(Requester)]
    /\ served \in [Drive -> Requester \cup {None}]
    /\ dlock \in [Drive -> BOOLEAN] /\ busy \in [Drive -> BOOLEAN] /\ irq \in [Drive -> BOOLEAN]
    /\ pc \in [Proc -> {"idle", "create", "submit", "wait", "waiting", "signal", "signalling"}]
    /\ drive \in [Proc -> Drive \cup {None}]
    /\ return_value \in [Requester -> {-1, 0}]
    /\ transferred \in [Requester -> BOOLEAN]

LEMMA Types == TypeOK <=> SemTypes /\ DiskTypes
BY DEF TypeOK, S!TypeOK, SemTypes, DiskTypes, Proc, Sem, None

LEMMA TypesNext == TypeOK' <=> SemTypes' /\ DiskTypes'
BY DEF TypeOK, S!TypeOK, SemTypes, DiskTypes, Proc, Sem, None

LEMMA Parts ==
    IInv => /\ SemTypes /\ DiskTypes /\ PlaceInv /\ DriveInv /\ OwnInv
            /\ QueueInv /\ SleepInv /\ ValueInv /\ DoneInv
BY Types DEF IInv

RequestDoes(t, d) ==
    /\ pc[t] = "idle" /\ at[t] = "out" /\ next' \in Sem
    /\ \E s \in Sem : /\ creator[s] = None /\ creator' = [creator EXCEPT ![s] = t]
                      /\ sem' = [sem EXCEPT ![t] = s]
    /\ at' = [at EXCEPT ![t] = "create"] /\ pc' = [pc EXCEPT ![t] = "create"]
    /\ drive' = [drive EXCEPT ![t] = d]
    /\ return_value' = [return_value EXCEPT ![t] = -1]
    /\ transferred' = [transferred EXCEPT ![t] = FALSE]
    /\ UNCHANGED <<value, slock, sleepers, given, holds, queue, served, dlock, busy, irq>>

LEMMA RequestFacts ==
    ASSUME IInv, NEW t \in Requester, NEW d \in Drive, Request(t, d)
    PROVE  RequestDoes(t, d)
<1>1. /\ pc[t] = "idle" /\ at[t] = "out"
      /\ at' = [at EXCEPT ![t] = "create"] /\ pc' = [pc EXCEPT ![t] = "create"]
      /\ drive' = [drive EXCEPT ![t] = d]
      /\ return_value' = [return_value EXCEPT ![t] = -1]
      /\ transferred' = [transferred EXCEPT ![t] = FALSE]
      /\ UNCHANGED <<value, slock, sleepers, holds, queue, served, dlock, busy, irq>>
  BY DEF Request, NewSemaphore, S!Create, diskvars
<1>2. PICK s \in Sem : /\ creator[s] = None /\ creator' = [creator EXCEPT ![s] = t]
                       /\ sem' = [sem EXCEPT ![t] = s]
                       /\ next' = S!NextAfter(s) /\ given' = [given EXCEPT ![s] = 0]
  BY DEF Request, NewSemaphore, S!Create, S!Reserve, S!FoundFree, Sem, None
<1>3. next' \in Sem
  BY <1>2 DEF S!NextAfter, Sem, S!Sem
<1>4. given' = given
  BY <1>2, Parts DEF SemTypes, OwnInv
<1> QED BY <1>1, <1>2, <1>3, <1>4 DEF RequestDoes

CreatedDoes(t) ==
    /\ pc[t] = "create" /\ sem[t] \in Sem /\ creator[sem[t]] = t
    /\ value' = [value EXCEPT ![sem[t]] = 0]
    /\ slock' = [slock EXCEPT ![sem[t]] = FALSE]
    /\ at' = [at EXCEPT ![t] = "out"] /\ pc' = [pc EXCEPT ![t] = "submit"]
    /\ UNCHANGED <<creator, next, sleepers, sem, given, holds, queue, served, dlock,
                   busy, irq, drive, return_value, transferred>>

LEMMA CreatedFacts ==
    ASSUME IInv, NEW t \in Requester, Created(t)
    PROVE  CreatedDoes(t)
BY Parts DEF CreatedDoes, Created, S!CreateInit, diskvars, OwnInv

SubmitDoes(t) ==
    /\ pc[t] = "submit" /\ drive[t] \in Drive /\ ~ dlock[drive[t]]
    /\ \/ /\ served[drive[t]] = None
          /\ queue' = [queue EXCEPT ![drive[t]] = Tail(Append(queue[drive[t]], t))]
          /\ served' = [served EXCEPT ![drive[t]] = Head(Append(queue[drive[t]], t))]
          /\ busy' = [busy EXCEPT ![drive[t]] = TRUE]
       \/ /\ served[drive[t]] # None
          /\ queue' = [queue EXCEPT ![drive[t]] = Append(queue[drive[t]], t)]
          /\ UNCHANGED <<served, busy>>
    /\ pc' = [pc EXCEPT ![t] = "wait"]
    /\ UNCHANGED <<creator, value, slock, next, sleepers, at, sem, given, holds, dlock,
                   irq, drive, return_value, transferred>>

LEMMA SubmitFacts ==
    ASSUME IInv, NEW t \in Requester, Submit(t)
    PROVE  SubmitDoes(t)
<1>1. pc[t] = "submit" /\ drive[t] \in Drive /\ ~ dlock[drive[t]]
  BY Parts DEF Submit, Unlocked, OwnInv
<1>2. Append(queue[drive[t]], t) # <<>>
  <2>1. queue[drive[t]] \in Seq(Requester)
    BY <1>1, Parts DEF DiskTypes
  <2>2. \A q \in Seq(Requester) : Append(q, t) # <<>>
    OBVIOUS
  <2> QED BY <2>1, <2>2
<1>3. /\ pc' = [pc EXCEPT ![t] = "wait"]
      /\ UNCHANGED <<creator, value, slock, next, sleepers, at, sem, given, holds, dlock,
                     irq, drive, return_value, transferred>>
  BY DEF Submit, semvars
<1> QED BY <1>1, <1>2, <1>3 DEF SubmitDoes, Submit, Schedule, Rest, NextRequest, Idle

WaitAcquireDoes(t) ==
    /\ at[t] = "out" /\ pc[t] = "wait" /\ sem[t] \in Sem /\ ~ slock[sem[t]]
    /\ slock' = [slock EXCEPT ![sem[t]] = TRUE]
    /\ at' = [at EXCEPT ![t] = "p"] /\ pc' = [pc EXCEPT ![t] = "waiting"]
    /\ UNCHANGED <<creator, value, next, sleepers, sem, given, holds, queue, served,
                   dlock, busy, irq, drive, return_value, transferred>>

LEMMA WaitAcquireFacts ==
    ASSUME IInv, NEW t \in Requester, Wait(t), S!PAcquire(t, sem[t])
    PROVE  WaitAcquireDoes(t)
<1>1. /\ at[t] = "out" /\ ~ slock[sem[t]]
      /\ slock' = [slock EXCEPT ![sem[t]] = TRUE]
      /\ at' = [at EXCEPT ![t] = "p"] /\ sem' = [sem EXCEPT ![t] = sem[t]]
      /\ UNCHANGED <<creator, value, next, sleepers, given, holds, queue, served,
                     dlock, busy, irq, drive, return_value, transferred>>
  BY DEF Wait, S!PAcquire, S!AcquireSlock, diskvars
<1>2. pc[t] = "wait" /\ pc' = [pc EXCEPT ![t] = "waiting"]
  BY <1>1 DEF Wait, S!PDown, S!PRelease
<1>3. sem[t] \in Sem
  BY <1>2, Parts DEF OwnInv
<1>4. sem' = sem
  BY <1>1, Parts DEF SemTypes
<1> QED BY <1>1, <1>2, <1>3, <1>4 DEF WaitAcquireDoes

WaitDownDoes(t) ==
    /\ at[t] = "p" /\ pc[t] = "waiting" /\ sem[t] \in Sem
    /\ value' = [value EXCEPT ![sem[t]] = value[sem[t]] - 1]
    /\ \/ /\ value[sem[t]] - 1 < 0
          /\ sleepers' = [sleepers EXCEPT ![sem[t]] = Append(sleepers[sem[t]], t)]
       \/ ~ (value[sem[t]] - 1 < 0) /\ sleepers' = sleepers
    /\ at' = [at EXCEPT ![t] = "p_release"]
    /\ UNCHANGED <<creator, slock, next, sem, given, holds, queue, served, dlock,
                   busy, irq, pc, drive, return_value, transferred>>

LEMMA WaitDownFacts ==
    ASSUME IInv, NEW t \in Requester, Wait(t), S!PDown(t)
    PROVE  WaitDownDoes(t)
<1>1. at[t] = "p" /\ pc[t] = "waiting" /\ sem[t] \in Sem
  BY Parts DEF S!PDown, PlaceInv, OwnInv
<1>2. given[sem[t]] = 0
  BY <1>1, Parts DEF OwnInv
<1>3. /\ value' = [value EXCEPT ![sem[t]] = value[sem[t]] - 1]
      /\ at' = [at EXCEPT ![t] = "p_release"]
      /\ UNCHANGED <<creator, slock, next, sem, given, queue, served, dlock,
                     busy, irq, drive, return_value, transferred>>
  BY DEF Wait, S!PDown, diskvars
<1>4. pc' = pc
  BY <1>1 DEF Wait
<1>5. \/ /\ value[sem[t]] - 1 < 0
         /\ sleepers' = [sleepers EXCEPT ![sem[t]] = Append(sleepers[sem[t]], t)]
         /\ holds' = holds
      \/ ~ (value[sem[t]] - 1 < 0) /\ sleepers' = sleepers /\ holds' = holds
  BY <1>2 DEF S!PDown, S!Holding, S!MustSleep, S!Enqueue
<1> QED BY <1>1, <1>3, <1>4, <1>5 DEF WaitDownDoes

WaitReleaseDoes(t) ==
    /\ at[t] = "p_release" /\ pc[t] = "waiting" /\ sem[t] \in Sem
    /\ slock' = [slock EXCEPT ![sem[t]] = FALSE]
    /\ at' = [at EXCEPT ![t] = IF sleepers[sem[t]] = <<t>> THEN "asleep" ELSE "out"]
    /\ UNCHANGED <<creator, value, next, sleepers, sem, given, holds, queue, served,
                   dlock, busy, irq, pc, drive, return_value, transferred>>

LEMMA WaitReleaseFacts ==
    ASSUME IInv, NEW t \in Requester, Wait(t), S!PRelease(t)
    PROVE  WaitReleaseDoes(t)
<1>1. at[t] = "p_release" /\ pc[t] = "waiting" /\ sem[t] \in Sem
  BY Parts DEF S!PRelease, PlaceInv, OwnInv
<1>2. pc' = pc
  BY <1>1 DEF Wait
<1>3. S!Asleep(t) <=> sleepers[sem[t]] = <<t>>
  <2>1. ASSUME sleepers[sem[t]] = <<t>> PROVE S!Asleep(t)
    BY <1>1, <2>1 DEF S!Asleep, Sem
  <2>2. ASSUME NEW s \in Sem, NEW k \in 1 .. Len(sleepers[s]), sleepers[s][k] = t
        PROVE  sleepers[sem[t]] = <<t>>
    BY <2>2, Parts DEF SleepInv
  <2> QED BY <2>1, <2>2 DEF S!Asleep, Sem
<1> QED BY <1>1, <1>2, <1>3 DEF WaitReleaseDoes, Wait, S!PRelease, diskvars

ReturnDoes(t) ==
    /\ pc[t] = "waiting" /\ at[t] = "out" /\ sem[t] \in Sem /\ creator[sem[t]] = t
    /\ creator' = [creator EXCEPT ![sem[t]] = None]
    /\ pc' = [pc EXCEPT ![t] = "idle"]
    /\ UNCHANGED <<value, slock, next, sleepers, at, sem, given, holds, queue, served,
                   dlock, busy, irq, drive, return_value, transferred>>

LEMMA ReturnFacts ==
    ASSUME IInv, NEW t \in Requester, Return(t)
    PROVE  ReturnDoes(t)
BY Parts DEF ReturnDoes, Return, GiveBack, S!Destroy, diskvars, OwnInv, None

TransferDoes(d) ==
    /\ busy[d] /\ served[d] \in Requester
    /\ busy' = [busy EXCEPT ![d] = FALSE] /\ irq' = [irq EXCEPT ![d] = TRUE]
    /\ transferred' = [transferred EXCEPT ![served[d]] = TRUE]
    /\ UNCHANGED <<creator, value, slock, next, sleepers, at, sem, given, holds, queue,
                   served, dlock, pc, drive, return_value>>

LEMMA TransferFacts ==
    ASSUME IInv, NEW d \in Drive, Transfer(d)
    PROVE  TransferDoes(d)
BY Parts DEF TransferDoes, Transfer, semvars, DriveInv, DiskTypes

HandleDoes(c, d) ==
    /\ pc[c] = "idle" /\ ~ dlock[d] /\ irq[d] /\ served[d] \in Requester
    /\ dlock' = [dlock EXCEPT ![d] = TRUE] /\ irq' = [irq EXCEPT ![d] = FALSE]
    /\ return_value' = [return_value EXCEPT ![served[d]] = 0]
    /\ pc' = [pc EXCEPT ![c] = "signal"] /\ drive' = [drive EXCEPT ![c] = d]
    /\ UNCHANGED <<creator, value, slock, next, sleepers, at, sem, given, holds, queue,
                   served, busy, transferred>>

LEMMA HandleFacts ==
    ASSUME IInv, NEW c \in CPU, NEW d \in Drive, Handle(c, d)
    PROVE  HandleDoes(c, d)
<1>1. /\ pc[c] = "idle" /\ ~ dlock[d] /\ irq[d] /\ served[d] \in Requester
  BY Parts DEF Handle, Unlocked, ForUs, DriveInv, DiskTypes
<1>2. return_value' = [return_value EXCEPT ![served[d]] = 0]
  BY <1>1, Parts DEF Handle, DiskTypes
<1> QED BY <1>1, <1>2 DEF HandleDoes, Handle, semvars

SignalAcquireDoes(c) ==
    /\ at[c] = "out" /\ pc[c] = "signal" /\ drive[c] \in Drive
    /\ served[drive[c]] \in Requester /\ sem[served[drive[c]]] \in Sem
    /\ ~ slock[sem[served[drive[c]]]]
    /\ slock' = [slock EXCEPT ![sem[served[drive[c]]]] = TRUE]
    /\ at' = [at EXCEPT ![c] = "v"] /\ pc' = [pc EXCEPT ![c] = "signalling"]
    /\ sem' = [sem EXCEPT ![c] = sem[served[drive[c]]]]
    /\ UNCHANGED <<creator, value, next, sleepers, given, holds, queue, served,
                   dlock, busy, irq, drive, return_value, transferred>>

LEMMA SignalAcquireFacts ==
    ASSUME IInv, NEW c \in CPU, Signal(c), S!VAcquire(c, sem[served[drive[c]]])
    PROVE  SignalAcquireDoes(c)
<1>1. /\ at[c] = "out" /\ ~ slock[sem[served[drive[c]]]]
      /\ slock' = [slock EXCEPT ![sem[served[drive[c]]]] = TRUE]
      /\ at' = [at EXCEPT ![c] = "v"] /\ sem' = [sem EXCEPT ![c] = sem[served[drive[c]]]]
      /\ UNCHANGED <<creator, value, next, sleepers, given, holds, queue, served,
                     dlock, busy, irq, drive, return_value, transferred>>
  BY DEF Signal, S!VAcquire, S!AcquireSlock, diskvars
<1>2. pc[c] = "signal" /\ pc' = [pc EXCEPT ![c] = "signalling"]
  BY <1>1 DEF Signal, S!VUp, S!VRelease
<1>3. drive[c] \in Drive /\ served[drive[c]] \in Requester
  BY <1>2, Parts DEF DriveInv, DiskTypes
<1>4. \A e \in CPU : pc[e] = "signalling" => drive[e] # drive[c]
  BY <1>2, Parts DEF DriveInv
<1>5. sem[served[drive[c]]] \in Sem
  BY <1>3, <1>4, Parts DEF QueueInv, Pending, Serving, Raised, OwnInv
<1> QED BY <1>1, <1>2, <1>3, <1>5 DEF SignalAcquireDoes

SignalUpDoes(c) ==
    /\ at[c] = "v" /\ pc[c] = "signalling" /\ drive[c] \in Drive
    /\ \E t \in Requester :
          /\ t = served[drive[c]] /\ Pending(t, drive[c])
          /\ sem[t] = sem[c] /\ sem[c] \in Sem
          /\ value' = [value EXCEPT ![sem[t]] = value[sem[t]] + 1]
          /\ sleepers' = [sleepers EXCEPT ![sem[t]] = <<>>]
          /\ at' = [at EXCEPT ![c] = "v_release",
                              ![t] = IF at[t] = "asleep" THEN "out" ELSE at[t]]
    /\ UNCHANGED <<creator, slock, next, sem, given, holds, queue, served,
                   dlock, busy, irq, pc, drive, return_value, transferred>>

LEMMA SignalUpFacts ==
    ASSUME IInv, NEW c \in CPU, Signal(c), S!VUp(c)
    PROVE  SignalUpDoes(c)
<1>1. /\ at[c] = "v" /\ pc[c] = "signalling" /\ drive[c] \in Drive
      /\ served[drive[c]] \in Requester
  BY Parts DEF S!VUp, PlaceInv, DriveInv, DiskTypes
<1>2. PICK t \in Requester : t = served[drive[c]]
  BY <1>1
<1>3. Serving(t, drive[c])
  BY <1>1, <1>2, Parts DEF Serving, Raised, DriveInv
<1>4. pc[t] \in {"wait", "waiting"} /\ drive[t] = drive[c] /\ sem[t] \in Sem /\ sem[t] = sem[c]
  BY <1>1, <1>2, <1>3, Parts DEF QueueInv, Pending, OwnInv, DoneInv
<1>5. pc' = pc
  BY <1>1 DEF Signal
<1>6. /\ UNCHANGED <<creator, slock, next, sem, given, queue, served, dlock, busy, irq,
                     drive, return_value, transferred>>
      /\ value' = [value EXCEPT ![sem[t]] = value[sem[t]] + 1]
  BY <1>4 DEF Signal, S!VUp, diskvars
<1>7. given[sem[c]] = 0 /\ holds[c] = None /\ sem[c] # None
  <2>1. None \notin Sem
    BY DEF None, S!None, Sem, S!Sem
  <2> QED BY <1>4, <2>1, Parts DEF OwnInv
<1>8. holds' = holds
  BY <1>7, Parts DEF S!VUp, SemTypes, Proc
<1>9. \/ value[sem[t]] = 0 /\ sleepers[sem[t]] = <<>> /\ at[t] # "asleep"
      \/ value[sem[t]] = -1 /\ sleepers[sem[t]] = <<t>>
  <2>1. Pending(t, drive[t])
    BY <1>3, <1>4 DEF Pending
  <2>2. CASE pc[t] = "wait" \/ at[t] = "p"
    <3>1. at[t] \in {"out", "p"}
      BY <1>4, <2>2, Parts DEF PlaceInv
    <3>2. sleepers[sem[t]] = <<>>
      <4>1. ASSUME NEW u \in Requester, sem[u] = sem[t], at[u] \in {"p_release", "asleep"},
                   pc[u] = "waiting"
            PROVE  FALSE
        BY <1>4, <3>1, <4>1, Parts DEF OwnInv
      <4> QED BY <1>4, <4>1, Parts DEF SleepInv
    <3>3. value[sem[t]] = IF Pending(t, drive[t]) THEN 0 ELSE 1
      BY <2>2, Parts DEF ValueInv
    <3>4. value[sem[t]] = 0
      BY ONLY <2>1, <3>3, Zenon
    <3> QED BY <3>1, <3>2, <3>4
  <2>3. CASE at[t] \in {"p_release", "asleep"}
    BY <2>1, <2>3, Parts DEF ValueInv
  <2> QED BY <1>4, <2>1, <2>2, <2>3, Parts DEF PlaceInv, ValueInv
<1>10. c # t
  BY <1>2
<1>11. /\ sleepers' = [sleepers EXCEPT ![sem[t]] = <<>>]
       /\ at' = [at EXCEPT ![c] = "v_release",
                           ![t] = IF at[t] = "asleep" THEN "out" ELSE at[t]]
  <2>1. CASE value[sem[t]] = 0 /\ sleepers[sem[t]] = <<>> /\ at[t] # "asleep"
    <3>1. /\ sleepers' = [sleepers EXCEPT ![sem[t]] = sleepers[sem[t]]]
          /\ at' = [u \in Proc |-> IF u = c THEN "v_release" ELSE at[u]]
      BY <1>4, <2>1 DEF S!VUp, S!MustWake, Proc
    <3> QED BY <1>4, <1>10, <2>1, <3>1, Parts DEF SemTypes, Proc
  <2>2. CASE value[sem[t]] = -1 /\ sleepers[sem[t]] = <<t>>
    <3>1. Head(<<t>>) = t /\ Tail(<<t>>) = <<>> /\ <<t>> # <<>>
      OBVIOUS
    <3>2. S!MustWake(value[sem[c]] + 1)
      BY <1>4, <2>2 DEF S!MustWake
    <3>3. S!Woken(sem[c]) = {t}
      BY <1>4, <2>2, <3>1 DEF S!Woken
    <3>4. /\ sleepers' = [sleepers EXCEPT ![sem[t]] = <<>>]
          /\ at' = [u \in Proc |-> IF u = c THEN "v_release"
                                   ELSE IF u \in {t} /\ at[u] = "asleep" THEN "out" ELSE at[u]]
      BY <1>4, <2>2, <3>1, <3>2, <3>3 DEF S!VUp, Proc
    <3> QED BY <1>10, <3>4, Parts DEF SemTypes, Proc
  <2> QED BY <1>9, <2>1, <2>2
<1> QED BY <1>1, <1>2, <1>3, <1>4, <1>5, <1>6, <1>8, <1>11 DEF SignalUpDoes, Pending

SignalReleaseDoes(c) ==
    /\ at[c] = "v_release" /\ pc[c] = "signalling"
    /\ slock' = [slock EXCEPT ![sem[c]] = FALSE] /\ at' = [at EXCEPT ![c] = "out"]
    /\ UNCHANGED <<creator, value, next, sleepers, sem, given, holds, queue, served,
                   dlock, busy, irq, pc, drive, return_value, transferred>>

LEMMA SignalReleaseFacts ==
    ASSUME IInv, NEW c \in CPU, Signal(c), S!VRelease(c)
    PROVE  SignalReleaseDoes(c)
<1>1. at[c] = "v_release" /\ pc[c] = "signalling"
  BY Parts DEF S!VRelease, PlaceInv
<1> QED BY <1>1 DEF SignalReleaseDoes, Signal, S!VRelease, diskvars

HandleNextDoes(c) ==
    /\ pc[c] = "signalling" /\ at[c] = "out" /\ drive[c] \in Drive
    /\ \/ /\ queue[drive[c]] = <<>> /\ UNCHANGED <<queue, busy>>
          /\ served' = [served EXCEPT ![drive[c]] = None]
       \/ /\ queue[drive[c]] # <<>>
          /\ queue' = [queue EXCEPT ![drive[c]] = Tail(queue[drive[c]])]
          /\ served' = [served EXCEPT ![drive[c]] = Head(queue[drive[c]])]
          /\ busy' = [busy EXCEPT ![drive[c]] = TRUE]
    /\ dlock' = [dlock EXCEPT ![drive[c]] = FALSE]
    /\ pc' = [pc EXCEPT ![c] = "idle"]
    /\ UNCHANGED <<creator, value, slock, next, sleepers, at, sem, given, holds, irq,
                   drive, return_value, transferred>>

LEMMA HandleNextFacts ==
    ASSUME IInv, NEW c \in CPU, HandleNext(c)
    PROVE  HandleNextDoes(c)
<1>1. pc[c] = "signalling" /\ at[c] = "out" /\ drive[c] \in Drive
  BY Parts DEF HandleNext, DriveInv
<1>2. CASE queue[drive[c]] = <<>>
  <2>1. queue' = [queue EXCEPT ![drive[c]] = queue[drive[c]]]
        /\ served' = [served EXCEPT ![drive[c]] = None] /\ busy' = busy
    BY <1>2 DEF HandleNext, NextRequest
  <2>2. queue' = queue
    BY <2>1, Parts DEF DiskTypes
  <2> QED BY <1>1, <1>2, <2>1, <2>2 DEF HandleNextDoes, HandleNext, semvars
<1>3. CASE queue[drive[c]] # <<>>
  BY <1>1, <1>3 DEF HandleNextDoes, HandleNext, NextRequest, Rest, semvars
<1> QED BY <1>2, <1>3
-----------------------------------------------------------------------------
(* The steps keep the invariant *)

LEMMA SemTypesStep == IInv /\ [Next]_vars => SemTypes'
<1> SUFFICES ASSUME IInv, [Next]_vars PROVE SemTypes'
  OBVIOUS
<1>0. /\ SemTypes /\ DiskTypes /\ PlaceInv /\ DriveInv /\ OwnInv
      /\ QueueInv /\ SleepInv /\ ValueInv /\ DoneInv
  BY Parts
<1>1. CASE UNCHANGED vars
  BY <1>0, <1>1 DEF vars, SemTypes, Proc, semvars, diskvars
<1>2. ASSUME NEW t \in Requester, NEW d \in Drive, Request(t, d) PROVE SemTypes'
  <2>1. RequestDoes(t, d)
    BY <1>2, RequestFacts
  <2> QED BY <1>0, <2>1 DEF RequestDoes, SemTypes, Proc
<1>3. ASSUME NEW t \in Requester, Created(t) PROVE SemTypes'
  <2>1. CreatedDoes(t)
    BY <1>3, CreatedFacts
  <2> QED BY <1>0, <2>1 DEF CreatedDoes, SemTypes, Proc
<1>4. ASSUME NEW t \in Requester, Submit(t) PROVE SemTypes'
  <2>1. SubmitDoes(t)
    BY <1>4, SubmitFacts
  <2> QED BY <1>0, <2>1 DEF SubmitDoes, SemTypes, Proc
<1>5. ASSUME NEW t \in Requester, Wait(t), S!PAcquire(t, sem[t]) PROVE SemTypes'
  <2>1. WaitAcquireDoes(t)
    BY <1>5, WaitAcquireFacts
  <2> QED BY <1>0, <2>1 DEF WaitAcquireDoes, SemTypes, Proc
<1>6. ASSUME NEW t \in Requester, Wait(t), S!PDown(t) PROVE SemTypes'
  <2>1. WaitDownDoes(t)
    BY <1>6, WaitDownFacts
  <2>2. PICK q \in Seq(Proc) : q = sleepers[sem[t]]
    BY <1>0, <2>1 DEF WaitDownDoes, SemTypes
  <2>3. Append(q, t) \in Seq(Proc)
    BY DEF Proc
  <2>4. value[sem[t]] - 1 \in Int
    BY <1>0, <2>1 DEF WaitDownDoes, SemTypes
  <2> QED BY <1>0, <2>1, <2>2, <2>3, <2>4, ZenonT(30) DEF WaitDownDoes, SemTypes, Proc
<1>7. ASSUME NEW t \in Requester, Wait(t), S!PRelease(t) PROVE SemTypes'
  <2>1. WaitReleaseDoes(t)
    BY <1>7, WaitReleaseFacts
  <2> QED BY <1>0, <2>1 DEF WaitReleaseDoes, SemTypes, Proc
<1>8. ASSUME NEW t \in Requester, Return(t) PROVE SemTypes'
  <2>1. ReturnDoes(t)
    BY <1>8, ReturnFacts
  <2> QED BY <1>0, <2>1 DEF ReturnDoes, SemTypes, Proc
<1>9. ASSUME NEW d \in Drive, Transfer(d) PROVE SemTypes'
  <2>1. TransferDoes(d)
    BY <1>9, TransferFacts
  <2> QED BY <1>0, <2>1 DEF TransferDoes, SemTypes, Proc
<1>10. ASSUME NEW c \in CPU, NEW d \in Drive, Handle(c, d) PROVE SemTypes'
  <2>1. HandleDoes(c, d)
    BY <1>10, HandleFacts
  <2> QED BY <1>0, <2>1 DEF HandleDoes, SemTypes, Proc
<1>11. ASSUME NEW c \in CPU, Signal(c), S!VAcquire(c, sem[served[drive[c]]]) PROVE SemTypes'
  <2>1. SignalAcquireDoes(c)
    BY <1>11, SignalAcquireFacts
  <2> QED BY <1>0, <2>1 DEF SignalAcquireDoes, SemTypes, Proc
<1>12. ASSUME NEW c \in CPU, Signal(c), S!VUp(c) PROVE SemTypes'
  <2>1. SignalUpDoes(c)
    BY <1>12, SignalUpFacts
  <2>2. PICK t \in Requester :
          /\ sem[t] \in Sem
          /\ value' = [value EXCEPT ![sem[t]] = value[sem[t]] + 1]
          /\ sleepers' = [sleepers EXCEPT ![sem[t]] = <<>>]
          /\ at' = [at EXCEPT ![c] = "v_release",
                              ![t] = IF at[t] = "asleep" THEN "out" ELSE at[t]]
    BY <2>1 DEF SignalUpDoes
  <2>3. value[sem[t]] + 1 \in Int /\ <<>> \in Seq(Proc)
    BY <1>0, <2>2 DEF SemTypes
  <2>4. value' \in [Sem -> Int] /\ sleepers' \in [Sem -> Seq(Proc)]
    BY <1>0, <2>2, <2>3 DEF SemTypes
  <2> QED BY <1>0, <2>1, <2>2, <2>4 DEF SignalUpDoes, SemTypes, Proc
<1>13. ASSUME NEW c \in CPU, Signal(c), S!VRelease(c) PROVE SemTypes'
  <2>1. SignalReleaseDoes(c)
    BY <1>13, SignalReleaseFacts
  <2> QED BY <1>0, <2>1 DEF SignalReleaseDoes, SemTypes, Proc
<1>14. ASSUME NEW c \in CPU, HandleNext(c) PROVE SemTypes'
  <2>1. HandleNextDoes(c)
    BY <1>14, HandleNextFacts
  <2> QED BY <1>0, <2>1 DEF HandleNextDoes, SemTypes, Proc
<1> QED BY <1>1, <1>2, <1>3, <1>4, <1>5, <1>6, <1>7, <1>8, <1>9, <1>10, <1>11, <1>12,
         <1>13, <1>14 DEF Next, Wait, Signal

LEMMA DiskTypesStep == IInv /\ [Next]_vars => DiskTypes'
<1> SUFFICES ASSUME IInv, [Next]_vars PROVE DiskTypes'
  OBVIOUS
<1>0. /\ SemTypes /\ DiskTypes /\ PlaceInv /\ DriveInv /\ OwnInv
      /\ QueueInv /\ SleepInv /\ ValueInv /\ DoneInv
  BY Parts
<1>1. CASE UNCHANGED vars
  BY <1>0, <1>1 DEF vars, DiskTypes, Proc, semvars, diskvars
<1>2. ASSUME NEW t \in Requester, NEW d \in Drive, Request(t, d) PROVE DiskTypes'
  <2>1. RequestDoes(t, d)
    BY <1>2, RequestFacts
  <2> QED BY <1>0, <2>1 DEF RequestDoes, DiskTypes, Proc
<1>3. ASSUME NEW t \in Requester, Created(t) PROVE DiskTypes'
  <2>1. CreatedDoes(t)
    BY <1>3, CreatedFacts
  <2> QED BY <1>0, <2>1 DEF CreatedDoes, DiskTypes, Proc
<1>4. ASSUME NEW t \in Requester, Submit(t) PROVE DiskTypes'
  <2>1. SubmitDoes(t)
    BY <1>4, SubmitFacts
  <2>2. PICK q \in Seq(Requester) : q = queue[drive[t]]
    BY <1>0, <2>1 DEF SubmitDoes, DiskTypes
  <2>3. /\ Append(q, t) \in Seq(Requester) /\ Append(q, t) # <<>>
    OBVIOUS
  <2>4. PICK r \in Seq(Requester) : r = Append(q, t) /\ r # <<>>
    BY <2>3
  <2>5. Head(r) \in Requester /\ Tail(r) \in Seq(Requester)
    BY <2>4
  <2>6. queue' \in [Drive -> Seq(Requester)] /\ served' \in [Drive -> Requester \cup {None}]
        /\ busy' \in [Drive -> BOOLEAN]
    <3>1. CASE UNCHANGED <<served, busy>> /\ queue' = [queue EXCEPT ![drive[t]] = r]
      BY <1>0, <2>4, <3>1 DEF DiskTypes
    <3>2. CASE /\ queue' = [queue EXCEPT ![drive[t]] = Tail(r)]
               /\ served' = [served EXCEPT ![drive[t]] = Head(r)]
               /\ busy' = [busy EXCEPT ![drive[t]] = TRUE]
      BY <1>0, <2>5, <3>2 DEF DiskTypes
    <3> QED BY <2>1, <2>2, <2>4, <3>1, <3>2 DEF SubmitDoes
  <2> QED BY <1>0, <2>1, <2>6 DEF SubmitDoes, DiskTypes, Proc
<1>5. ASSUME NEW t \in Requester, Wait(t), S!PAcquire(t, sem[t]) PROVE DiskTypes'
  <2>1. WaitAcquireDoes(t)
    BY <1>5, WaitAcquireFacts
  <2> QED BY <1>0, <2>1 DEF WaitAcquireDoes, DiskTypes, Proc
<1>6. ASSUME NEW t \in Requester, Wait(t), S!PDown(t) PROVE DiskTypes'
  <2>1. WaitDownDoes(t)
    BY <1>6, WaitDownFacts
  <2> QED BY <1>0, <2>1 DEF WaitDownDoes, DiskTypes, Proc
<1>7. ASSUME NEW t \in Requester, Wait(t), S!PRelease(t) PROVE DiskTypes'
  <2>1. WaitReleaseDoes(t)
    BY <1>7, WaitReleaseFacts
  <2> QED BY <1>0, <2>1 DEF WaitReleaseDoes, DiskTypes, Proc
<1>8. ASSUME NEW t \in Requester, Return(t) PROVE DiskTypes'
  <2>1. ReturnDoes(t)
    BY <1>8, ReturnFacts
  <2> QED BY <1>0, <2>1 DEF ReturnDoes, DiskTypes, Proc
<1>9. ASSUME NEW d \in Drive, Transfer(d) PROVE DiskTypes'
  <2>1. TransferDoes(d)
    BY <1>9, TransferFacts
  <2> QED BY <1>0, <2>1 DEF TransferDoes, DiskTypes, Proc
<1>10. ASSUME NEW c \in CPU, NEW d \in Drive, Handle(c, d) PROVE DiskTypes'
  <2>1. HandleDoes(c, d)
    BY <1>10, HandleFacts
  <2> QED BY <1>0, <2>1 DEF HandleDoes, DiskTypes, Proc
<1>11. ASSUME NEW c \in CPU, Signal(c), S!VAcquire(c, sem[served[drive[c]]]) PROVE DiskTypes'
  <2>1. SignalAcquireDoes(c)
    BY <1>11, SignalAcquireFacts
  <2> QED BY <1>0, <2>1 DEF SignalAcquireDoes, DiskTypes, Proc
<1>12. ASSUME NEW c \in CPU, Signal(c), S!VUp(c) PROVE DiskTypes'
  <2>1. SignalUpDoes(c)
    BY <1>12, SignalUpFacts
  <2> QED BY <1>0, <2>1 DEF SignalUpDoes, DiskTypes, Proc
<1>13. ASSUME NEW c \in CPU, Signal(c), S!VRelease(c) PROVE DiskTypes'
  <2>1. SignalReleaseDoes(c)
    BY <1>13, SignalReleaseFacts
  <2> QED BY <1>0, <2>1 DEF SignalReleaseDoes, DiskTypes, Proc
<1>14. ASSUME NEW c \in CPU, HandleNext(c) PROVE DiskTypes'
  <2>1. HandleNextDoes(c)
    BY <1>14, HandleNextFacts
  <2>2. PICK q \in Seq(Requester) : q = queue[drive[c]]
    BY <1>0, <2>1 DEF HandleNextDoes, DiskTypes
  <2>3. q # <<>> => Head(q) \in Requester /\ Tail(q) \in Seq(Requester)
    OBVIOUS
  <2>4. queue' \in [Drive -> Seq(Requester)] /\ served' \in [Drive -> Requester \cup {None}]
        /\ busy' \in [Drive -> BOOLEAN]
    <3>1. CASE UNCHANGED <<queue, busy>> /\ served' = [served EXCEPT ![drive[c]] = None]
      BY <1>0, <3>1 DEF DiskTypes
    <3>2. CASE /\ q # <<>> /\ queue' = [queue EXCEPT ![drive[c]] = Tail(q)]
               /\ served' = [served EXCEPT ![drive[c]] = Head(q)]
               /\ busy' = [busy EXCEPT ![drive[c]] = TRUE]
      BY <1>0, <2>3, <3>2 DEF DiskTypes
    <3> QED BY <2>1, <2>2, <3>1, <3>2 DEF HandleNextDoes
  <2> QED BY <1>0, <2>1, <2>4 DEF HandleNextDoes, DiskTypes, Proc
<1> QED BY <1>1, <1>2, <1>3, <1>4, <1>5, <1>6, <1>7, <1>8, <1>9, <1>10, <1>11, <1>12,
         <1>13, <1>14 DEF Next, Wait, Signal

LEMMA PlaceStep == IInv /\ [Next]_vars => PlaceInv'
<1> SUFFICES ASSUME IInv, [Next]_vars PROVE PlaceInv'
  OBVIOUS
<1>0. /\ SemTypes /\ DiskTypes /\ PlaceInv /\ DriveInv /\ OwnInv
      /\ QueueInv /\ SleepInv /\ ValueInv /\ DoneInv
  BY Parts
<1>1. CASE UNCHANGED vars
  BY <1>0, <1>1 DEF vars, PlaceInv, SemTypes, DiskTypes, Proc, semvars, diskvars
<1>2. ASSUME NEW t \in Requester, NEW d \in Drive, Request(t, d) PROVE PlaceInv'
  <2>1. RequestDoes(t, d)
    BY <1>2, RequestFacts
  <2> QED BY <1>0, <2>1 DEF RequestDoes, PlaceInv, SemTypes, DiskTypes, Proc
<1>3. ASSUME NEW t \in Requester, Created(t) PROVE PlaceInv'
  <2>1. CreatedDoes(t)
    BY <1>3, CreatedFacts
  <2> QED BY <1>0, <2>1 DEF CreatedDoes, PlaceInv, SemTypes, DiskTypes, Proc
<1>4. ASSUME NEW t \in Requester, Submit(t) PROVE PlaceInv'
  <2>1. SubmitDoes(t)
    BY <1>4, SubmitFacts
  <2> QED BY <1>0, <2>1 DEF SubmitDoes, PlaceInv, SemTypes, DiskTypes, Proc
<1>5. ASSUME NEW t \in Requester, Wait(t), S!PAcquire(t, sem[t]) PROVE PlaceInv'
  <2>1. WaitAcquireDoes(t)
    BY <1>5, WaitAcquireFacts
  <2> QED BY <1>0, <2>1 DEF WaitAcquireDoes, PlaceInv, SemTypes, DiskTypes, Proc
<1>6. ASSUME NEW t \in Requester, Wait(t), S!PDown(t) PROVE PlaceInv'
  <2>1. WaitDownDoes(t)
    BY <1>6, WaitDownFacts
  <2> QED BY <1>0, <2>1 DEF WaitDownDoes, PlaceInv, SemTypes, DiskTypes, Proc
<1>7. ASSUME NEW t \in Requester, Wait(t), S!PRelease(t) PROVE PlaceInv'
  <2>1. WaitReleaseDoes(t)
    BY <1>7, WaitReleaseFacts
  <2> QED BY <1>0, <2>1 DEF WaitReleaseDoes, PlaceInv, SemTypes, DiskTypes, Proc
<1>8. ASSUME NEW t \in Requester, Return(t) PROVE PlaceInv'
  <2>1. ReturnDoes(t)
    BY <1>8, ReturnFacts
  <2> QED BY <1>0, <2>1 DEF ReturnDoes, PlaceInv, SemTypes, DiskTypes, Proc
<1>9. ASSUME NEW d \in Drive, Transfer(d) PROVE PlaceInv'
  <2>1. TransferDoes(d)
    BY <1>9, TransferFacts
  <2> QED BY <1>0, <2>1 DEF TransferDoes, PlaceInv, SemTypes, DiskTypes, Proc
<1>10. ASSUME NEW c \in CPU, NEW d \in Drive, Handle(c, d) PROVE PlaceInv'
  <2>1. HandleDoes(c, d)
    BY <1>10, HandleFacts
  <2> QED BY <1>0, <2>1 DEF HandleDoes, PlaceInv, SemTypes, DiskTypes, Proc
<1>11. ASSUME NEW c \in CPU, Signal(c), S!VAcquire(c, sem[served[drive[c]]]) PROVE PlaceInv'
  <2>1. SignalAcquireDoes(c)
    BY <1>11, SignalAcquireFacts
  <2> QED BY <1>0, <2>1 DEF SignalAcquireDoes, PlaceInv, SemTypes, DiskTypes, Proc
<1>12. ASSUME NEW c \in CPU, Signal(c), S!VUp(c) PROVE PlaceInv'
  <2>1. SignalUpDoes(c)
    BY <1>12, SignalUpFacts
  <2> QED BY <1>0, <2>1 DEF SignalUpDoes, PlaceInv, SemTypes, DiskTypes, Proc
<1>13. ASSUME NEW c \in CPU, Signal(c), S!VRelease(c) PROVE PlaceInv'
  <2>1. SignalReleaseDoes(c)
    BY <1>13, SignalReleaseFacts
  <2> QED BY <1>0, <2>1 DEF SignalReleaseDoes, PlaceInv, SemTypes, DiskTypes, Proc
<1>14. ASSUME NEW c \in CPU, HandleNext(c) PROVE PlaceInv'
  <2>1. HandleNextDoes(c)
    BY <1>14, HandleNextFacts
  <2> QED BY <1>0, <2>1 DEF HandleNextDoes, PlaceInv, SemTypes, DiskTypes, Proc
<1> QED BY <1>1, <1>2, <1>3, <1>4, <1>5, <1>6, <1>7, <1>8, <1>9, <1>10, <1>11, <1>12,
         <1>13, <1>14 DEF Next, Wait, Signal

LEMMA DriveStep == IInv /\ [Next]_vars => DriveInv'
<1> SUFFICES ASSUME IInv, [Next]_vars PROVE DriveInv'
  OBVIOUS
<1>0. /\ SemTypes /\ DiskTypes /\ PlaceInv /\ DriveInv /\ OwnInv
      /\ QueueInv /\ SleepInv /\ ValueInv /\ DoneInv
  BY Parts
<1>1. CASE UNCHANGED vars
  BY <1>0, <1>1 DEF vars, DriveInv, DiskTypes, Proc, semvars, diskvars
<1>2. ASSUME NEW t \in Requester, NEW d \in Drive, Request(t, d) PROVE DriveInv'
  <2>1. RequestDoes(t, d)
    BY <1>2, RequestFacts
  <2> QED BY <1>0, <2>1 DEF RequestDoes, DriveInv, DiskTypes, Proc
<1>3. ASSUME NEW t \in Requester, Created(t) PROVE DriveInv'
  <2>1. CreatedDoes(t)
    BY <1>3, CreatedFacts
  <2> QED BY <1>0, <2>1 DEF CreatedDoes, DriveInv, DiskTypes, Proc
<1>4. ASSUME NEW t \in Requester, Submit(t) PROVE DriveInv'
  <2>1. SubmitDoes(t)
    BY <1>4, SubmitFacts
  <2>2. PICK q \in Seq(Requester) : q = queue[drive[t]]
    BY <1>0, <2>1 DEF SubmitDoes, DiskTypes
  <2>3. /\ Append(q, t) \in Seq(Requester) /\ Append(q, t) # <<>>
    OBVIOUS
  <2>4. PICK r \in Seq(Requester) : r = Append(q, t) /\ r # <<>>
    BY <2>3
  <2>5. Head(r) \in Requester /\ Tail(r) \in Seq(Requester)
    BY <2>4
  <2>6. CASE served[drive[t]] = None /\ served' = [served EXCEPT ![drive[t]] = Head(r)]
                /\ busy' = [busy EXCEPT ![drive[t]] = TRUE]
    BY <1>0, <2>1, <2>5, <2>6 DEF SubmitDoes, DriveInv, DiskTypes, Proc
  <2>7. CASE UNCHANGED <<served, busy>>
    BY <1>0, <2>1, <2>7 DEF SubmitDoes, DriveInv, DiskTypes, Proc
  <2> QED BY <2>1, <2>2, <2>4, <2>6, <2>7 DEF SubmitDoes
<1>5. ASSUME NEW t \in Requester, Wait(t), S!PAcquire(t, sem[t]) PROVE DriveInv'
  <2>1. WaitAcquireDoes(t)
    BY <1>5, WaitAcquireFacts
  <2> QED BY <1>0, <2>1 DEF WaitAcquireDoes, DriveInv, DiskTypes, Proc
<1>6. ASSUME NEW t \in Requester, Wait(t), S!PDown(t) PROVE DriveInv'
  <2>1. WaitDownDoes(t)
    BY <1>6, WaitDownFacts
  <2> QED BY <1>0, <2>1 DEF WaitDownDoes, DriveInv, DiskTypes, Proc
<1>7. ASSUME NEW t \in Requester, Wait(t), S!PRelease(t) PROVE DriveInv'
  <2>1. WaitReleaseDoes(t)
    BY <1>7, WaitReleaseFacts
  <2> QED BY <1>0, <2>1 DEF WaitReleaseDoes, DriveInv, DiskTypes, Proc
<1>8. ASSUME NEW t \in Requester, Return(t) PROVE DriveInv'
  <2>1. ReturnDoes(t)
    BY <1>8, ReturnFacts
  <2> QED BY <1>0, <2>1 DEF ReturnDoes, DriveInv, DiskTypes, Proc
<1>9. ASSUME NEW d \in Drive, Transfer(d) PROVE DriveInv'
  <2>1. TransferDoes(d)
    BY <1>9, TransferFacts
  <2> QED BY <1>0, <2>1 DEF TransferDoes, DriveInv, DiskTypes, Proc
<1>10. ASSUME NEW c \in CPU, NEW d \in Drive, Handle(c, d) PROVE DriveInv'
  <2>1. HandleDoes(c, d)
    BY <1>10, HandleFacts
  <2> QED BY <1>0, <2>1 DEF HandleDoes, DriveInv, DiskTypes, Proc
<1>11. ASSUME NEW c \in CPU, Signal(c), S!VAcquire(c, sem[served[drive[c]]]) PROVE DriveInv'
  <2>1. SignalAcquireDoes(c)
    BY <1>11, SignalAcquireFacts
  <2> QED BY <1>0, <2>1 DEF SignalAcquireDoes, DriveInv, DiskTypes, Proc
<1>12. ASSUME NEW c \in CPU, Signal(c), S!VUp(c) PROVE DriveInv'
  <2>1. SignalUpDoes(c)
    BY <1>12, SignalUpFacts
  <2> QED BY <1>0, <2>1 DEF SignalUpDoes, DriveInv, DiskTypes, Proc
<1>13. ASSUME NEW c \in CPU, Signal(c), S!VRelease(c) PROVE DriveInv'
  <2>1. SignalReleaseDoes(c)
    BY <1>13, SignalReleaseFacts
  <2> QED BY <1>0, <2>1 DEF SignalReleaseDoes, DriveInv, DiskTypes, Proc
<1>14. ASSUME NEW c \in CPU, HandleNext(c) PROVE DriveInv'
  <2>1. HandleNextDoes(c)
    BY <1>14, HandleNextFacts
  <2>2. \A e \in CPU : pc[e] # "idle" /\ e # c => drive[e] # drive[c]
    BY <1>0, <2>1 DEF HandleNextDoes, DriveInv
  <2>3. ~ irq[drive[c]] /\ ~ busy[drive[c]]
    BY <1>0, <2>1 DEF HandleNextDoes, DriveInv
  <2>4. CASE UNCHANGED busy /\ served' = [served EXCEPT ![drive[c]] = None]
    BY <1>0, <2>1, <2>2, <2>3, <2>4 DEF HandleNextDoes, DriveInv, DiskTypes, Proc
  <2>5. CASE queue[drive[c]] # <<>> /\ served' = [served EXCEPT ![drive[c]] = Head(queue[drive[c]])]
                /\ busy' = [busy EXCEPT ![drive[c]] = TRUE]
    <3>1. PICK q \in Seq(Requester) : q = queue[drive[c]]
      BY <1>0, <2>1 DEF HandleNextDoes, DiskTypes
    <3>2. PICK u \in Requester : u = Head(queue[drive[c]])
      <4>1. Head(q) \in Requester
        BY <2>5, <3>1
      <4> QED BY <3>1, <4>1
    <3> QED BY <1>0, <2>1, <2>2, <2>3, <2>5, <3>2 DEF HandleNextDoes, DriveInv, DiskTypes, Proc
  <2> QED BY <2>1, <2>4, <2>5 DEF HandleNextDoes
<1> QED BY <1>1, <1>2, <1>3, <1>4, <1>5, <1>6, <1>7, <1>8, <1>9, <1>10, <1>11, <1>12,
         <1>13, <1>14 DEF Next, Wait, Signal

LEMMA OwnStep == IInv /\ [Next]_vars => OwnInv'
<1> SUFFICES ASSUME IInv, [Next]_vars PROVE OwnInv'
  OBVIOUS
<1>0. /\ SemTypes /\ DiskTypes /\ PlaceInv /\ DriveInv /\ OwnInv
      /\ QueueInv /\ SleepInv /\ ValueInv /\ DoneInv
  BY Parts
<1>1. CASE UNCHANGED vars
  BY <1>0, <1>1 DEF vars, OwnInv, SemTypes, DiskTypes, Proc, PlaceInv, semvars, diskvars
<1>2. ASSUME NEW t \in Requester, NEW d \in Drive, Request(t, d) PROVE OwnInv'
  <2>1. RequestDoes(t, d)
    BY <1>2, RequestFacts
  <2> QED BY <1>0, <2>1 DEF RequestDoes, OwnInv, SemTypes, DiskTypes, Proc, PlaceInv
<1>3. ASSUME NEW t \in Requester, Created(t) PROVE OwnInv'
  <2>1. CreatedDoes(t)
    BY <1>3, CreatedFacts
  <2> QED BY <1>0, <2>1 DEF CreatedDoes, OwnInv, SemTypes, DiskTypes, Proc, PlaceInv
<1>4. ASSUME NEW t \in Requester, Submit(t) PROVE OwnInv'
  <2>1. SubmitDoes(t)
    BY <1>4, SubmitFacts
  <2> QED BY <1>0, <2>1 DEF SubmitDoes, OwnInv, SemTypes, DiskTypes, Proc, PlaceInv
<1>5. ASSUME NEW t \in Requester, Wait(t), S!PAcquire(t, sem[t]) PROVE OwnInv'
  <2>1. WaitAcquireDoes(t)
    BY <1>5, WaitAcquireFacts
  <2> QED BY <1>0, <2>1 DEF WaitAcquireDoes, OwnInv, SemTypes, DiskTypes, Proc, PlaceInv
<1>6. ASSUME NEW t \in Requester, Wait(t), S!PDown(t) PROVE OwnInv'
  <2>1. WaitDownDoes(t)
    BY <1>6, WaitDownFacts
  <2> QED BY <1>0, <2>1 DEF WaitDownDoes, OwnInv, SemTypes, DiskTypes, Proc, PlaceInv
<1>7. ASSUME NEW t \in Requester, Wait(t), S!PRelease(t) PROVE OwnInv'
  <2>1. WaitReleaseDoes(t)
    BY <1>7, WaitReleaseFacts
  <2> QED BY <1>0, <2>1 DEF WaitReleaseDoes, OwnInv, SemTypes, DiskTypes, Proc, PlaceInv
<1>8. ASSUME NEW t \in Requester, Return(t) PROVE OwnInv'
  <2>1. ReturnDoes(t)
    BY <1>8, ReturnFacts
  <2> QED BY <1>0, <2>1 DEF ReturnDoes, OwnInv, SemTypes, DiskTypes, Proc, PlaceInv
<1>9. ASSUME NEW d \in Drive, Transfer(d) PROVE OwnInv'
  <2>1. TransferDoes(d)
    BY <1>9, TransferFacts
  <2> QED BY <1>0, <2>1 DEF TransferDoes, OwnInv, SemTypes, DiskTypes, Proc, PlaceInv
<1>10. ASSUME NEW c \in CPU, NEW d \in Drive, Handle(c, d) PROVE OwnInv'
  <2>1. HandleDoes(c, d)
    BY <1>10, HandleFacts
  <2> QED BY <1>0, <2>1 DEF HandleDoes, OwnInv, SemTypes, DiskTypes, Proc, PlaceInv
<1>11. ASSUME NEW c \in CPU, Signal(c), S!VAcquire(c, sem[served[drive[c]]]) PROVE OwnInv'
  <2>1. SignalAcquireDoes(c)
    BY <1>11, SignalAcquireFacts
  <2> QED BY <1>0, <2>1 DEF SignalAcquireDoes, OwnInv, SemTypes, DiskTypes, Proc, PlaceInv
<1>12. ASSUME NEW c \in CPU, Signal(c), S!VUp(c) PROVE OwnInv'
  <2>1. SignalUpDoes(c)
    BY <1>12, SignalUpFacts
  <2> QED BY <1>0, <2>1 DEF SignalUpDoes, OwnInv, SemTypes, DiskTypes, Proc, PlaceInv
<1>13. ASSUME NEW c \in CPU, Signal(c), S!VRelease(c) PROVE OwnInv'
  <2>1. SignalReleaseDoes(c)
    BY <1>13, SignalReleaseFacts
  <2> QED BY <1>0, <2>1 DEF SignalReleaseDoes, OwnInv, SemTypes, DiskTypes, Proc, PlaceInv
<1>14. ASSUME NEW c \in CPU, HandleNext(c) PROVE OwnInv'
  <2>1. HandleNextDoes(c)
    BY <1>14, HandleNextFacts
  <2> QED BY <1>0, <2>1 DEF HandleNextDoes, OwnInv, SemTypes, DiskTypes, Proc, PlaceInv
<1> QED BY <1>1, <1>2, <1>3, <1>4, <1>5, <1>6, <1>7, <1>8, <1>9, <1>10, <1>11, <1>12,
         <1>13, <1>14 DEF Next, Wait, Signal

-----------------------------------------------------------------------------
(* Which requests are pending *)

LEMMA InAppend ==
    ASSUME NEW q \in Seq(Requester), NEW t \in Requester, NEW u \in Requester
    PROVE  InSeq(u, Append(q, t)) <=> InSeq(u, q) \/ u = t
<1>1. /\ Len(Append(q, t)) = Len(q) + 1 /\ Len(q) \in Nat /\ Append(q, t)[Len(q) + 1] = t
      /\ \A k \in 1 .. Len(q) : Append(q, t)[k] = q[k]
  OBVIOUS
<1>2. Len(q) + 1 \in 1 .. (Len(q) + 1) /\ \A k \in 1 .. Len(q) : k \in 1 .. (Len(q) + 1)
  BY <1>1
<1>3. \A k \in 1 .. (Len(q) + 1) : k = Len(q) + 1 \/ k \in 1 .. Len(q)
  BY <1>1
<1> QED BY <1>1, <1>2, <1>3 DEF InSeq

LEMMA TailFacts ==
    ASSUME NEW q \in Seq(Requester), q # <<>>
    PROVE  /\ Head(q) \in Requester /\ Tail(q) \in Seq(Requester)
           /\ Len(q) \in Nat \ {0} /\ Len(Tail(q)) = Len(q) - 1 /\ Head(q) = q[1]
           /\ \A k \in 1 .. (Len(q) - 1) : Tail(q)[k] = q[k + 1]
OBVIOUS

LEMMA InHeadTail ==
    ASSUME NEW q \in Seq(Requester), q # <<>>, NEW u \in Requester
    PROVE  InSeq(u, q) <=> u = Head(q) \/ InSeq(u, Tail(q))
<1>1. PICK n \in Nat : n = Len(q) - 1
  <2>1. Len(q) - 1 \in Nat
    BY TailFacts
  <2> QED BY <2>1
<1>2. 1 \in 1 .. Len(q) /\ \A k \in 1 .. n : k + 1 \in 1 .. Len(q)
  BY <1>1, TailFacts
<1>3. \A k \in 1 .. Len(q) : k = 1 \/ \E j \in 1 .. n : k = j + 1
  <2> TAKE k \in 1 .. Len(q)
  <2>1. k # 1 => k - 1 \in 1 .. n /\ k = (k - 1) + 1
    BY <1>1, TailFacts
  <2> QED BY <2>1
<1> QED BY <1>1, <1>2, <1>3, TailFacts DEF InSeq

LEMMA OnceAppend ==
    ASSUME NEW q \in Seq(Requester), NEW t \in Requester, Once(q), ~ InSeq(t, q)
    PROVE  Once(Append(q, t))
<1>1. /\ Len(Append(q, t)) = Len(q) + 1 /\ Len(q) \in Nat /\ Append(q, t)[Len(q) + 1] = t
      /\ \A k \in 1 .. Len(q) : Append(q, t)[k] = q[k]
  OBVIOUS
<1>2. \A k \in 1 .. (Len(q) + 1) : k = Len(q) + 1 \/ k \in 1 .. Len(q)
  BY <1>1
<1> QED BY <1>1, <1>2 DEF Once, InSeq

LEMMA OnceTail ==
    ASSUME NEW q \in Seq(Requester), q # <<>>, Once(q)
    PROVE  Once(Tail(q)) /\ ~ InSeq(Head(q), Tail(q))
<1>1. PICK n \in Nat : n = Len(q) - 1
  <2>1. Len(q) - 1 \in Nat
    BY TailFacts
  <2> QED BY <2>1
<1>2. /\ Len(Tail(q)) = n /\ \A k \in 1 .. n : Tail(q)[k] = q[k + 1] /\ k + 1 \in 1 .. Len(q)
      /\ Head(q) = q[1] /\ 1 \in 1 .. Len(q)
  BY <1>1, TailFacts
<1>3. ASSUME NEW k \in 1 .. n, NEW j \in 1 .. n, Tail(q)[k] = Tail(q)[j] PROVE k = j
  <2>1. k + 1 = j + 1
    BY <1>2, <1>3 DEF Once
  <2> QED BY <2>1
<1>4. ASSUME NEW k \in 1 .. n, Tail(q)[k] = Head(q) PROVE FALSE
  <2>1. k + 1 = 1
    BY <1>2, <1>4 DEF Once
  <2> QED BY <2>1
<1> QED BY <1>2, <1>3, <1>4 DEF Once, InSeq

LEMMA PendingKept ==
    ASSUME UNCHANGED <<queue, served>>, \A c \in CPU : \A e \in Drive : Raised(c, e)' <=> Raised(c, e),
           NEW u \in Requester, NEW e \in Drive
    PROVE  Pending(u, e)' <=> Pending(u, e)
BY DEF Pending, Serving, InSeq

\* Submit adds a request, ...
LEMMA PendingSubmit ==
    ASSUME IInv, NEW t \in Requester, SubmitDoes(t)
    PROVE  /\ \A u \in Requester, e \in Drive :
                 Pending(u, e)' <=> Pending(u, e) \/ (u = t /\ e = drive[t])
           /\ \A e \in Drive : Once(queue'[e])
           /\ \A e \in Drive : \A u \in Requester : served'[e] = u => ~ InSeq(u, queue'[e])
<1>0. SemTypes /\ DiskTypes /\ PlaceInv /\ DriveInv /\ OwnInv /\ QueueInv
  BY Parts
<1>1. drive[t] \in Drive /\ pc[t] = "submit"
  BY DEF SubmitDoes
<1>2. PICK d \in Drive : d = drive[t]
  BY <1>1
<1>3. PICK q \in Seq(Requester) : q = queue[d]
  BY <1>0 DEF DiskTypes
<1>4. ~ Pending(t, d)
  BY <1>0, <1>1 DEF QueueInv
<1>5. Once(q) /\ ~ InSeq(t, q)
  BY <1>0, <1>3, <1>4 DEF QueueInv, Pending
<1>6. PICK r \in Seq(Requester) : r = Append(q, t) /\ r # <<>>
  <2>1. Append(q, t) \in Seq(Requester) /\ Append(q, t) # <<>>
    OBVIOUS
  <2> QED BY <2>1
<1>7. Once(r) /\ \A u \in Requester : InSeq(u, r) <=> InSeq(u, q) \/ u = t
  BY <1>5, <1>6, OnceAppend, InAppend
<1>8. \A c \in CPU : \A e \in Drive : Raised(c, e)' <=> Raised(c, e)
  BY <1>0 DEF SubmitDoes, Raised, DiskTypes, Proc
<1>9. \A c \in CPU : ~ Raised(c, d)
  BY <1>0, <1>2 DEF SubmitDoes, DriveInv, Raised
<1>10. \A e \in Drive : e # d => queue'[e] = queue[e] /\ served'[e] = served[e]
  BY <1>0, <1>2 DEF SubmitDoes, DiskTypes
<1>11. CASE served[d] = None
  <2>1. queue'[d] = Tail(r) /\ served'[d] = Head(r)
    BY <1>0, <1>2, <1>3, <1>6, <1>11 DEF SubmitDoes, DiskTypes
  <2>2. /\ Once(Tail(r)) /\ ~ InSeq(Head(r), Tail(r))
        /\ \A u \in Requester : InSeq(u, r) <=> u = Head(r) \/ InSeq(u, Tail(r))
    BY <1>6, <1>7, OnceTail, InHeadTail
  <2>3. \A u \in Requester : Pending(u, d)' <=> Pending(u, d) \/ u = t
    <3>1. \A u \in Requester : Pending(u, d) <=> InSeq(u, q)
      BY <1>3, <1>11 DEF Pending, Serving
    <3>2. \A u \in Requester : Pending(u, d)' <=> InSeq(u, Tail(r)) \/ u = Head(r)
      BY <1>8, <1>9, <2>1 DEF Pending, Serving, InSeq
    <3> QED BY <1>7, <2>2, <3>1, <3>2
  <2>4. \A u \in Requester, e \in Drive : e # d => (Pending(u, e)' <=> Pending(u, e))
    BY <1>8, <1>10 DEF Pending, Serving, InSeq
  <2>8. \A e \in Drive : Once(queue'[e])
    BY <1>0, <1>10, <2>1, <2>2 DEF QueueInv
  <2>9. \A e \in Drive : \A u \in Requester : served'[e] = u => ~ InSeq(u, queue'[e])
    BY <1>0, <1>10, <2>1, <2>2, ZenonT(30) DEF QueueInv
  <2>10. ASSUME NEW u \in Requester, NEW e \in Drive
         PROVE  Pending(u, e)' <=> Pending(u, e) \/ (u = t /\ e = drive[t])
    <3>1. CASE e = d
      BY <1>2, <2>3, <3>1
    <3>2. CASE e # d
      BY <1>2, <2>4, <3>2
    <3> QED BY <3>1, <3>2
  <2> QED BY <2>8, <2>9, <2>10
<1>12. CASE served[d] # None
  <2>1. queue'[d] = r /\ served'[d] = served[d]
    BY <1>0, <1>2, <1>3, <1>6, <1>12 DEF SubmitDoes, DiskTypes
  <2>2. \A u \in Requester : Pending(u, d)' <=> Pending(u, d) \/ u = t
    <3>1. \A u \in Requester : Pending(u, d) <=> InSeq(u, q) \/ served[d] = u
      BY <1>3, <1>9 DEF Pending, Serving
    <3>2. \A u \in Requester : Pending(u, d)' <=> InSeq(u, r) \/ served[d] = u
      BY <1>8, <1>9, <2>1 DEF Pending, Serving, InSeq
    <3> QED BY <1>7, <3>1, <3>2
  <2>3. served[d] # t
    BY <1>4, <1>9 DEF Pending, Serving
  <2>4. \A u \in Requester, e \in Drive : e # d => (Pending(u, e)' <=> Pending(u, e))
    BY <1>8, <1>10 DEF Pending, Serving, InSeq
  <2>5. \A u \in Requester : served[d] = u => ~ InSeq(u, r)
    BY <1>0, <1>3, <1>7, <2>3 DEF QueueInv
  <2>8. \A e \in Drive : Once(queue'[e])
    BY <1>0, <1>7, <1>10, <2>1 DEF QueueInv
  <2>9. \A e \in Drive : \A u \in Requester : served'[e] = u => ~ InSeq(u, queue'[e])
    BY <1>0, <1>10, <2>1, <2>5 DEF QueueInv
  <2>10. ASSUME NEW u \in Requester, NEW e \in Drive
         PROVE  Pending(u, e)' <=> Pending(u, e) \/ (u = t /\ e = drive[t])
    <3>1. CASE e = d
      BY <1>2, <2>2, <3>1
    <3>2. CASE e # d
      BY <1>2, <2>4, <3>2
    <3> QED BY <3>1, <3>2
  <2> QED BY <2>8, <2>9, <2>10
<1> QED BY <1>11, <1>12

\* ... a handler takes the served one away when it raises the semaphore ...
LEMMA PendingSignalUp ==
    ASSUME IInv, NEW c \in CPU, SignalUpDoes(c)
    PROVE  \A u \in Requester, e \in Drive :
              Pending(u, e)' <=> Pending(u, e) /\ ~ (u = served[drive[c]] /\ e = drive[c])
<1>0. SemTypes /\ DiskTypes /\ PlaceInv /\ DriveInv /\ QueueInv
  BY Parts
<1>1. PICK d \in Drive : d = drive[c]
  BY DEF SignalUpDoes
<1>2. /\ UNCHANGED <<queue, served, pc, drive>> /\ pc[c] = "signalling"
      /\ at'[c] = "v_release" /\ at[c] = "v"
  BY <1>0 DEF SignalUpDoes, SemTypes, Proc
<1>3. \A b \in CPU : b # c => at'[b] = at[b]
  BY <1>0 DEF SignalUpDoes, SemTypes, Proc
<1>4. Raised(c, d)' /\ \A b \in CPU : ~ Raised(b, d)
  <2>1. \A b \in CPU : pc[b] = "signalling" /\ drive[b] = d => b = c
    BY <1>0, <1>1, <1>2 DEF DriveInv
  <2> QED BY <1>1, <1>2, <2>1 DEF Raised
<1>5. \A b \in CPU : \A e \in Drive : e # d => (Raised(b, e)' <=> Raised(b, e))
  BY <1>1, <1>2, <1>3 DEF Raised
<1>6. \A u \in Requester, e \in Drive : e # d => (Pending(u, e)' <=> Pending(u, e))
  BY <1>2, <1>5 DEF Pending, Serving, InSeq
<1>7. \A u \in Requester : Pending(u, d)' <=> InSeq(u, queue[d])
  BY <1>2, <1>4 DEF Pending, Serving, InSeq
<1>8. \A u \in Requester : Pending(u, d) <=> InSeq(u, queue[d]) \/ u = served[d]
  BY <1>4 DEF Pending, Serving
<1> QED BY <1>0, <1>1, <1>6, <1>7, <1>8 DEF QueueInv

\* ... and the next one is served as one that was queued.
LEMMA PendingHandleNext ==
    ASSUME IInv, NEW c \in CPU, HandleNextDoes(c)
    PROVE  /\ \A u \in Requester, e \in Drive : Pending(u, e)' <=> Pending(u, e)
           /\ \A e \in Drive : Once(queue'[e])
           /\ \A e \in Drive : \A u \in Requester : served'[e] = u => ~ InSeq(u, queue'[e])
<1>0. SemTypes /\ DiskTypes /\ PlaceInv /\ DriveInv /\ QueueInv
  BY Parts
<1>1. PICK d \in Drive : d = drive[c]
  BY DEF HandleNextDoes
<1>2. UNCHANGED <<at, drive>> /\ pc[c] = "signalling" /\ pc'[c] = "idle" /\ at[c] = "out"
  BY <1>0 DEF HandleNextDoes, DiskTypes, Proc
<1>3. \A b \in CPU : b # c => pc'[b] = pc[b]
  BY <1>0 DEF HandleNextDoes, DiskTypes, Proc
<1>4. Raised(c, d) /\ \A b \in CPU : ~ Raised(b, d)'
  <2>1. \A b \in CPU : pc[b] = "signalling" /\ drive[b] = d => b = c
    BY <1>0, <1>1, <1>2 DEF DriveInv
  <2> QED BY <1>1, <1>2, <1>3, <2>1 DEF Raised
<1>5. \A b \in CPU : \A e \in Drive : e # d => (Raised(b, e)' <=> Raised(b, e))
  BY <1>1, <1>2, <1>3 DEF Raised
<1>6. \A e \in Drive : e # d => queue'[e] = queue[e] /\ served'[e] = served[e]
  BY <1>0, <1>1 DEF HandleNextDoes, DiskTypes
<1>7. \A u \in Requester, e \in Drive : e # d => (Pending(u, e)' <=> Pending(u, e))
  BY <1>5, <1>6 DEF Pending, Serving, InSeq
<1>8. \A u \in Requester : Pending(u, d) <=> InSeq(u, queue[d])
  BY <1>4 DEF Pending, Serving
<1>9. PICK q \in Seq(Requester) : q = queue[d]
  BY <1>0 DEF DiskTypes
<1>10. CASE q = <<>>
  <2>1. queue'[d] = q /\ served'[d] = None
    BY <1>0, <1>1, <1>9, <1>10 DEF HandleNextDoes, DiskTypes
  <2>2. \A u \in Requester : Pending(u, d)' <=> InSeq(u, q)
    BY <2>1 DEF Pending, Serving, InSeq
  <2> QED BY <1>0, <1>6, <1>7, <1>8, <1>9, <2>1, <2>2 DEF QueueInv
<1>11. CASE q # <<>>
  <2>1. queue'[d] = Tail(q) /\ served'[d] = Head(q)
    BY <1>0, <1>1, <1>9, <1>11 DEF HandleNextDoes, DiskTypes
  <2>2. /\ Once(Tail(q)) /\ ~ InSeq(Head(q), Tail(q))
        /\ \A u \in Requester : InSeq(u, q) <=> u = Head(q) \/ InSeq(u, Tail(q))
    BY <1>0, <1>9, <1>11, OnceTail, InHeadTail DEF QueueInv
  <2>3. \A u \in Requester : Pending(u, d)' <=> InSeq(u, Tail(q)) \/ u = Head(q)
    BY <1>4, <2>1 DEF Pending, Serving, InSeq
  <2>4. \A u \in Requester : Pending(u, d)' <=> Pending(u, d)
    BY <1>8, <1>9, <2>2, <2>3
  <2>8. \A e \in Drive : Once(queue'[e])
    BY <1>0, <1>6, <2>1, <2>2 DEF QueueInv
  <2>9. \A e \in Drive : \A u \in Requester : served'[e] = u => ~ InSeq(u, queue'[e])
    BY <1>0, <1>6, <2>1, <2>2, ZenonT(30) DEF QueueInv
  <2> QED BY <2>8, <2>9, <1>7, <2>4
<1> QED BY <1>10, <1>11

\* The other steps leave the pending requests alone.
LEMMA PendingRequest ==
    ASSUME IInv, NEW t \in Requester, NEW d \in Drive, RequestDoes(t, d), NEW u \in Requester, NEW e \in Drive
    PROVE  Pending(u, e)' <=> Pending(u, e)
<1>1. \A b \in CPU : \A f \in Drive : Raised(b, f)' <=> Raised(b, f)
  BY Parts DEF RequestDoes, Raised, SemTypes, DiskTypes, PlaceInv, Proc
<1> QED BY <1>1, PendingKept DEF RequestDoes

LEMMA PendingCreated ==
    ASSUME IInv, NEW t \in Requester, CreatedDoes(t), NEW u \in Requester, NEW e \in Drive
    PROVE  Pending(u, e)' <=> Pending(u, e)
<1>1. \A b \in CPU : \A f \in Drive : Raised(b, f)' <=> Raised(b, f)
  BY Parts DEF CreatedDoes, Raised, SemTypes, DiskTypes, PlaceInv, Proc
<1> QED BY <1>1, PendingKept DEF CreatedDoes

LEMMA PendingWaitAcquire ==
    ASSUME IInv, NEW t \in Requester, WaitAcquireDoes(t), NEW u \in Requester, NEW e \in Drive
    PROVE  Pending(u, e)' <=> Pending(u, e)
<1>1. \A b \in CPU : \A f \in Drive : Raised(b, f)' <=> Raised(b, f)
  BY Parts DEF WaitAcquireDoes, Raised, SemTypes, DiskTypes, PlaceInv, Proc
<1> QED BY <1>1, PendingKept DEF WaitAcquireDoes

LEMMA PendingWaitDown ==
    ASSUME IInv, NEW t \in Requester, WaitDownDoes(t), NEW u \in Requester, NEW e \in Drive
    PROVE  Pending(u, e)' <=> Pending(u, e)
<1>1. \A b \in CPU : \A f \in Drive : Raised(b, f)' <=> Raised(b, f)
  BY Parts DEF WaitDownDoes, Raised, SemTypes, DiskTypes, PlaceInv, Proc
<1> QED BY <1>1, PendingKept DEF WaitDownDoes

LEMMA PendingWaitRelease ==
    ASSUME IInv, NEW t \in Requester, WaitReleaseDoes(t), NEW u \in Requester, NEW e \in Drive
    PROVE  Pending(u, e)' <=> Pending(u, e)
<1>1. \A b \in CPU : \A f \in Drive : Raised(b, f)' <=> Raised(b, f)
  BY Parts DEF WaitReleaseDoes, Raised, SemTypes, DiskTypes, PlaceInv, Proc
<1> QED BY <1>1, PendingKept DEF WaitReleaseDoes

LEMMA PendingReturn ==
    ASSUME IInv, NEW t \in Requester, ReturnDoes(t), NEW u \in Requester, NEW e \in Drive
    PROVE  Pending(u, e)' <=> Pending(u, e)
<1>1. \A b \in CPU : \A f \in Drive : Raised(b, f)' <=> Raised(b, f)
  BY Parts DEF ReturnDoes, Raised, SemTypes, DiskTypes, PlaceInv, Proc
<1> QED BY <1>1, PendingKept DEF ReturnDoes

LEMMA PendingTransfer ==
    ASSUME IInv, NEW d \in Drive, TransferDoes(d), NEW u \in Requester, NEW e \in Drive
    PROVE  Pending(u, e)' <=> Pending(u, e)
<1>1. \A b \in CPU : \A f \in Drive : Raised(b, f)' <=> Raised(b, f)
  BY Parts DEF TransferDoes, Raised, SemTypes, DiskTypes, PlaceInv, Proc
<1> QED BY <1>1, PendingKept DEF TransferDoes

LEMMA PendingHandle ==
    ASSUME IInv, NEW c \in CPU, NEW d \in Drive, HandleDoes(c, d), NEW u \in Requester, NEW e \in Drive
    PROVE  Pending(u, e)' <=> Pending(u, e)
<1>1. \A b \in CPU : \A f \in Drive : Raised(b, f)' <=> Raised(b, f)
  BY Parts DEF HandleDoes, Raised, SemTypes, DiskTypes, PlaceInv, Proc
<1> QED BY <1>1, PendingKept DEF HandleDoes

LEMMA PendingSignalAcquire ==
    ASSUME IInv, NEW c \in CPU, SignalAcquireDoes(c), NEW u \in Requester, NEW e \in Drive
    PROVE  Pending(u, e)' <=> Pending(u, e)
<1>1. \A b \in CPU : \A f \in Drive : Raised(b, f)' <=> Raised(b, f)
  BY Parts DEF SignalAcquireDoes, Raised, SemTypes, DiskTypes, PlaceInv, Proc
<1> QED BY <1>1, PendingKept DEF SignalAcquireDoes

LEMMA PendingSignalRelease ==
    ASSUME IInv, NEW c \in CPU, SignalReleaseDoes(c), NEW u \in Requester, NEW e \in Drive
    PROVE  Pending(u, e)' <=> Pending(u, e)
<1>1. \A b \in CPU : \A f \in Drive : Raised(b, f)' <=> Raised(b, f)
  BY Parts DEF SignalReleaseDoes, Raised, SemTypes, DiskTypes, PlaceInv, Proc
<1> QED BY <1>1, PendingKept DEF SignalReleaseDoes

LEMMA QueueStep == IInv /\ [Next]_vars => QueueInv'
<1> SUFFICES ASSUME IInv, [Next]_vars PROVE QueueInv'
  OBVIOUS
<1>0. /\ SemTypes /\ DiskTypes /\ PlaceInv /\ DriveInv /\ OwnInv
      /\ QueueInv /\ SleepInv /\ ValueInv /\ DoneInv
  BY Parts
<1>1. CASE UNCHANGED vars
  BY <1>0, <1>1 DEF vars, QueueInv, Pending, Serving, Raised, InSeq, Once, semvars, diskvars
<1>2. ASSUME NEW t \in Requester, NEW d \in Drive, Request(t, d) PROVE QueueInv'
  <2>1. RequestDoes(t, d)
    BY <1>2, RequestFacts
  <2>2. \A u \in Requester, e \in Drive : Pending(u, e)' <=> Pending(u, e)
    BY <2>1, PendingRequest
  <2>3. \A u \in Requester, e \in Drive :
          Pending(u, e)' => pc'[u] \in {"wait", "waiting"} /\ drive'[u] = e
    BY <1>0, <2>1, <2>2 DEF RequestDoes, QueueInv, DiskTypes, Proc
  <2>4. UNCHANGED <<queue, served>>
    BY <2>1 DEF RequestDoes
  <2> QED BY <1>0, <2>3, <2>4 DEF QueueInv, InSeq, Once
<1>3. ASSUME NEW t \in Requester, Created(t) PROVE QueueInv'
  <2>1. CreatedDoes(t)
    BY <1>3, CreatedFacts
  <2>2. \A u \in Requester, e \in Drive : Pending(u, e)' <=> Pending(u, e)
    BY <2>1, PendingCreated
  <2>3. \A u \in Requester, e \in Drive :
          Pending(u, e)' => pc'[u] \in {"wait", "waiting"} /\ drive'[u] = e
    BY <1>0, <2>1, <2>2 DEF CreatedDoes, QueueInv, DiskTypes, Proc
  <2>4. UNCHANGED <<queue, served>>
    BY <2>1 DEF CreatedDoes
  <2> QED BY <1>0, <2>3, <2>4 DEF QueueInv, InSeq, Once
<1>4. ASSUME NEW t \in Requester, Submit(t) PROVE QueueInv'
  <2>1. SubmitDoes(t)
    BY <1>4, SubmitFacts
  <2>2. \A u \in Requester, e \in Drive :
          Pending(u, e)' <=> Pending(u, e) \/ (u = t /\ e = drive[t])
    BY <2>1, PendingSubmit
  <2>3. /\ \A e \in Drive : Once(queue'[e])
        /\ \A e \in Drive : \A u \in Requester : served'[e] = u => ~ InSeq(u, queue'[e])
    BY <2>1, PendingSubmit
  <2>4. \A u \in Requester, e \in Drive :
          Pending(u, e)' => pc'[u] \in {"wait", "waiting"} /\ drive'[u] = e
    BY <1>0, <2>1, <2>2 DEF SubmitDoes, QueueInv, DiskTypes, Proc
  <2> QED BY <2>3, <2>4 DEF QueueInv, InSeq, Once
<1>5. ASSUME NEW t \in Requester, Wait(t), S!PAcquire(t, sem[t]) PROVE QueueInv'
  <2>1. WaitAcquireDoes(t)
    BY <1>5, WaitAcquireFacts
  <2>2. \A u \in Requester, e \in Drive : Pending(u, e)' <=> Pending(u, e)
    BY <2>1, PendingWaitAcquire
  <2>3. \A u \in Requester, e \in Drive :
          Pending(u, e)' => pc'[u] \in {"wait", "waiting"} /\ drive'[u] = e
    BY <1>0, <2>1, <2>2 DEF WaitAcquireDoes, QueueInv, DiskTypes, Proc
  <2>4. UNCHANGED <<queue, served>>
    BY <2>1 DEF WaitAcquireDoes
  <2> QED BY <1>0, <2>3, <2>4 DEF QueueInv, InSeq, Once
<1>6. ASSUME NEW t \in Requester, Wait(t), S!PDown(t) PROVE QueueInv'
  <2>1. WaitDownDoes(t)
    BY <1>6, WaitDownFacts
  <2>2. \A u \in Requester, e \in Drive : Pending(u, e)' <=> Pending(u, e)
    BY <2>1, PendingWaitDown
  <2>3. \A u \in Requester, e \in Drive :
          Pending(u, e)' => pc'[u] \in {"wait", "waiting"} /\ drive'[u] = e
    BY <1>0, <2>1, <2>2 DEF WaitDownDoes, QueueInv, DiskTypes, Proc
  <2>4. UNCHANGED <<queue, served>>
    BY <2>1 DEF WaitDownDoes
  <2> QED BY <1>0, <2>3, <2>4 DEF QueueInv, InSeq, Once
<1>7. ASSUME NEW t \in Requester, Wait(t), S!PRelease(t) PROVE QueueInv'
  <2>1. WaitReleaseDoes(t)
    BY <1>7, WaitReleaseFacts
  <2>2. \A u \in Requester, e \in Drive : Pending(u, e)' <=> Pending(u, e)
    BY <2>1, PendingWaitRelease
  <2>3. \A u \in Requester, e \in Drive :
          Pending(u, e)' => pc'[u] \in {"wait", "waiting"} /\ drive'[u] = e
    BY <1>0, <2>1, <2>2 DEF WaitReleaseDoes, QueueInv, DiskTypes, Proc
  <2>4. UNCHANGED <<queue, served>>
    BY <2>1 DEF WaitReleaseDoes
  <2> QED BY <1>0, <2>3, <2>4 DEF QueueInv, InSeq, Once
<1>8. ASSUME NEW t \in Requester, Return(t) PROVE QueueInv'
  <2>1. ReturnDoes(t)
    BY <1>8, ReturnFacts
  <2>2. \A u \in Requester, e \in Drive : Pending(u, e)' <=> Pending(u, e)
    BY <2>1, PendingReturn
  <2>9. ~ Pending(t, drive[t])
    BY <1>0, <2>1 DEF ReturnDoes, ValueInv
  <2>3. \A u \in Requester, e \in Drive :
          Pending(u, e)' => pc'[u] \in {"wait", "waiting"} /\ drive'[u] = e
    BY <1>0, <2>1, <2>2, <2>9 DEF ReturnDoes, QueueInv, DiskTypes, Proc
  <2>4. UNCHANGED <<queue, served>>
    BY <2>1 DEF ReturnDoes
  <2> QED BY <1>0, <2>3, <2>4 DEF QueueInv, InSeq, Once
<1>9. ASSUME NEW d \in Drive, Transfer(d) PROVE QueueInv'
  <2>1. TransferDoes(d)
    BY <1>9, TransferFacts
  <2>2. \A u \in Requester, e \in Drive : Pending(u, e)' <=> Pending(u, e)
    BY <2>1, PendingTransfer
  <2>3. \A u \in Requester, e \in Drive :
          Pending(u, e)' => pc'[u] \in {"wait", "waiting"} /\ drive'[u] = e
    BY <1>0, <2>1, <2>2 DEF TransferDoes, QueueInv, DiskTypes, Proc
  <2>4. UNCHANGED <<queue, served>>
    BY <2>1 DEF TransferDoes
  <2> QED BY <1>0, <2>3, <2>4 DEF QueueInv, InSeq, Once
<1>10. ASSUME NEW c \in CPU, NEW d \in Drive, Handle(c, d) PROVE QueueInv'
  <2>1. HandleDoes(c, d)
    BY <1>10, HandleFacts
  <2>2. \A u \in Requester, e \in Drive : Pending(u, e)' <=> Pending(u, e)
    BY <2>1, PendingHandle
  <2>3. \A u \in Requester, e \in Drive :
          Pending(u, e)' => pc'[u] \in {"wait", "waiting"} /\ drive'[u] = e
    BY <1>0, <2>1, <2>2 DEF HandleDoes, QueueInv, DiskTypes, Proc
  <2>4. UNCHANGED <<queue, served>>
    BY <2>1 DEF HandleDoes
  <2> QED BY <1>0, <2>3, <2>4 DEF QueueInv, InSeq, Once
<1>11. ASSUME NEW c \in CPU, Signal(c), S!VAcquire(c, sem[served[drive[c]]]) PROVE QueueInv'
  <2>1. SignalAcquireDoes(c)
    BY <1>11, SignalAcquireFacts
  <2>2. \A u \in Requester, e \in Drive : Pending(u, e)' <=> Pending(u, e)
    BY <2>1, PendingSignalAcquire
  <2>3. \A u \in Requester, e \in Drive :
          Pending(u, e)' => pc'[u] \in {"wait", "waiting"} /\ drive'[u] = e
    BY <1>0, <2>1, <2>2 DEF SignalAcquireDoes, QueueInv, DiskTypes, Proc
  <2>4. UNCHANGED <<queue, served>>
    BY <2>1 DEF SignalAcquireDoes
  <2> QED BY <1>0, <2>3, <2>4 DEF QueueInv, InSeq, Once
<1>12. ASSUME NEW c \in CPU, Signal(c), S!VUp(c) PROVE QueueInv'
  <2>1. SignalUpDoes(c)
    BY <1>12, SignalUpFacts
  <2>2. \A u \in Requester, e \in Drive :
          Pending(u, e)' <=> Pending(u, e) /\ ~ (u = served[drive[c]] /\ e = drive[c])
    BY <2>1, PendingSignalUp
  <2>3. \A u \in Requester, e \in Drive :
          Pending(u, e)' => pc'[u] \in {"wait", "waiting"} /\ drive'[u] = e
    BY <1>0, <2>1, <2>2 DEF SignalUpDoes, QueueInv, DiskTypes, Proc
  <2>4. UNCHANGED <<queue, served>>
    BY <2>1 DEF SignalUpDoes
  <2> QED BY <1>0, <2>3, <2>4 DEF QueueInv, InSeq, Once
<1>13. ASSUME NEW c \in CPU, Signal(c), S!VRelease(c) PROVE QueueInv'
  <2>1. SignalReleaseDoes(c)
    BY <1>13, SignalReleaseFacts
  <2>2. \A u \in Requester, e \in Drive : Pending(u, e)' <=> Pending(u, e)
    BY <2>1, PendingSignalRelease
  <2>3. \A u \in Requester, e \in Drive :
          Pending(u, e)' => pc'[u] \in {"wait", "waiting"} /\ drive'[u] = e
    BY <1>0, <2>1, <2>2 DEF SignalReleaseDoes, QueueInv, DiskTypes, Proc
  <2>4. UNCHANGED <<queue, served>>
    BY <2>1 DEF SignalReleaseDoes
  <2> QED BY <1>0, <2>3, <2>4 DEF QueueInv, InSeq, Once
<1>14. ASSUME NEW c \in CPU, HandleNext(c) PROVE QueueInv'
  <2>1. HandleNextDoes(c)
    BY <1>14, HandleNextFacts
  <2>2. \A u \in Requester, e \in Drive : Pending(u, e)' <=> Pending(u, e)
    BY <2>1, PendingHandleNext
  <2>3. /\ \A e \in Drive : Once(queue'[e])
        /\ \A e \in Drive : \A u \in Requester : served'[e] = u => ~ InSeq(u, queue'[e])
    BY <2>1, PendingHandleNext
  <2>4. \A u \in Requester, e \in Drive :
          Pending(u, e)' => pc'[u] \in {"wait", "waiting"} /\ drive'[u] = e
    BY <1>0, <2>1, <2>2 DEF HandleNextDoes, QueueInv, DiskTypes, Proc
  <2> QED BY <2>3, <2>4 DEF QueueInv, InSeq, Once
<1> QED BY <1>1, <1>2, <1>3, <1>4, <1>5, <1>6, <1>7, <1>8, <1>9, <1>10, <1>11, <1>12,
         <1>13, <1>14 DEF Next, Wait, Signal

LEMMA SleepStep == IInv /\ [Next]_vars => SleepInv'
<1> SUFFICES ASSUME IInv, [Next]_vars PROVE SleepInv'
  OBVIOUS
<1>0. /\ SemTypes /\ DiskTypes /\ PlaceInv /\ DriveInv /\ OwnInv
      /\ QueueInv /\ SleepInv /\ ValueInv /\ DoneInv
  BY Parts
<1>1. CASE UNCHANGED vars
  BY <1>0, <1>1 DEF vars, SleepInv, SemTypes, DiskTypes, PlaceInv, OwnInv, Proc, semvars, diskvars
<1>2. ASSUME NEW t \in Requester, NEW d \in Drive, Request(t, d) PROVE SleepInv'
  <2>1. RequestDoes(t, d)
    BY <1>2, RequestFacts
  <2> QED BY <1>0, <2>1 DEF RequestDoes, SleepInv, SemTypes, DiskTypes, PlaceInv, OwnInv, Proc
<1>3. ASSUME NEW t \in Requester, Created(t) PROVE SleepInv'
  <2>1. CreatedDoes(t)
    BY <1>3, CreatedFacts
  <2> QED BY <1>0, <2>1 DEF CreatedDoes, SleepInv, SemTypes, DiskTypes, PlaceInv, OwnInv, Proc
<1>4. ASSUME NEW t \in Requester, Submit(t) PROVE SleepInv'
  <2>1. SubmitDoes(t)
    BY <1>4, SubmitFacts
  <2> QED BY <1>0, <2>1 DEF SubmitDoes, SleepInv, SemTypes, DiskTypes, PlaceInv, OwnInv, Proc
<1>5. ASSUME NEW t \in Requester, Wait(t), S!PAcquire(t, sem[t]) PROVE SleepInv'
  <2>1. WaitAcquireDoes(t)
    BY <1>5, WaitAcquireFacts
  <2> QED BY <1>0, <2>1 DEF WaitAcquireDoes, SleepInv, SemTypes, DiskTypes, PlaceInv, OwnInv, Proc
<1>6. ASSUME NEW t \in Requester, Wait(t), S!PDown(t) PROVE SleepInv'
  <2>1. WaitDownDoes(t)
    BY <1>6, WaitDownFacts
  <2>2. sleepers[sem[t]] = <<>>
    <3>1. ASSUME NEW u \in Requester, sem[u] = sem[t], pc[u] = "waiting",
                 at[u] \in {"p_release", "asleep"}
          PROVE  FALSE
      BY <1>0, <2>1, <3>1 DEF WaitDownDoes, OwnInv
    <3> QED BY <1>0, <2>1, <3>1 DEF WaitDownDoes, SleepInv
  <2>3. Append(sleepers[sem[t]], t) = <<t>>
    BY <2>2
  <2>4. /\ at'[t] = "p_release" /\ pc'[t] = "waiting" /\ sem' = sem
        /\ \A u \in Requester : u # t => at'[u] = at[u] /\ pc'[u] = pc[u]
    BY <1>0, <2>1 DEF WaitDownDoes, SemTypes, Proc
  <2>5. sleepers' = sleepers \/ sleepers' = [sleepers EXCEPT ![sem[t]] = <<t>>]
    BY <2>1, <2>3 DEF WaitDownDoes
  <2>6. sem[t] \in Sem /\ at[t] = "p"
    BY <2>1 DEF WaitDownDoes
  <2>7. ASSUME NEW s \in Sem
        PROVE  \/ sleepers'[s] = <<>>
               \/ \E u \in Requester : /\ sleepers'[s] = <<u>> /\ sem'[u] = s
                                       /\ pc'[u] = "waiting" /\ at'[u] \in {"p_release", "asleep"}
    <3>1. CASE s = sem[t]
      <4>1. sleepers'[s] = <<>> \/ sleepers'[s] = <<t>>
        BY <1>0, <2>2, <2>5, <3>1 DEF SemTypes
      <4> QED BY <2>4, <3>1, <4>1
    <3>2. CASE s # sem[t]
      <4>1. sleepers'[s] = sleepers[s]
        BY <1>0, <2>5, <2>6, <3>2 DEF SemTypes
      <4>2. CASE sleepers[s] = <<>>
        BY <4>1, <4>2
      <4>3. CASE sleepers[s] # <<>>
        <5>1. PICK u \in Requester : /\ sleepers[s] = <<u>> /\ sem[u] = s
                                     /\ pc[u] = "waiting" /\ at[u] \in {"p_release", "asleep"}
          BY <1>0, <4>3 DEF SleepInv
        <5>2. u # t
          BY <2>6, <5>1
        <5> QED BY <2>4, <4>1, <5>1, <5>2
      <4> QED BY <4>2, <4>3
    <3> QED BY <3>1, <3>2
  <2> QED BY <2>7 DEF SleepInv
<1>7. ASSUME NEW t \in Requester, Wait(t), S!PRelease(t) PROVE SleepInv'
  <2>1. WaitReleaseDoes(t)
    BY <1>7, WaitReleaseFacts
  <2> QED BY <1>0, <2>1 DEF WaitReleaseDoes, SleepInv, SemTypes, DiskTypes, PlaceInv, OwnInv, Proc
<1>8. ASSUME NEW t \in Requester, Return(t) PROVE SleepInv'
  <2>1. ReturnDoes(t)
    BY <1>8, ReturnFacts
  <2> QED BY <1>0, <2>1 DEF ReturnDoes, SleepInv, SemTypes, DiskTypes, PlaceInv, OwnInv, Proc
<1>9. ASSUME NEW d \in Drive, Transfer(d) PROVE SleepInv'
  <2>1. TransferDoes(d)
    BY <1>9, TransferFacts
  <2> QED BY <1>0, <2>1 DEF TransferDoes, SleepInv, SemTypes, DiskTypes, PlaceInv, OwnInv, Proc
<1>10. ASSUME NEW c \in CPU, NEW d \in Drive, Handle(c, d) PROVE SleepInv'
  <2>1. HandleDoes(c, d)
    BY <1>10, HandleFacts
  <2> QED BY <1>0, <2>1 DEF HandleDoes, SleepInv, SemTypes, DiskTypes, PlaceInv, OwnInv, Proc
<1>11. ASSUME NEW c \in CPU, Signal(c), S!VAcquire(c, sem[served[drive[c]]]) PROVE SleepInv'
  <2>1. SignalAcquireDoes(c)
    BY <1>11, SignalAcquireFacts
  <2> QED BY <1>0, <2>1 DEF SignalAcquireDoes, SleepInv, SemTypes, DiskTypes, PlaceInv, OwnInv, Proc
<1>12. ASSUME NEW c \in CPU, Signal(c), S!VUp(c) PROVE SleepInv'
  <2>1. SignalUpDoes(c)
    BY <1>12, SignalUpFacts
  <2> QED BY <1>0, <2>1 DEF SignalUpDoes, SleepInv, SemTypes, DiskTypes, PlaceInv, OwnInv, Proc
<1>13. ASSUME NEW c \in CPU, Signal(c), S!VRelease(c) PROVE SleepInv'
  <2>1. SignalReleaseDoes(c)
    BY <1>13, SignalReleaseFacts
  <2> QED BY <1>0, <2>1 DEF SignalReleaseDoes, SleepInv, SemTypes, DiskTypes, PlaceInv, OwnInv, Proc
<1>14. ASSUME NEW c \in CPU, HandleNext(c) PROVE SleepInv'
  <2>1. HandleNextDoes(c)
    BY <1>14, HandleNextFacts
  <2> QED BY <1>0, <2>1 DEF HandleNextDoes, SleepInv, SemTypes, DiskTypes, PlaceInv, OwnInv, Proc
<1> QED BY <1>1, <1>2, <1>3, <1>4, <1>5, <1>6, <1>7, <1>8, <1>9, <1>10, <1>11, <1>12,
         <1>13, <1>14 DEF Next, Wait, Signal

\* A request the drive works on or its handler is about to signal is pending.
LEMMA ServedWaits ==
    ASSUME IInv, NEW d \in Drive,
           \/ irq[d] \/ busy[d]
           \/ \E c \in CPU : drive[c] = d /\ (pc[c] = "signal" \/ at[c] = "v")
    PROVE  /\ served[d] \in Requester /\ Pending(served[d], d)
           /\ pc[served[d]] \in {"wait", "waiting"} /\ drive[served[d]] = d
<1>0. SemTypes /\ DiskTypes /\ PlaceInv /\ DriveInv /\ QueueInv
  BY Parts
<1>1. \A b \in CPU : ~ Raised(b, d)
  <2>1. CASE irq[d] \/ busy[d]
    BY <1>0, <2>1 DEF DriveInv, Raised
  <2>2. CASE \E c \in CPU : drive[c] = d /\ (pc[c] = "signal" \/ at[c] = "v")
    <3>1. PICK c \in CPU : drive[c] = d /\ (pc[c] = "signal" \/ at[c] = "v")
      BY <2>2
    <3>2. pc[c] # "idle"
      BY <1>0, <3>1 DEF PlaceInv
    <3>3. \A b \in CPU : pc[b] # "idle" /\ drive[b] = d => b = c
      BY <1>0, <3>1, <3>2 DEF DriveInv
    <3> QED BY <3>1, <3>3 DEF Raised
  <2> QED BY <2>1, <2>2
<1>2. served[d] \in Requester
  <2>1. \A c \in CPU : pc[c] = "signal" \/ at[c] = "v" => pc[c] # "idle"
    BY <1>0 DEF PlaceInv
  <2>2. served[d] # None
    BY <1>0, <2>1 DEF DriveInv
  <2> QED BY <1>0, <2>2 DEF DiskTypes
<1>3. PICK u \in Requester : u = served[d]
  BY <1>2
<1>4. Pending(u, d)
  BY <1>1, <1>3 DEF Pending, Serving
<1> QED BY <1>0, <1>3, <1>4 DEF QueueInv

LEMMA ValueStep == IInv /\ [Next]_vars => ValueInv'
<1> SUFFICES ASSUME IInv, [Next]_vars PROVE ValueInv'
  OBVIOUS
<1>0. /\ SemTypes /\ DiskTypes /\ PlaceInv /\ DriveInv /\ OwnInv
      /\ QueueInv /\ SleepInv /\ ValueInv /\ DoneInv
  BY Parts
<1>1. CASE UNCHANGED vars
  BY <1>0, <1>1 DEF vars, ValueInv, SemTypes, DiskTypes, PlaceInv, OwnInv, QueueInv, Proc,
     Pending, Serving, Raised, InSeq, semvars, diskvars
<1>2. ASSUME NEW t \in Requester, NEW d \in Drive, Request(t, d) PROVE ValueInv'
  <2>1. RequestDoes(t, d)
    BY <1>2, RequestFacts
  <2>2. \A u \in Requester, e \in Drive : Pending(u, e)' <=> Pending(u, e)
    BY <2>1, PendingRequest
  <2> QED BY <1>0, <2>1, <2>2 DEF RequestDoes, ValueInv, SemTypes, DiskTypes, PlaceInv, OwnInv,
     QueueInv, Proc
<1>3. ASSUME NEW t \in Requester, Created(t) PROVE ValueInv'
  <2>1. CreatedDoes(t)
    BY <1>3, CreatedFacts
  <2>2. \A u \in Requester, e \in Drive : Pending(u, e)' <=> Pending(u, e)
    BY <2>1, PendingCreated
  <2> QED BY <1>0, <2>1, <2>2 DEF CreatedDoes, ValueInv, SemTypes, DiskTypes, PlaceInv, OwnInv,
     QueueInv, Proc
<1>4. ASSUME NEW t \in Requester, Submit(t) PROVE ValueInv'
  <2>1. SubmitDoes(t)
    BY <1>4, SubmitFacts
  <2>2. \A u \in Requester, e \in Drive :
          Pending(u, e)' <=> Pending(u, e) \/ (u = t /\ e = drive[t])
    BY <2>1, PendingSubmit
  <2> QED BY <1>0, <2>1, <2>2 DEF SubmitDoes, ValueInv, SemTypes, DiskTypes, PlaceInv, OwnInv,
     QueueInv, Proc
<1>5. ASSUME NEW t \in Requester, Wait(t), S!PAcquire(t, sem[t]) PROVE ValueInv'
  <2>1. WaitAcquireDoes(t)
    BY <1>5, WaitAcquireFacts
  <2>2. \A u \in Requester, e \in Drive : Pending(u, e)' <=> Pending(u, e)
    BY <2>1, PendingWaitAcquire
  <2> QED BY <1>0, <2>1, <2>2 DEF WaitAcquireDoes, ValueInv, SemTypes, DiskTypes, PlaceInv,
     OwnInv, QueueInv, Proc
<1>6. ASSUME NEW t \in Requester, Wait(t), S!PDown(t) PROVE ValueInv'
  <2>1. WaitDownDoes(t)
    BY <1>6, WaitDownFacts
  <2>2. \A u \in Requester, e \in Drive : Pending(u, e)' <=> Pending(u, e)
    BY <2>1, PendingWaitDown
  <2>3. /\ value'[sem[t]] = value[sem[t]] - 1 /\ at'[t] = "p_release"
        /\ sem' = sem /\ pc' = pc /\ drive' = drive /\ drive[t] \in Drive
        /\ value[sem[t]] = IF Pending(t, drive[t]) THEN 0 ELSE 1
    BY <1>0, <2>1 DEF WaitDownDoes, ValueInv, SemTypes, OwnInv, Proc
  <2>4. sleepers[sem[t]] = <<>>
    <3>1. ASSUME NEW u \in Requester, sem[u] = sem[t], pc[u] = "waiting",
                 at[u] \in {"p_release", "asleep"}
          PROVE  FALSE
      BY <1>0, <2>1, <3>1 DEF WaitDownDoes, OwnInv
    <3> QED BY <1>0, <2>1, <3>1 DEF WaitDownDoes, SleepInv
  <2>5. Append(<<>>, t) = <<t>>
    OBVIOUS
  <2>6. CASE Pending(t, drive[t])
    <3>1. value[sem[t]] = 0
      BY <2>3, <2>6
    <3>2. value'[sem[t]] = -1 /\ sleepers'[sem[t]] = <<t>>
      BY <1>0, <2>1, <2>3, <2>4, <2>5, <3>1 DEF WaitDownDoes, SemTypes
    <3>3. Pending(t, drive[t])'
      BY <2>2, <2>3, <2>6
    <3>4. pc[t] = "waiting"
      BY <2>1 DEF WaitDownDoes
    <3>5. ASSUME NEW u \in Requester, u # t, pc[u] # "idle"
          PROVE  /\ value'[sem[u]] = value[sem[u]] /\ sleepers'[sem[u]] = sleepers[sem[u]]
                 /\ at'[u] = at[u] /\ (Pending(u, drive[u])' <=> Pending(u, drive[u]))
      BY <1>0, <2>1, <2>2, <3>5 DEF WaitDownDoes, SemTypes, DiskTypes, OwnInv, Proc
    <3>6. ASSUME NEW u \in Requester, u # t, pc[u] = "idle" PROVE at'[u] = "out"
      BY <1>0, <2>1, <3>6 DEF WaitDownDoes, PlaceInv, SemTypes, Proc
    <3> QED BY <1>0, <2>3, <3>2, <3>3, <3>4, <3>5, <3>6 DEF ValueInv
  <2>7. CASE ~ Pending(t, drive[t])
    <3>1. value[sem[t]] = 1
      BY <2>3, <2>7
    <3>2. sleepers' = sleepers
      BY <2>1, <3>1 DEF WaitDownDoes
    <3>3. ~ Pending(t, drive[t])'
      BY <2>2, <2>3, <2>7
    <3>4. pc[t] = "waiting"
      BY <2>1 DEF WaitDownDoes
    <3>5. ASSUME NEW u \in Requester, u # t, pc[u] # "idle"
          PROVE  /\ value'[sem[u]] = value[sem[u]]
                 /\ at'[u] = at[u] /\ (Pending(u, drive[u])' <=> Pending(u, drive[u]))
      BY <1>0, <2>1, <2>2, <3>5 DEF WaitDownDoes, SemTypes, DiskTypes, OwnInv, Proc
    <3>6. ASSUME NEW u \in Requester, u # t, pc[u] = "idle" PROVE at'[u] = "out"
      BY <1>0, <2>1, <3>6 DEF WaitDownDoes, PlaceInv, SemTypes, Proc
    <3> QED BY <1>0, <2>3, <2>4, <3>2, <3>3, <3>4, <3>5, <3>6 DEF ValueInv
  <2> QED BY <2>6, <2>7
<1>7. ASSUME NEW t \in Requester, Wait(t), S!PRelease(t) PROVE ValueInv'
  <2>1. WaitReleaseDoes(t)
    BY <1>7, WaitReleaseFacts
  <2>2. \A u \in Requester, e \in Drive : Pending(u, e)' <=> Pending(u, e)
    BY <2>1, PendingWaitRelease
  <2> QED BY <1>0, <2>1, <2>2 DEF WaitReleaseDoes, ValueInv, SemTypes, DiskTypes, PlaceInv,
     OwnInv, QueueInv, Proc
<1>8. ASSUME NEW t \in Requester, Return(t) PROVE ValueInv'
  <2>1. ReturnDoes(t)
    BY <1>8, ReturnFacts
  <2>2. \A u \in Requester, e \in Drive : Pending(u, e)' <=> Pending(u, e)
    BY <2>1, PendingReturn
  <2> QED BY <1>0, <2>1, <2>2 DEF ReturnDoes, ValueInv, SemTypes, DiskTypes, PlaceInv, OwnInv,
     QueueInv, Proc
<1>9. ASSUME NEW d \in Drive, Transfer(d) PROVE ValueInv'
  <2>1. TransferDoes(d)
    BY <1>9, TransferFacts
  <2>2. \A u \in Requester, e \in Drive : Pending(u, e)' <=> Pending(u, e)
    BY <2>1, PendingTransfer
  <2> QED BY <1>0, <2>1, <2>2 DEF TransferDoes, ValueInv, SemTypes, DiskTypes, PlaceInv, OwnInv,
     QueueInv, Proc
<1>10. ASSUME NEW c \in CPU, NEW d \in Drive, Handle(c, d) PROVE ValueInv'
  <2>1. HandleDoes(c, d)
    BY <1>10, HandleFacts
  <2>2. \A u \in Requester, e \in Drive : Pending(u, e)' <=> Pending(u, e)
    BY <2>1, PendingHandle
  <2> QED BY <1>0, <2>1, <2>2 DEF HandleDoes, ValueInv, SemTypes, DiskTypes, PlaceInv, OwnInv,
     QueueInv, Proc
<1>11. ASSUME NEW c \in CPU, Signal(c), S!VAcquire(c, sem[served[drive[c]]]) PROVE ValueInv'
  <2>1. SignalAcquireDoes(c)
    BY <1>11, SignalAcquireFacts
  <2>2. \A u \in Requester, e \in Drive : Pending(u, e)' <=> Pending(u, e)
    BY <2>1, PendingSignalAcquire
  <2> QED BY <1>0, <2>1, <2>2 DEF SignalAcquireDoes, ValueInv, SemTypes, DiskTypes, PlaceInv,
     OwnInv, QueueInv, Proc
<1>12. ASSUME NEW c \in CPU, Signal(c), S!VUp(c) PROVE ValueInv'
  <2>1. SignalUpDoes(c)
    BY <1>12, SignalUpFacts
  <2>2. \A u \in Requester, e \in Drive :
          Pending(u, e)' <=> Pending(u, e) /\ ~ (u = served[drive[c]] /\ e = drive[c])
    BY <2>1, PendingSignalUp
  <2> QED BY <1>0, <2>1, <2>2 DEF SignalUpDoes, ValueInv, SemTypes, DiskTypes, PlaceInv, OwnInv,
     QueueInv, Proc
<1>13. ASSUME NEW c \in CPU, Signal(c), S!VRelease(c) PROVE ValueInv'
  <2>1. SignalReleaseDoes(c)
    BY <1>13, SignalReleaseFacts
  <2>2. \A u \in Requester, e \in Drive : Pending(u, e)' <=> Pending(u, e)
    BY <2>1, PendingSignalRelease
  <2> QED BY <1>0, <2>1, <2>2 DEF SignalReleaseDoes, ValueInv, SemTypes, DiskTypes, PlaceInv,
     OwnInv, QueueInv, Proc
<1>14. ASSUME NEW c \in CPU, HandleNext(c) PROVE ValueInv'
  <2>1. HandleNextDoes(c)
    BY <1>14, HandleNextFacts
  <2>2. \A u \in Requester, e \in Drive : Pending(u, e)' <=> Pending(u, e)
    BY <2>1, PendingHandleNext
  <2> QED BY <1>0, <2>1, <2>2 DEF HandleNextDoes, ValueInv, SemTypes, DiskTypes, PlaceInv,
     OwnInv, QueueInv, Proc
<1> QED BY <1>1, <1>2, <1>3, <1>4, <1>5, <1>6, <1>7, <1>8, <1>9, <1>10, <1>11, <1>12,
         <1>13, <1>14 DEF Next, Wait, Signal

LEMMA DoneStep == IInv /\ [Next]_vars => DoneInv'
<1> SUFFICES ASSUME IInv, [Next]_vars PROVE DoneInv'
  OBVIOUS
<1>0. /\ SemTypes /\ DiskTypes /\ PlaceInv /\ DriveInv /\ OwnInv
      /\ QueueInv /\ SleepInv /\ ValueInv /\ DoneInv
  BY Parts
<1>1. CASE UNCHANGED vars
  BY <1>0, <1>1 DEF vars, DoneInv, SemTypes, DiskTypes, PlaceInv, OwnInv, QueueInv, DriveInv,
     Proc, Pending, Serving, Raised, InSeq, semvars, diskvars
<1>2. ASSUME NEW t \in Requester, NEW d \in Drive, Request(t, d) PROVE DoneInv'
  <2>1. RequestDoes(t, d)
    BY <1>2, RequestFacts
  <2>2. \A u \in Requester, e \in Drive : Pending(u, e)' <=> Pending(u, e)
    BY <2>1, PendingRequest
  <2>3. /\ \A e \in Drive : irq[e] => served[e] \in Requester /\ served[e] # t
        /\ \A b \in CPU : pc[b] = "signal" \/ at[b] = "v" =>
              drive[b] \in Drive /\ served[drive[b]] \in Requester /\ served[drive[b]] # t
    <3>1. pc[t] = "idle"
      BY <2>1 DEF RequestDoes
    <3>2. \A b \in CPU : pc[b] = "signal" \/ at[b] = "v" => drive[b] \in Drive
      BY <1>0 DEF PlaceInv, DriveInv
    <3> QED BY <3>1, <3>2, ServedWaits
  <2>7. \A u \in Requester : pc'[u] \in {"wait", "waiting"} /\ ~ Pending(u, drive[u])' =>
          transferred'[u] /\ return_value'[u] = 0
    BY <1>0, <2>1, <2>2, <2>3 DEF RequestDoes, DoneInv, SemTypes, DiskTypes, PlaceInv, OwnInv,
       QueueInv, DriveInv, Proc
  <2>8. \A e \in Drive : irq'[e] => transferred'[served'[e]]
    BY <1>0, <2>1, <2>2, <2>3 DEF RequestDoes, DoneInv, SemTypes, DiskTypes, PlaceInv, OwnInv,
       QueueInv, DriveInv, Proc
  <2>9. \A b \in CPU : pc'[b] = "signal" \/ at'[b] = "v" =>
          /\ transferred'[served'[drive'[b]]] /\ return_value'[served'[drive'[b]]] = 0
          /\ at'[b] = "v" => sem'[b] = sem'[served'[drive'[b]]]
    BY <1>0, <2>1, <2>2, <2>3 DEF RequestDoes, DoneInv, SemTypes, DiskTypes, PlaceInv, OwnInv,
       QueueInv, DriveInv, Proc
  <2> QED BY <2>7, <2>8, <2>9 DEF DoneInv
<1>3. ASSUME NEW t \in Requester, Created(t) PROVE DoneInv'
  <2>1. CreatedDoes(t)
    BY <1>3, CreatedFacts
  <2>2. \A u \in Requester, e \in Drive : Pending(u, e)' <=> Pending(u, e)
    BY <2>1, PendingCreated
  <2> QED BY <1>0, <2>1, <2>2 DEF CreatedDoes, DoneInv, SemTypes, DiskTypes, PlaceInv, OwnInv,
     QueueInv, DriveInv, Proc
<1>4. ASSUME NEW t \in Requester, Submit(t) PROVE DoneInv'
  <2>1. SubmitDoes(t)
    BY <1>4, SubmitFacts
  <2>2. \A u \in Requester, e \in Drive :
          Pending(u, e)' <=> Pending(u, e) \/ (u = t /\ e = drive[t])
    BY <2>1, PendingSubmit
  <2>3. \A b \in CPU : pc[b] # "idle" => drive[b] # drive[t]
    BY <1>0, <2>1 DEF SubmitDoes, DriveInv
  <2>4. \A e \in Drive : e # drive[t] \/ irq[e] => served'[e] = served[e]
    BY <1>0, <2>1 DEF SubmitDoes, DriveInv, DiskTypes
  <2>5. \A b \in CPU : pc'[b] = pc[b] /\ at'[b] = at[b]
    BY <1>0, <2>1 DEF SubmitDoes, DiskTypes, Proc
  <2>6. \A b \in CPU : pc[b] = "signal" \/ at[b] = "v" => served'[drive[b]] = served[drive[b]]
    BY <1>0, <2>3, <2>4 DEF PlaceInv, DriveInv
  <2>7. \A u \in Requester : pc'[u] \in {"wait", "waiting"} /\ ~ Pending(u, drive[u])' =>
          transferred'[u] /\ return_value'[u] = 0
    BY <1>0, <2>1, <2>2, <2>3, <2>4 DEF SubmitDoes, DoneInv, SemTypes, DiskTypes, PlaceInv,
       OwnInv, QueueInv, DriveInv, Proc
  <2>8. \A e \in Drive : irq'[e] => transferred'[served'[e]]
    BY <1>0, <2>1, <2>2, <2>3, <2>4 DEF SubmitDoes, DoneInv, SemTypes, DiskTypes, PlaceInv,
       OwnInv, QueueInv, DriveInv, Proc
  <2>9. \A b \in CPU : pc'[b] = "signal" \/ at'[b] = "v" =>
          /\ transferred'[served'[drive'[b]]] /\ return_value'[served'[drive'[b]]] = 0
          /\ at'[b] = "v" => sem'[b] = sem'[served'[drive'[b]]]
    BY <1>0, <2>1, <2>5, <2>6 DEF SubmitDoes, DoneInv
  <2> QED BY <2>7, <2>8, <2>9 DEF DoneInv
<1>5. ASSUME NEW t \in Requester, Wait(t), S!PAcquire(t, sem[t]) PROVE DoneInv'
  <2>1. WaitAcquireDoes(t)
    BY <1>5, WaitAcquireFacts
  <2>2. \A u \in Requester, e \in Drive : Pending(u, e)' <=> Pending(u, e)
    BY <2>1, PendingWaitAcquire
  <2> QED BY <1>0, <2>1, <2>2 DEF WaitAcquireDoes, DoneInv, SemTypes, DiskTypes, PlaceInv,
     OwnInv, QueueInv, DriveInv, Proc
<1>6. ASSUME NEW t \in Requester, Wait(t), S!PDown(t) PROVE DoneInv'
  <2>1. WaitDownDoes(t)
    BY <1>6, WaitDownFacts
  <2>2. \A u \in Requester, e \in Drive : Pending(u, e)' <=> Pending(u, e)
    BY <2>1, PendingWaitDown
  <2> QED BY <1>0, <2>1, <2>2 DEF WaitDownDoes, DoneInv, SemTypes, DiskTypes, PlaceInv, OwnInv,
     QueueInv, DriveInv, Proc
<1>7. ASSUME NEW t \in Requester, Wait(t), S!PRelease(t) PROVE DoneInv'
  <2>1. WaitReleaseDoes(t)
    BY <1>7, WaitReleaseFacts
  <2>2. \A u \in Requester, e \in Drive : Pending(u, e)' <=> Pending(u, e)
    BY <2>1, PendingWaitRelease
  <2> QED BY <1>0, <2>1, <2>2 DEF WaitReleaseDoes, DoneInv, SemTypes, DiskTypes, PlaceInv,
     OwnInv, QueueInv, DriveInv, Proc
<1>8. ASSUME NEW t \in Requester, Return(t) PROVE DoneInv'
  <2>1. ReturnDoes(t)
    BY <1>8, ReturnFacts
  <2>2. \A u \in Requester, e \in Drive : Pending(u, e)' <=> Pending(u, e)
    BY <2>1, PendingReturn
  <2> QED BY <1>0, <2>1, <2>2 DEF ReturnDoes, DoneInv, SemTypes, DiskTypes, PlaceInv, OwnInv,
     QueueInv, DriveInv, Proc
<1>9. ASSUME NEW d \in Drive, Transfer(d) PROVE DoneInv'
  <2>1. TransferDoes(d)
    BY <1>9, TransferFacts
  <2>2. \A u \in Requester, e \in Drive : Pending(u, e)' <=> Pending(u, e)
    BY <2>1, PendingTransfer
  <2> QED BY <1>0, <2>1, <2>2 DEF TransferDoes, DoneInv, SemTypes, DiskTypes, PlaceInv, OwnInv,
     QueueInv, DriveInv, Proc
<1>10. ASSUME NEW c \in CPU, NEW d \in Drive, Handle(c, d) PROVE DoneInv'
  <2>1. HandleDoes(c, d)
    BY <1>10, HandleFacts
  <2>2. \A u \in Requester, e \in Drive : Pending(u, e)' <=> Pending(u, e)
    BY <2>1, PendingHandle
  <2>3. transferred[served[d]]
    BY <1>0, <2>1 DEF HandleDoes, DoneInv
  <2>4. /\ pc'[c] = "signal" /\ at'[c] = "out" /\ drive'[c] = d /\ served[d] \in Requester
        /\ \A b \in CPU : b # c => pc'[b] = pc[b] /\ drive'[b] = drive[b]
        /\ UNCHANGED <<at, sem, served, transferred>>
    BY <1>0, <2>1 DEF HandleDoes, DiskTypes, PlaceInv, Proc
  <2>5. /\ return_value'[served[d]] = 0
        /\ \A u \in Requester : return_value[u] = 0 => return_value'[u] = 0
    BY <1>0, <2>1 DEF HandleDoes, DiskTypes
  <2>6. \A b \in CPU : pc[b] = "signal" \/ at[b] = "v" => served[drive[b]] \in Requester
    BY <1>0 DEF PlaceInv, DriveInv, DiskTypes
  <2>7. \A u \in Requester : pc'[u] \in {"wait", "waiting"} /\ ~ Pending(u, drive[u])' =>
          transferred'[u] /\ return_value'[u] = 0
    BY <1>0, <2>1, <2>2, <2>3 DEF HandleDoes, DoneInv, SemTypes, DiskTypes, PlaceInv, OwnInv,
       QueueInv, DriveInv, Proc
  <2>8. \A e \in Drive : irq'[e] => transferred'[served'[e]]
    BY <1>0, <2>1, <2>2, <2>3 DEF HandleDoes, DoneInv, SemTypes, DiskTypes, PlaceInv, OwnInv,
       QueueInv, DriveInv, Proc
  <2>9. \A b \in CPU : pc'[b] = "signal" \/ at'[b] = "v" =>
          /\ transferred'[served'[drive'[b]]] /\ return_value'[served'[drive'[b]]] = 0
          /\ at'[b] = "v" => sem'[b] = sem'[served'[drive'[b]]]
    BY <1>0, <2>3, <2>4, <2>5, <2>6 DEF DoneInv
  <2> QED BY <2>7, <2>8, <2>9 DEF DoneInv
<1>11. ASSUME NEW c \in CPU, Signal(c), S!VAcquire(c, sem[served[drive[c]]]) PROVE DoneInv'
  <2>1. SignalAcquireDoes(c)
    BY <1>11, SignalAcquireFacts
  <2>2. \A u \in Requester, e \in Drive : Pending(u, e)' <=> Pending(u, e)
    BY <2>1, PendingSignalAcquire
  <2> QED BY <1>0, <2>1, <2>2 DEF SignalAcquireDoes, DoneInv, SemTypes, DiskTypes, PlaceInv,
     OwnInv, QueueInv, DriveInv, Proc
<1>12. ASSUME NEW c \in CPU, Signal(c), S!VUp(c) PROVE DoneInv'
  <2>1. SignalUpDoes(c)
    BY <1>12, SignalUpFacts
  <2>2. \A u \in Requester, e \in Drive :
          Pending(u, e)' <=> Pending(u, e) /\ ~ (u = served[drive[c]] /\ e = drive[c])
    BY <2>1, PendingSignalUp
  <2>3. transferred[served[drive[c]]] /\ return_value[served[drive[c]]] = 0
    BY <1>0, <2>1 DEF SignalUpDoes, DoneInv
  <2>4. UNCHANGED <<pc, drive, irq, served, sem, transferred, return_value>>
    BY <2>1 DEF SignalUpDoes
  <2>5. \A b \in CPU : at'[b] = "v" => at[b] = "v"
    BY <1>0, <2>1 DEF SignalUpDoes, SemTypes, Proc
  <2>6. \A u \in Requester : pc[u] \in {"wait", "waiting"} => drive[u] \in Drive
    BY <1>0 DEF OwnInv
  <2>7. \A u \in Requester : pc'[u] \in {"wait", "waiting"} /\ ~ Pending(u, drive[u])' =>
          transferred'[u] /\ return_value'[u] = 0
    BY <1>0, <2>2, <2>3, <2>4, <2>6 DEF DoneInv
  <2>8. \A e \in Drive : irq'[e] => transferred'[served'[e]]
    BY <1>0, <2>4 DEF DoneInv
  <2>9. \A b \in CPU : pc'[b] = "signal" \/ at'[b] = "v" =>
          /\ transferred'[served'[drive'[b]]] /\ return_value'[served'[drive'[b]]] = 0
          /\ at'[b] = "v" => sem'[b] = sem'[served'[drive'[b]]]
    BY <1>0, <2>4, <2>5 DEF DoneInv
  <2> QED BY <2>7, <2>8, <2>9 DEF DoneInv
<1>13. ASSUME NEW c \in CPU, Signal(c), S!VRelease(c) PROVE DoneInv'
  <2>1. SignalReleaseDoes(c)
    BY <1>13, SignalReleaseFacts
  <2>2. \A u \in Requester, e \in Drive : Pending(u, e)' <=> Pending(u, e)
    BY <2>1, PendingSignalRelease
  <2> QED BY <1>0, <2>1, <2>2 DEF SignalReleaseDoes, DoneInv, SemTypes, DiskTypes, PlaceInv,
     OwnInv, QueueInv, DriveInv, Proc
<1>14. ASSUME NEW c \in CPU, HandleNext(c) PROVE DoneInv'
  <2>1. HandleNextDoes(c)
    BY <1>14, HandleNextFacts
  <2>2. \A u \in Requester, e \in Drive : Pending(u, e)' <=> Pending(u, e)
    BY <2>1, PendingHandleNext
  <2>3. \A b \in CPU : pc[b] # "idle" /\ b # c => drive[b] \in Drive /\ drive[b] # drive[c]
    BY <1>0, <2>1 DEF HandleNextDoes, DriveInv
  <2>4. \A e \in Drive : e # drive[c] \/ irq[e] => served'[e] = served[e]
    BY <1>0, <2>1, ZenonT(30) DEF HandleNextDoes, DriveInv, DiskTypes
  <2>5. \A b \in CPU : /\ pc'[b] = "signal" => pc[b] = "signal"
                       /\ b = c => pc'[b] = "idle" /\ at'[b] = "out"
    BY <1>0, <2>1 DEF HandleNextDoes, DiskTypes, Proc
  <2>6. \A b \in CPU : b # c /\ (pc[b] = "signal" \/ at[b] = "v") =>
          served'[drive[b]] = served[drive[b]]
    BY <1>0, <2>3, <2>4 DEF PlaceInv
  <2>7. \A u \in Requester : pc'[u] \in {"wait", "waiting"} /\ ~ Pending(u, drive[u])' =>
          transferred'[u] /\ return_value'[u] = 0
    BY <1>0, <2>1, <2>2, <2>3, <2>4 DEF HandleNextDoes, DoneInv, SemTypes, DiskTypes, PlaceInv,
       OwnInv, QueueInv, DriveInv, Proc
  <2>8. \A e \in Drive : irq'[e] => transferred'[served'[e]]
    BY <1>0, <2>1, <2>2, <2>3, <2>4 DEF HandleNextDoes, DoneInv, SemTypes, DiskTypes, PlaceInv,
       OwnInv, QueueInv, DriveInv, Proc
  <2>9. \A b \in CPU : pc'[b] = "signal" \/ at'[b] = "v" =>
          /\ transferred'[served'[drive'[b]]] /\ return_value'[served'[drive'[b]]] = 0
          /\ at'[b] = "v" => sem'[b] = sem'[served'[drive'[b]]]
    BY <1>0, <2>1, <2>5, <2>6 DEF HandleNextDoes, DoneInv
  <2> QED BY <2>7, <2>8, <2>9 DEF DoneInv
<1> QED BY <1>1, <1>2, <1>3, <1>4, <1>5, <1>6, <1>7, <1>8, <1>9, <1>10, <1>11, <1>12,
         <1>13, <1>14 DEF Next, Wait, Signal

LEMMA InitInv == Init => IInv
<1> SUFFICES ASSUME Init PROVE IInv
  OBVIOUS
<1>1. SemTypes
  <2>1. 0 \in Sem
    BY DEF Sem, S!Sem
  <2> QED BY <2>1 DEF Init, S!Init, SemTypes, Proc, Sem, None
<1>2. DiskTypes
  BY DEF Init, DiskTypes, Proc
<1>3. /\ \A t \in Proc : pc[t] = "idle" /\ at[t] = "out" /\ holds[t] = None
      /\ \A s \in Sem : sleepers[s] = <<>> /\ given[s] = 0
      /\ \A d \in Drive : queue[d] = <<>> /\ served[d] = None /\ ~ busy[d] /\ ~ irq[d]
  BY DEF Init, S!Init, Proc, Sem, None
<1>4. \A d \in Drive : \A t \in Requester : ~ Pending(t, d) /\ ~ InSeq(t, queue[d])
  BY <1>3 DEF Pending, Serving, InSeq
<1>5. PlaceInv /\ DriveInv /\ OwnInv /\ SleepInv /\ ValueInv /\ DoneInv
  BY <1>3 DEF PlaceInv, DriveInv, OwnInv, SleepInv, ValueInv, DoneInv, Proc
<1>6. QueueInv
  BY <1>3, <1>4 DEF QueueInv, Once
<1> QED BY <1>1, <1>2, <1>5, <1>6, Types DEF IInv

LEMMA Invariant == Spec => []IInv
<1>1. IInv /\ [Next]_vars => IInv'
  <2> SUFFICES ASSUME IInv, [Next]_vars PROVE IInv'
    OBVIOUS
  <2> QED BY SemTypesStep, DiskTypesStep, TypesNext, PlaceStep, DriveStep, OwnStep, QueueStep,
             SleepStep, ValueStep, DoneStep DEF IInv
<1> QED BY <1>1, InitInv, PTL DEF Spec

-----------------------------------------------------------------------------
(* Theorems *)

\* Every variable of the driver and of the semaphores keeps its type.
THEOREM TypeCorrect == Spec => []TypeOK
<1>1. IInv => TypeOK
  BY DEF IInv
<1> QED BY <1>1, Invariant, PTL

\* disk_interrupt_handle and disk_next_request keep to their assertions, and
\* until the semaphore of a request is raised its thread is inside
\* disk_submit_request, for any number of drives.
THEOREM SafetyCorrect == Spec => []Safety
<1> SUFFICES IInv => Safety
  BY Invariant, PTL
<1> SUFFICES ASSUME IInv PROVE Safety
  OBVIOUS
<1>0. DiskTypes /\ PlaceInv /\ DriveInv /\ OwnInv /\ QueueInv
  BY Parts
<1>1. DriverAsserts
  BY <1>0 DEF DriverAsserts, DriveInv
<1>2. ASSUME NEW d \in Drive, NEW t \in Requester,
             InSeq(t, queue[d]) \/ (served[d] = t /\ \A c \in CPU : ~ Raised(c, d))
      PROVE  pc[t] \in {"wait", "waiting"} /\ drive[t] = d /\ creator[sem[t]] = t
  <2>1. Pending(t, d)
    BY <1>2 DEF Pending, Serving
  <2>2. pc[t] \in {"wait", "waiting"} /\ drive[t] = d
    BY <1>0, <2>1 DEF QueueInv
  <2> QED BY <1>0, <2>2 DEF OwnInv
<1> QED BY <1>1, <1>2 DEF RequestIsAlive, Safety

\* disk_submit_request returns only after the drive has transferred the block,
\* and with success, for any number of drives.
THEOREM ReturnsCorrect == Spec => ReturnsTransferred
<1>1. IInv /\ [Next]_vars =>
        [\A t \in Requester : pc[t] = "waiting" /\ pc'[t] = "idle" =>
            transferred[t] /\ return_value[t] = 0]_vars
  <2> SUFFICES ASSUME IInv, [Next]_vars, NEW t \in Requester, pc[t] = "waiting", pc'[t] = "idle"
               PROVE  transferred[t] /\ return_value[t] = 0
    OBVIOUS
  <2>0. SemTypes /\ DiskTypes /\ PlaceInv /\ OwnInv /\ ValueInv /\ DoneInv
    BY Parts
  <2>1. ASSUME ReturnDoes(t) PROVE transferred[t] /\ return_value[t] = 0
    <3>1. ~ Pending(t, drive[t])
      BY <2>0, <2>1 DEF ReturnDoes, ValueInv
    <3> QED BY <2>0, <3>1 DEF DoneInv
  <2>2. CASE UNCHANGED vars
    BY <2>2 DEF vars
  <2>3. ASSUME NEW u \in Requester, NEW d \in Drive, Request(u, d) PROVE FALSE
    <3>1. RequestDoes(u, d)
      BY <2>3, RequestFacts
    <3> QED BY <2>0, <3>1 DEF RequestDoes, DiskTypes, Proc
  <2>4. ASSUME NEW u \in Requester, Created(u) PROVE FALSE
    <3>1. CreatedDoes(u)
      BY <2>4, CreatedFacts
    <3> QED BY <2>0, <3>1 DEF CreatedDoes, DiskTypes, Proc
  <2>5. ASSUME NEW u \in Requester, Submit(u) PROVE FALSE
    <3>1. SubmitDoes(u)
      BY <2>5, SubmitFacts
    <3> QED BY <2>0, <3>1 DEF SubmitDoes, DiskTypes, Proc
  <2>6. ASSUME NEW u \in Requester, Wait(u), S!PAcquire(u, sem[u]) PROVE FALSE
    <3>1. WaitAcquireDoes(u)
      BY <2>6, WaitAcquireFacts
    <3> QED BY <2>0, <3>1 DEF WaitAcquireDoes, DiskTypes, Proc
  <2>7. ASSUME NEW u \in Requester, Wait(u), S!PDown(u) PROVE FALSE
    <3>1. WaitDownDoes(u)
      BY <2>7, WaitDownFacts
    <3> QED BY <2>0, <3>1 DEF WaitDownDoes, DiskTypes, Proc
  <2>8. ASSUME NEW u \in Requester, Wait(u), S!PRelease(u) PROVE FALSE
    <3>1. WaitReleaseDoes(u)
      BY <2>8, WaitReleaseFacts
    <3> QED BY <2>0, <3>1 DEF WaitReleaseDoes, DiskTypes, Proc
  <2>9. ASSUME NEW u \in Requester, Return(u) PROVE transferred[t] /\ return_value[t] = 0
    <3>1. ReturnDoes(u)
      BY <2>9, ReturnFacts
    <3>2. u = t
      BY <2>0, <3>1 DEF ReturnDoes, DiskTypes, Proc
    <3> QED BY <2>1, <3>1, <3>2
  <2>10. ASSUME NEW d \in Drive, Transfer(d) PROVE FALSE
    <3>1. TransferDoes(d)
      BY <2>10, TransferFacts
    <3> QED BY <2>0, <3>1 DEF TransferDoes, DiskTypes, Proc
  <2>11. ASSUME NEW c \in CPU, NEW d \in Drive, Handle(c, d) PROVE FALSE
    <3>1. HandleDoes(c, d)
      BY <2>11, HandleFacts
    <3> QED BY <2>0, <3>1 DEF HandleDoes, DiskTypes, Proc
  <2>12. ASSUME NEW c \in CPU, Signal(c), S!VAcquire(c, sem[served[drive[c]]]) PROVE FALSE
    <3>1. SignalAcquireDoes(c)
      BY <2>12, SignalAcquireFacts
    <3> QED BY <2>0, <3>1 DEF SignalAcquireDoes, DiskTypes, Proc
  <2>13. ASSUME NEW c \in CPU, Signal(c), S!VUp(c) PROVE FALSE
    <3>1. SignalUpDoes(c)
      BY <2>13, SignalUpFacts
    <3> QED BY <2>0, <3>1 DEF SignalUpDoes, DiskTypes, Proc
  <2>14. ASSUME NEW c \in CPU, Signal(c), S!VRelease(c) PROVE FALSE
    <3>1. SignalReleaseDoes(c)
      BY <2>14, SignalReleaseFacts
    <3> QED BY <2>0, <3>1 DEF SignalReleaseDoes, DiskTypes, Proc
  <2>15. ASSUME NEW c \in CPU, HandleNext(c) PROVE FALSE
    <3>1. HandleNextDoes(c)
      BY <2>15, HandleNextFacts
    <3> QED BY <2>0, <3>1 DEF HandleNextDoes, DiskTypes, Proc
  <2> QED BY <2>1, <2>2, <2>3, <2>4, <2>5, <2>6, <2>7, <2>8, <2>9, <2>10, <2>11, <2>12,
             <2>13, <2>14, <2>15 DEF Next, Wait, Signal
<1> QED BY <1>1, Invariant, PTL DEF Spec, ReturnsTransferred

=============================================================================
