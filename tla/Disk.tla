-------------------------------- MODULE Disk --------------------------------
(***************************************************************************)
(* The disk driver, drivers/disk.c and drivers/disksched.c, on top of the  *)
(* kernel semaphores it creates and destroys for every request.            *)
(*                                                                         *)
(* A request lives on the stack of the thread that makes it, so it is      *)
(* named by that thread.  An interrupt handler may run on several CPUs at  *)
(* once, also when the disk has nothing to say.  What a thread does under  *)
(* the spinlock of a disk is one step; the handler keeps that spinlock     *)
(* while it is inside semaphore_V.                                         *)
(*                                                                         *)
(* Every caller in the kernel makes synchronous requests (sem is NULL);    *)
(* those are modelled.                                                     *)
(***************************************************************************)
EXTENDS Integers, Sequences, FiniteSets

CONSTANTS
    Drive,          \* disks
    Requester,      \* threads that read and write blocks
    CPU,            \* CPUs that take disk interrupts
    MaxSemaphores   \* CONFIG_MAX_SEMAPHORES

VARIABLES
    creator, value, slock, next, sleepers, at, sem, given, holds,  \* Semaphore
    queue,       \* request_queue of each drive
    served,      \* request_served of each drive
    dlock,       \* its spinlock
    busy,        \* the drive is transferring a block
    irq,         \* the drive has raised an interrupt nobody has taken
    pc,          \* where each thread and each CPU's handler is
    drive,       \* the drive it works on
    return_value,\* of each request
    transferred  \* history: the drive has transferred the request's block

semvars == <<creator, value, slock, next, sleepers, at, sem, given, holds>>
diskvars == <<queue, served, dlock, busy, irq>>
vars == <<semvars, diskvars, pc, drive, return_value, transferred>>

S == INSTANCE Semaphore WITH
        Thread <- Requester \cup CPU, Handler <- CPU,
        StartValues <- {0}, MaxSignals <- 1

None == S!None
Sem  == S!Sem

ASSUME DiskAssumption ==
    /\ None \notin Requester \cup CPU /\ Requester \cap CPU = {}
    /\ MaxSemaphores \in Nat \ {0}

Init ==
    /\ S!Init
    /\ queue = [d \in Drive |-> <<>>]
    /\ served = [d \in Drive |-> None]
    /\ dlock = [d \in Drive |-> FALSE]
    /\ busy = [d \in Drive |-> FALSE]
    /\ irq = [d \in Drive |-> FALSE]
    /\ pc = [t \in Requester \cup CPU |-> "idle"]
    /\ drive = [t \in Requester \cup CPU |-> None]
    /\ return_value = [t \in Requester |-> 0]
    /\ transferred = [t \in Requester |-> FALSE]

-----------------------------------------------------------------------------
(* disk_submit_request, disk_next_request *)

\* Fault: the semaphore is created as a guard is.
NewSemaphore_Open(t) == S!Create(t, 1)

NewSemaphore(t) == S!Create(t, 0)

\* A new request with a semaphore of its own.  Without a free semaphore the
\* call returns 0.
Request(t, d) ==
    /\ pc[t] = "idle"
    /\ NewSemaphore(t)
    /\ pc' = [pc EXCEPT ![t] = "create"]
    /\ drive' = [drive EXCEPT ![t] = d]
    /\ return_value' = [return_value EXCEPT ![t] = -1]
    /\ transferred' = [transferred EXCEPT ![t] = FALSE]
    /\ UNCHANGED diskvars

Created(t) ==
    /\ pc[t] = "create"
    /\ S!CreateInit(t)
    /\ pc' = [pc EXCEPT ![t] = "submit"]
    /\ UNCHANGED <<diskvars, drive, return_value, transferred>>

\* disksched_schedule.
Schedule(q, t) == Append(q, t)

Rest(q) == Tail(q)

\* disk_next_request with queue q: the drive starts on the first request.
NextRequest(d, q) ==
    IF q = <<>>
    THEN /\ queue' = [queue EXCEPT ![d] = q]
         /\ served' = [served EXCEPT ![d] = None]
         /\ UNCHANGED busy
    ELSE /\ queue' = [queue EXCEPT ![d] = Rest(q)]
         /\ served' = [served EXCEPT ![d] = Head(q)]
         /\ busy' = [busy EXCEPT ![d] = TRUE]

\* Fault: the drive is given the next request whether it has one or not.
Idle_Assumed(d) == TRUE

Idle(d) == served[d] = None

\* spinlock_acquire on the drive.
Unlocked(d) == ~ dlock[d]

Submit(t) ==
    LET d == drive[t]
        q == Schedule(queue[d], t)
    IN  /\ pc[t] = "submit" /\ Unlocked(d)
        /\ IF Idle(d) THEN NextRequest(d, q)
           ELSE queue' = [queue EXCEPT ![d] = q] /\ UNCHANGED <<served, busy>>
        /\ pc' = [pc EXCEPT ![t] = "wait"]
        /\ UNCHANGED <<semvars, dlock, irq, drive, return_value, transferred>>

\* semaphore_P on the request's semaphore.
Wait(t) ==
    /\ \/ /\ pc[t] = "wait" /\ S!PAcquire(t, sem[t])
          /\ pc' = [pc EXCEPT ![t] = "waiting"]
       \/ /\ pc[t] = "waiting" /\ (S!PDown(t) \/ S!PRelease(t))
          /\ UNCHANGED pc
    /\ UNCHANGED <<diskvars, drive, return_value, transferred>>

GiveBack(t) == S!Destroy(t, sem[t])

\* P returned: the semaphore is destroyed and the call returns.
Return(t) ==
    /\ pc[t] = "waiting"
    /\ GiveBack(t)
    /\ pc' = [pc EXCEPT ![t] = "idle"]
    /\ UNCHANGED <<diskvars, drive, return_value, transferred>>

-----------------------------------------------------------------------------
(* The drive, and disk_interrupt_handle *)

\* The drive finishes the transfer and raises its interrupt.
Transfer(d) ==
    /\ busy[d]
    /\ busy' = [busy EXCEPT ![d] = FALSE]
    /\ irq' = [irq EXCEPT ![d] = TRUE]
    /\ transferred' = [transferred EXCEPT ![served[d]] = TRUE]
    /\ UNCHANGED <<semvars, queue, served, dlock, pc, drive, return_value>>

ForUs(d) == irq[d]

\* The handler finds the interrupt flag set, resets it and marks the request
\* done.  With the flag clear it returns.
Handle(c, d) ==
    /\ pc[c] = "idle" /\ Unlocked(d) /\ ForUs(d)
    /\ dlock' = [dlock EXCEPT ![d] = TRUE]
    /\ irq' = [irq EXCEPT ![d] = FALSE]
    /\ return_value' = [t \in Requester |-> IF t = served[d] THEN 0 ELSE return_value[t]]
    /\ pc' = [pc EXCEPT ![c] = "signal"]
    /\ drive' = [drive EXCEPT ![c] = d]
    /\ UNCHANGED <<semvars, queue, served, busy, transferred>>

\* semaphore_V on the semaphore of the request.
Signal(c) ==
    /\ \/ /\ pc[c] = "signal" /\ served[drive[c]] # None
          /\ S!VAcquire(c, sem[served[drive[c]]])
          /\ pc' = [pc EXCEPT ![c] = "signalling"]
       \/ /\ pc[c] = "signalling" /\ (S!VUp(c) \/ S!VRelease(c))
          /\ UNCHANGED pc
    /\ UNCHANGED <<diskvars, drive, return_value, transferred>>

\* Fault: the next request is not started.
HandleNext_Stops(c) ==
    LET d == drive[c]
    IN  /\ pc[c] = "signalling" /\ at[c] = "out"
        /\ served' = [served EXCEPT ![d] = None]
        /\ dlock' = [dlock EXCEPT ![d] = FALSE]
        /\ pc' = [pc EXCEPT ![c] = "idle"]
        /\ UNCHANGED <<semvars, queue, busy, irq, drive, return_value, transferred>>

\* The request is no longer served; the next one is started.
HandleNext(c) ==
    LET d == drive[c]
    IN  /\ pc[c] = "signalling" /\ at[c] = "out"
        /\ NextRequest(d, queue[d])
        /\ dlock' = [dlock EXCEPT ![d] = FALSE]
        /\ pc' = [pc EXCEPT ![c] = "idle"]
        /\ UNCHANGED <<semvars, irq, drive, return_value, transferred>>

-----------------------------------------------------------------------------
Next ==
    \/ \E t \in Requester : \/ \E d \in Drive : Request(t, d)
                            \/ Created(t) \/ Submit(t) \/ Wait(t) \/ Return(t)
    \/ \E d \in Drive : Transfer(d) \/ \E c \in CPU : Handle(c, d)
    \/ \E c \in CPU : Signal(c) \/ HandleNext(c)

Spec == Init /\ [][Next]_vars

\* A drive finishes what it was given, a CPU takes the interrupt, and threads
\* and handlers go on; submitting threads get the drive's spinlock some time
\* although handlers take it again and again.
Fairness ==
    /\ \A t \in Requester : /\ WF_vars(Created(t)) /\ WF_vars(Wait(t)) /\ WF_vars(Return(t))
                            /\ SF_vars(Submit(t))
    /\ \A d \in Drive : WF_vars(Transfer(d)) /\ WF_vars(\E c \in CPU : Handle(c, d))
    /\ \A c \in CPU : WF_vars(Signal(c)) /\ WF_vars(HandleNext(c))

FairSpec == Spec /\ Fairness

-----------------------------------------------------------------------------
(* What is checked *)

InSeq(t, q) == \E i \in 1 .. Len(q) : q[i] = t

\* Every variable of the driver has its type.
TypeOK ==
    /\ S!TypeOK
    /\ queue \in [Drive -> Seq(Requester)]
    /\ served \in [Drive -> Requester \cup {None}]
    /\ dlock \in [Drive -> BOOLEAN] /\ busy \in [Drive -> BOOLEAN]
    /\ irq \in [Drive -> BOOLEAN]
    /\ pc \in [Requester \cup CPU -> {"idle", "create", "submit", "wait", "waiting",
                                      "signal", "signalling"}]
    /\ drive \in [Requester \cup CPU -> Drive \cup {None}]
    /\ return_value \in [Requester -> {-1, 0}]
    /\ transferred \in [Requester -> BOOLEAN]

\* The assertions of the driver: an interrupt comes for a served request, and
\* the drive and request_served are free when disk_next_request is called
\* (the handler sets request_served to NULL just before).
DriverAsserts ==
    /\ \A d \in Drive : irq[d] \/ busy[d] => served[d] # None
    /\ \A c \in CPU : pc[c] \in {"signal", "signalling"} =>
          served[drive[c]] # None /\ ~ busy[drive[c]] /\ ~ irq[drive[c]]
    /\ \A d \in Drive : served[d] = None => ~ busy[d] /\ ~ irq[d]

\* A handler has raised the semaphore of the request drive d has served.  It
\* is still inside semaphore_V, but touches only the semaphore's spinlock.
Raised(c, d) == pc[c] = "signalling" /\ drive[c] = d /\ at[c] # "v"

\* Until its semaphore is raised, a request that is queued or served is that
\* of a thread inside disk_submit_request, with the semaphore created: driver
\* and drive touch no stack or buffer of a call that is over.  The handler's
\* release of the spinlock comes later (see SemaphoreLocked).
RequestIsAlive ==
    \A d \in Drive : \A t \in Requester :
        InSeq(t, queue[d]) \/ (served[d] = t /\ \A c \in CPU : ~ Raised(c, d))
        => /\ pc[t] \in {"wait", "waiting"} /\ drive[t] = d
           /\ creator[sem[t]] = t

\* A call returns only after the drive has transferred its block, and then
\* with success.
ReturnsTransferred ==
    [][\A t \in Requester : pc[t] = "waiting" /\ pc'[t] = "idle" =>
          transferred[t] /\ return_value[t] = 0]_vars

\* The driver keeps to its assertions and to requests that are alive,
\* whichever of drive, handlers and threads is first.
Safety == DriverAsserts /\ RequestIsAlive

\* "Spinlock which must be held when accessing the semaphore data": one thread
\* at a time is in the locked part of P or V.  The code breaks it: the thread
\* a handler wakes destroys its semaphore before the handler releases the
\* spinlock, and another call may have created the semaphore again by then.
SemaphoreLocked == S!SlockExclusive

\* Every request is served, whatever the other threads request.
RequestReturns == \A t \in Requester : (pc[t] = "create") ~> (pc[t] = "idle")
=============================================================================
