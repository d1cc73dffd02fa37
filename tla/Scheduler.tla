----------------------------- MODULE Scheduler -----------------------------
(***************************************************************************)
(* Kernel threads, the round robin scheduler and the sleep queue: the      *)
(* thread table of kernel/thread.c, the ready list of kernel/scheduler.c,  *)
(* the hash table of kernel/sleepq.c, and the interrupt entry of           *)
(* kernel/interrupt.c that calls the scheduler, on several CPUs.           *)
(*                                                                         *)
(* A section under thread_table_slock is one step.  sleepq_slock is held   *)
(* over several steps, so it is a variable.  Lists linked through the      *)
(* `next' field are sequences here; SleepQueueSpec says what they promise. *)
(***************************************************************************)
EXTENDS Integers, Sequences, FiniteSets

CONSTANTS
    MaxThreads,     \* CONFIG_MAX_THREADS: rows of the thread table
    CPU,            \* the processors
    Resource,       \* addresses threads sleep on; 0 stands for "none"
    HashSize        \* SLEEPQ_HASHTABLE_SIZE

ASSUME SchedulerAssumption ==
    /\ MaxThreads \in Nat \ {0, 1}
    /\ HashSize \in Nat \ {0}
    /\ Resource \subseteq Nat \ {0}

VARIABLES
    state,          \* thread_table[t].state
    sleeps_on,      \* thread_table[t].sleeps_on
    next_tid,       \* where thread_create starts its search
    ready_to_run,   \* scheduler_ready_to_run, first thread first
    hashtable,      \* sleepq_hashtable, one chain per bucket
    sleepq_slock,   \* 1 when held
    current,        \* scheduler_current_thread
    pc,             \* where the code of thread t is (see PC)
    child,          \* the thread t has created and not yet run
    mode,           \* what a CPU executes (see Mode)
    picked,         \* the thread scheduler_schedule() chose on a CPU
    wphase,         \* progress of the sleepq_wake[_all] call of a CPU
    wres,           \* ... its resource
    wall,           \* ... TRUE for sleepq_wake_all
    wtid            \* ... the thread it has just unlinked

threadVars == <<state, sleeps_on, next_tid, pc, child>>
listVars   == <<ready_to_run, hashtable>>
cpuVars    == <<current, mode, picked>>
wakeVars   == <<sleepq_slock, wphase, wres, wall, wtid>>
vars       == <<threadVars, listVars, cpuVars, wakeVars>>

Thread == 0 .. (MaxThreads - 1)
Idle   == 0                                   \* IDLE_THREAD_TID
Bucket == 0 .. (HashSize - 1)
Hash(res) == res % HashSize                   \* SLEEPQ_HASH

State == {"FREE", "RUNNING", "READY", "SLEEPING", "NONREADY", "DYING"}

\* "run": in thread code, interrupts on.  "created": between thread_create
\* and thread_run.  "adding": in sleepq_add, before the lock.  "added":
\* sleepq_add returned, interrupts still off.  "switch": in thread_switch (or
\* at the end of thread_finish), interrupts on, SW0 not raised yet.
PC == {"run", "created", "adding", "added", "switch"}

\* "thread": the current thread.  "intr": interrupt handlers of an interrupt
\* that asks for no scheduling.  "sched": handlers of a timer or SW0
\* interrupt.  "picked": after scheduler_schedule released its lock.
Mode == {"thread", "intr", "sched", "picked"}

InSeq(s, t) == \E i \in 1 .. Len(s) : s[i] = t
RemoveIdx(s, k) == [i \in 1 .. (Len(s) - 1) |-> IF i < k THEN s[i] ELSE s[i + 1]]

-----------------------------------------------------------------------------
\* init(): the tables are reset, the startup thread is created in the first
\* free row after the idle thread and made ready, every CPU runs as TID 0.
Init ==
    /\ state = [t \in Thread |-> IF t \in {Idle, 1} THEN "READY" ELSE "FREE"]
    /\ sleeps_on = [t \in Thread |-> 0]
    /\ next_tid = 2 % MaxThreads
    /\ ready_to_run = <<1>>
    /\ hashtable = [h \in Bucket |-> <<>>]
    /\ sleepq_slock = 0
    /\ current = [c \in CPU |-> Idle]
    /\ pc = [t \in Thread |-> "run"]
    /\ child = [t \in Thread |-> Idle]
    /\ mode = [c \in CPU |-> "thread"]
    /\ picked = [c \in CPU |-> Idle]
    /\ wphase = [c \in CPU |-> "none"]
    /\ wres = [c \in CPU |-> 0]
    /\ wall = [c \in CPU |-> FALSE]
    /\ wtid = [c \in CPU |-> Idle]

\* CPU c executes kernel or user code of its current, non-idle thread at `at'.
InThread(c, at) ==
    /\ mode[c] = "thread"
    /\ wphase[c] = "none"
    /\ current[c] # Idle
    /\ pc[current[c]] = at

InterruptsEnabled(c) ==
    /\ mode[c] = "thread"
    /\ wphase[c] = "none"
    /\ pc[current[c]] \in {"run", "created", "switch"}

-----------------------------------------------------------------------------
(* kernel/thread.c *)

FreeRow(t) == t # Idle /\ state[t] = "FREE"

\* The first free row at or after next_tid, cyclically.
IsNextFree(t) ==
    /\ FreeRow(t)
    /\ \A u \in Thread :
          FreeRow(u) => (t - next_tid) % MaxThreads <= (u - next_tid) % MaxThreads

\* Fault: the search starts past the end of the table.
NextAfter_NoWrap(tid) == tid + 1

NextAfter(tid) == (tid + 1) % MaxThreads

\* A full table makes thread_create return -1 and change nothing.  The row
\* is filled in after the lock is released, while it is NONREADY and known
\* only to its creator.
ThreadCreate(c) ==
    /\ InThread(c, "run")
    /\ \E tid \in Thread :
          /\ IsNextFree(tid)
          /\ next_tid' = NextAfter(tid)
          /\ state' = [state EXCEPT ![tid] = "NONREADY"]
          /\ sleeps_on' = [sleeps_on EXCEPT ![tid] = 0]
          /\ child' = [child EXCEPT ![current[c]] = tid, ![tid] = Idle]
          /\ pc' = [pc EXCEPT ![current[c]] = "created", ![tid] = "run"]
    /\ UNCHANGED <<listVars, cpuVars, wakeVars>>

\* thread_run() is scheduler_add_ready().
ThreadRun(c) ==
    /\ InThread(c, "created")
    /\ LET tid == child[current[c]]
       IN  /\ ready_to_run' = Append(ready_to_run, tid)
           /\ state' = [state EXCEPT ![tid] = "READY"]
    /\ child' = [child EXCEPT ![current[c]] = Idle]
    /\ pc' = [pc EXCEPT ![current[c]] = "run"]
    /\ UNCHANGED <<sleeps_on, next_tid, hashtable, cpuVars, wakeVars>>

\* Marks the thread DYING and goes on to raise SW0.
ThreadFinish(c) ==
    /\ InThread(c, "run")
    /\ state' = [state EXCEPT ![current[c]] = "DYING"]
    /\ pc' = [pc EXCEPT ![current[c]] = "switch"]
    /\ UNCHANGED <<sleeps_on, next_tid, child, listVars, cpuVars, wakeVars>>

\* Interrupts go on; called after sleepq_add or to yield.
ThreadSwitch(c) ==
    /\ InThread(c, "run") \/ InThread(c, "added")
    /\ pc' = [pc EXCEPT ![current[c]] = "switch"]
    /\ UNCHANGED <<state, sleeps_on, next_tid, child, listVars, cpuVars, wakeVars>>

-----------------------------------------------------------------------------
(* kernel/sleepq.c *)

\* The caller has disabled interrupts; sleeps_on is written before the lock.
SleepqAddMark(c, res) ==
    /\ InThread(c, "run")
    /\ sleeps_on' = [sleeps_on EXCEPT ![current[c]] = res]
    /\ pc' = [pc EXCEPT ![current[c]] = "adding"]
    /\ UNCHANGED <<state, next_tid, child, listVars, cpuVars, wakeVars>>

\* Fault: the thread is chained at the head of its bucket.
ChainThread_AtHead(h, t) == hashtable' = [hashtable EXCEPT ![h] = <<t>> \o @]

ChainThread(h, t) == hashtable' = [hashtable EXCEPT ![h] = Append(@, t)]

SleepqAddChain(c) ==
    /\ InThread(c, "adding")
    /\ sleepq_slock = 0
    /\ LET me == current[c]
           h  == Hash(sleeps_on[me])
       IN  /\ ChainThread(h, me)
           /\ pc' = [pc EXCEPT ![me] = "added"]
    /\ UNCHANGED <<state, sleeps_on, next_tid, child, ready_to_run, cpuVars, wakeVars>>

\* sleepq_wake and sleepq_wake_all are called by threads and, through
\* semaphore_V or directly, by interrupt handlers.
MayCallWake(c) ==
    /\ wphase[c] = "none"
    /\ mode[c] \in {"intr", "sched"} \/ InThread(c, "run")

AcquireSleepqLock == sleepq_slock = 0 /\ sleepq_slock' = 1

WakeBegin(c, res, all) ==
    /\ MayCallWake(c)
    /\ AcquireSleepqLock
    /\ wphase' = [wphase EXCEPT ![c] = "scan"]
    /\ wres' = [wres EXCEPT ![c] = res]
    /\ wall' = [wall EXCEPT ![c] = all]
    /\ UNCHANGED <<threadVars, listVars, cpuVars, wtid>>

\* Positions of chain s whose thread sleeps on res.
Matches(s, res) == {i \in 1 .. Len(s) : sleeps_on[s[i]] = res}

Unlink(h, k) == hashtable' = [hashtable EXCEPT ![h] = RemoveIdx(@, k)]

\* The search stops at the first match, which is unlinked.
WakeUnlink(c) ==
    /\ wphase[c] = "scan"
    /\ LET h == Hash(wres[c])
       IN  \E k \in Matches(hashtable[h], wres[c]) :
              /\ \A i \in Matches(hashtable[h], wres[c]) : k <= i
              /\ wtid' = [wtid EXCEPT ![c] = hashtable[h][k]]
              /\ Unlink(h, k)
    /\ wphase' = [wphase EXCEPT ![c] = "wake"]
    /\ UNCHANGED <<threadVars, ready_to_run, cpuVars, sleepq_slock, wres, wall>>

\* sleepq_slock is released and the call's locals are gone.
WakeReturns(c) ==
    /\ sleepq_slock' = 0
    /\ wphase' = [wphase EXCEPT ![c] = "none"]
    /\ wres' = [wres EXCEPT ![c] = 0]
    /\ wall' = [wall EXCEPT ![c] = FALSE]
    /\ wtid' = [wtid EXCEPT ![c] = Idle]

\* No (further) thread waits: release and return.
WakeDone(c) ==
    /\ wphase[c] = "scan"
    /\ Matches(hashtable[Hash(wres[c])], wres[c]) = {}
    /\ WakeReturns(c)
    /\ UNCHANGED <<threadVars, listVars, cpuVars>>

\* Fault: the thread is made ready even if it is still on a CPU.
MakeRunnable_Unchecked(t) ==
    /\ sleeps_on' = [sleeps_on EXCEPT ![t] = 0]
    /\ state' = [state EXCEPT ![t] = "READY"]
    /\ ready_to_run' = Append(ready_to_run, t)

\* Fault: the thread is marked ready but not put on the ready list.
MakeRunnable_NotQueued(t) ==
    /\ sleeps_on' = [sleeps_on EXCEPT ![t] = 0]
    /\ state' = [state EXCEPT ![t] = IF @ = "SLEEPING" THEN "READY" ELSE @]
    /\ UNCHANGED ready_to_run

\* The section under thread_table_slock.  A thread that is still on a CPU
\* is not put on the ready list: it will find its sleeps_on cleared.
MakeRunnable(t) ==
    /\ sleeps_on' = [sleeps_on EXCEPT ![t] = 0]
    /\ IF state[t] = "SLEEPING"
       THEN /\ state' = [state EXCEPT ![t] = "READY"]
            /\ ready_to_run' = Append(ready_to_run, t)
       ELSE UNCHANGED <<state, ready_to_run>>

\* Fault: sleepq_wake_all returns after its first thread.
WakeGoesOn_OnlyOne(c) == WakeReturns(c)

\* sleepq_wake returns, sleepq_wake_all looks for the next thread.
WakeGoesOn(c) ==
    IF wall[c]
    THEN /\ wphase' = [wphase EXCEPT ![c] = "scan"]
         /\ wtid' = [wtid EXCEPT ![c] = Idle]
         /\ UNCHANGED <<sleepq_slock, wres, wall>>
    ELSE WakeReturns(c)

WakeReady(c) ==
    /\ wphase[c] = "wake"
    /\ MakeRunnable(wtid[c])
    /\ WakeGoesOn(c)
    /\ UNCHANGED <<next_tid, pc, child, hashtable, cpuVars>>

-----------------------------------------------------------------------------
(* kernel/interrupt.c and scheduler_schedule() *)

\* A device interrupt: its handlers run, then interrupt_handle decides.
DeviceInterrupt(c) ==
    /\ InterruptsEnabled(c)
    /\ mode' = [mode EXCEPT ![c] = "intr"]
    /\ UNCHANGED <<threadVars, listVars, current, picked, wakeVars>>

\* The timer (HW5), possibly together with devices.
TimerInterrupt(c) ==
    /\ InterruptsEnabled(c)
    /\ mode' = [mode EXCEPT ![c] = "sched"]
    /\ UNCHANGED <<threadVars, listVars, current, picked, wakeVars>>

\* SW0, raised by thread_switch; the thread resumes after it.
SoftwareInterrupt(c) ==
    /\ InThread(c, "switch")
    /\ mode' = [mode EXCEPT ![c] = "sched"]
    /\ pc' = [pc EXCEPT ![current[c]] = "run"]
    /\ UNCHANGED <<state, sleeps_on, next_tid, child, listVars, current, picked, wakeVars>>

\* Handlers are done, no scheduling asked for and not in the idle thread.
InterruptReturn(c) ==
    /\ mode[c] = "intr" /\ wphase[c] = "none"
    /\ current[c] # Idle
    /\ mode' = [mode EXCEPT ![c] = "thread"]
    /\ UNCHANGED <<threadVars, listVars, current, picked, wakeVars>>

\* Fault: a finished thread is treated like any other.
LeavingState_KeepsDying(me) ==
    IF sleeps_on[me] # 0 THEN "SLEEPING" ELSE "READY"

\* What becomes of the thread that leaves the CPU, and the ready list then.
LeavingState(me) ==
    IF state[me] = "DYING" THEN "FREE"
    ELSE IF sleeps_on[me] # 0 THEN "SLEEPING" ELSE "READY"

ReadyAfterLeaving(me) ==
    IF LeavingState(me) = "READY" /\ me # Idle
    THEN Append(ready_to_run, me) ELSE ready_to_run

\* scheduler_schedule(), up to the release of thread_table_slock.
Schedule(c) ==
    /\ wphase[c] = "none"
    /\ mode[c] = "sched" \/ (mode[c] = "intr" /\ current[c] = Idle)
    /\ LET me == current[c]
           rq == ReadyAfterLeaving(me)
           t  == IF rq = <<>> THEN Idle ELSE Head(rq)
       IN  /\ state' = [state EXCEPT ![me] = LeavingState(me), ![t] = "RUNNING"]
           /\ ready_to_run' = IF rq = <<>> THEN rq ELSE Tail(rq)
           /\ picked' = [picked EXCEPT ![c] = t]
    /\ mode' = [mode EXCEPT ![c] = "picked"]
    /\ UNCHANGED <<sleeps_on, next_tid, pc, child, hashtable, current, wakeVars>>

\* The rest of it: the CPU's current thread changes and its context is restored.
Resume(c) ==
    /\ mode[c] = "picked"
    /\ current' = [current EXCEPT ![c] = picked[c]]
    /\ picked' = [picked EXCEPT ![c] = Idle]
    /\ mode' = [mode EXCEPT ![c] = "thread"]
    /\ UNCHANGED <<threadVars, listVars, wakeVars>>

-----------------------------------------------------------------------------
ThreadStep(c) ==
    \/ ThreadCreate(c) \/ ThreadRun(c) \/ ThreadFinish(c) \/ ThreadSwitch(c)
    \/ \E res \in Resource : SleepqAddMark(c, res)
    \/ SleepqAddChain(c)

WakeStep(c) ==
    \/ \E res \in Resource, all \in BOOLEAN : WakeBegin(c, res, all)
    \/ WakeUnlink(c) \/ WakeDone(c) \/ WakeReady(c)

InterruptStep(c) ==
    \/ DeviceInterrupt(c) \/ TimerInterrupt(c) \/ SoftwareInterrupt(c)
    \/ InterruptReturn(c) \/ Schedule(c) \/ Resume(c)

Next == \E c \in CPU : ThreadStep(c) \/ WakeStep(c) \/ InterruptStep(c)

Spec == Init /\ [][Next]_vars
-----------------------------------------------------------------------------
(* Fairness.  A CPU keeps executing with interrupts off; a timer interrupt  *)
(* stays pending until interrupts are on again, and handlers terminate.     *)
(* spinlock_acquire gives no fairness among the CPUs that spin.             *)
Fairness ==
    \A c \in CPU :
       /\ WF_vars(WakeUnlink(c) \/ WakeDone(c) \/ WakeReady(c))
       /\ WF_vars(SleepqAddChain(c))
       /\ WF_vars(InThread(c, "added") /\ ThreadSwitch(c))
       /\ WF_vars(Resume(c))
       /\ SF_vars(Schedule(c) \/ InterruptReturn(c))
       /\ SF_vars(TimerInterrupt(c))

FairSpec == Spec /\ Fairness

-----------------------------------------------------------------------------
(* Properties *)

\* Types of all variables; the only place where ranges are stated.
TypeOK ==
    /\ state \in [Thread -> State]
    /\ sleeps_on \in [Thread -> Resource \cup {0}]
    /\ next_tid \in Thread
    /\ ready_to_run \in Seq(Thread)
    /\ hashtable \in [Bucket -> Seq(Thread)]
    /\ sleepq_slock \in {0, 1}
    /\ current \in [CPU -> Thread]
    /\ pc \in [Thread -> PC]
    /\ child \in [Thread -> Thread]
    /\ mode \in [CPU -> Mode]
    /\ picked \in [CPU -> Thread]
    /\ wphase \in [CPU -> {"none", "scan", "wake"}]
    /\ wres \in [CPU -> Resource \cup {0}]
    /\ wall \in [CPU -> BOOLEAN]
    /\ wtid \in [CPU -> Thread]

\* The thread whose code or context CPU c is committed to.
OnCpu(c) == IF mode[c] = "picked" THEN picked[c] ELSE current[c]

\* No thread but the idle thread is executed by two CPUs at once: a kernel
\* stack has one user.  (scheduler_schedule picks under thread_table_slock
\* but updates scheduler_current_thread after releasing it.)
OneCpuPerThread ==
    \A c, d \in CPU : c # d /\ OnCpu(c) = OnCpu(d) => OnCpu(c) = Idle

\* What a CPU executes is a RUNNING or DYING thread, never a row that was
\* freed, put to sleep, or left on the ready list; and every such row is
\* executed by some CPU.
OnCpuIsRunning ==
    /\ \A c \in CPU : OnCpu(c) # Idle => state[OnCpu(c)] \in {"RUNNING", "DYING"}
    /\ \A t \in Thread \ {Idle} :
          state[t] \in {"RUNNING", "DYING"} => \E c \in CPU : OnCpu(c) = t

Injective(s) == \A i, j \in 1 .. Len(s) : s[i] = s[j] => i = j

\* The ready list holds exactly the READY threads other than the idle thread,
\* each once: the assertions of scheduler_remove_first_ready, and no READY
\* thread is ever forgotten.
ReadyListExact ==
    /\ Injective(ready_to_run)
    /\ \A t \in Thread :
          InSeq(ready_to_run, t) <=> (t # Idle /\ state[t] = "READY")

\* Threads share one `next' field, so a thread is on one list only: sleep
\* chains repeat nobody, hold only threads that hash to them, and hold no
\* thread that is ready, free or new.
ChainsExact ==
    \A h \in Bucket :
       /\ Injective(hashtable[h])
       /\ \A t \in Thread : InSeq(hashtable[h], t) =>
             /\ sleeps_on[t] # 0 /\ Hash(sleeps_on[t]) = h
             /\ state[t] \in {"RUNNING", "SLEEPING"}

\* Thread t is on the chain of the resource it sleeps on.
Chained(t) == InSeq(hashtable[Hash(sleeps_on[t])], t)

\* A wake call has unlinked t and not yet cleared its sleeps_on.
BeingWoken(t) == \E c \in CPU : wphase[c] = "wake" /\ wtid[c] = t

\* A SLEEPING thread can be found by the next wake: it is on the chain of the
\* resource it sleeps on, or a wake call has it in its hands.
NoLostSleeper ==
    \A t \in Thread :
       state[t] = "SLEEPING" => sleeps_on[t] # 0 /\ (Chained(t) \/ BeingWoken(t))

\* At most one CPU is inside sleepq_wake[_all], and exactly while
\* sleepq_slock is taken.
SleepqMutex ==
    /\ \A c, d \in CPU : wphase[c] # "none" /\ wphase[d] # "none" => c = d
    /\ (sleepq_slock = 1) <=> (\E c \in CPU : wphase[c] # "none")

\* Where the code of each thread can be, given its row: used to prove Safety.
ThreadInv ==
    /\ pc[Idle] = "run" /\ sleeps_on[Idle] = 0
    /\ state[Idle] \in {"READY", "RUNNING"}
    /\ \A t \in Thread :
          /\ sleeps_on[t] # 0 =>
                /\ state[t] \in {"RUNNING", "SLEEPING"}
                /\ pc[t] = "adding" \/ Chained(t) \/ BeingWoken(t)
          /\ pc[t] = "adding" =>
                /\ sleeps_on[t] # 0 /\ state[t] = "RUNNING"
                /\ ~ Chained(t) /\ ~ BeingWoken(t)
          /\ pc[t] = "added" => state[t] = "RUNNING"
          /\ pc[t] = "created" =>
                /\ state[t] \in {"RUNNING", "READY"} /\ sleeps_on[t] = 0
                /\ child[t] # Idle /\ state[child[t]] = "NONREADY"
    /\ \A t, u \in Thread :
          pc[t] = "created" /\ pc[u] = "created" /\ child[t] = child[u] => t = u

\* What each CPU may be doing, given its thread: used to prove Safety.
CpuInv ==
    \A c \in CPU :
       /\ mode[c] = "picked" =>
             /\ wphase[c] = "none"
             /\ pc[picked[c]] \notin {"adding", "added"}
             /\ picked[c] # Idle =>
                   state[picked[c]] = "RUNNING" /\ sleeps_on[picked[c]] = 0
       /\ mode[c] \in {"intr", "sched"} => pc[current[c]] \notin {"adding", "added"}
       /\ mode[c] \in {"thread", "intr"} /\ current[c] # Idle
             /\ pc[current[c]] \in {"run", "created"} =>
                   state[current[c]] = "RUNNING" /\ sleeps_on[current[c]] = 0
       /\ wphase[c] # "none" => wres[c] \in Resource
       /\ wphase[c] = "wake" =>
             /\ wtid[c] # Idle /\ sleeps_on[wtid[c]] = wres[c]
             /\ ~ Chained(wtid[c])

\* Safety of the scheduler and the sleep queue, whatever the CPUs do between
\* the sections under thread_table_slock and sleepq_slock.
Safety ==
    /\ OneCpuPerThread
    /\ OnCpuIsRunning
    /\ ReadyListExact
    /\ ChainsExact
    /\ NoLostSleeper
    /\ SleepqMutex

\* The inductive invariant.
IndInv == TypeOK /\ Safety /\ ThreadInv /\ CpuInv

\* When sleepq_wake_all(res) returns, every thread that was on the queue for
\* res when it started has been unlinked, so nobody is left waiting.
WakeAllWakesAll ==
    [][\A c \in CPU :
          wphase[c] # "none" /\ wall[c] /\ wphase'[c] = "none" =>
             \A t \in Thread : sleeps_on'[t] = wres[c] => pc[t] = "adding"]_vars

\* Round robin: every ready thread gets to run.
ReadyRuns ==
    \A t \in Thread \ {Idle} : state[t] = "READY" ~> state[t] = "RUNNING"

\* A finished thread's row is freed, and a thread that called sleepq_add
\* leaves the CPU or is woken.
LeavesCpu ==
    \A t \in Thread \ {Idle} :
       /\ state[t] = "DYING" ~> state[t] = "FREE"
       /\ (state[t] = "RUNNING" /\ pc[t] = "added") ~>
             (state[t] = "SLEEPING" \/ sleeps_on[t] = 0)
-----------------------------------------------------------------------------
(* Refinement of SleepQueueSpec.  A wake takes effect when its thread is    *)
(* unlinked, a wake_all when it gets the lock.                              *)

BeingWokenAll(r) == \E c \in CPU : wphase[c] # "none" /\ wall[c] /\ wres[c] = r

\* The k-th position in a set of positions, and what a list has at them.
Kth(M, k) == CHOOSE i \in M : Cardinality({j \in M : j <= i}) = k
Selected(s, M) == [k \in 1 .. Cardinality(M) |-> s[Kth(M, k)]]

WaitingOn(r) ==
    IF BeingWokenAll(r) THEN <<>>
    ELSE Selected(hashtable[Hash(r)], Matches(hashtable[Hash(r)], r))

Asleep ==
    {t \in Thread :
        /\ state[t] = "SLEEPING"
        /\ ~ BeingWokenAll(sleeps_on[t])
        /\ ~ BeingWoken(t)}

SQ == INSTANCE SleepQueueSpec
        WITH waiting <- [r \in Resource |-> WaitingOn(r)], asleep <- Asleep

\* The locks, chains and late scheduling of sleepq.c and scheduler.c implement
\* the first-come-first-served queues of SleepQueueSpec: no wake is lost
\* between sleepq_add and the scheduler putting the thread to sleep, no wake
\* takes effect twice, and a wake for one resource leaves the others alone.
ImplementsSleepQueue == SQ!Spec
=============================================================================
