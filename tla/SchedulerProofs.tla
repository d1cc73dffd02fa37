-------------------------- MODULE SchedulerProofs --------------------------
(***************************************************************************)
(* Scheduler satisfies its type invariant and its safety invariant and     *)
(* implements SleepQueueSpec, on any number of CPUs, threads, resources    *)
(* and hash buckets.                                                       *)
(***************************************************************************)
EXTENDS Scheduler, TLAPS, FiniteSetTheorems

USE SchedulerAssumption

-----------------------------------------------------------------------------
(* Lists *)

LEMMA AppendFacts ==
    ASSUME NEW S, NEW s \in Seq(S), NEW x \in S
    PROVE  /\ Append(s, x) \in Seq(S)
           /\ \A t : InSeq(Append(s, x), t) <=> InSeq(s, t) \/ t = x
           /\ Injective(s) /\ ~ InSeq(s, x) => Injective(Append(s, x))
<1>1. /\ Append(s, x) \in Seq(S)
      /\ Len(s) \in Nat
      /\ Len(Append(s, x)) = Len(s) + 1
      /\ Append(s, x)[Len(s) + 1] = x
      /\ \A i \in 1 .. Len(s) : Append(s, x)[i] = s[i]
  OBVIOUS
<1>2. \A t : InSeq(Append(s, x), t) <=> InSeq(s, t) \/ t = x
  BY <1>1 DEF InSeq
<1>3. Injective(s) /\ ~ InSeq(s, x) => Injective(Append(s, x))
  BY <1>1 DEF InSeq, Injective
<1> QED BY <1>1, <1>2, <1>3

LEMMA TailFacts ==
    ASSUME NEW S, NEW s \in Seq(S), s # <<>>
    PROVE  /\ Tail(s) \in Seq(S)
           /\ Head(s) \in S
           /\ InSeq(s, Head(s))
           /\ \A t : InSeq(s, t) <=> InSeq(Tail(s), t) \/ t = Head(s)
           /\ Injective(s) => Injective(Tail(s)) /\ ~ InSeq(Tail(s), Head(s))
<1>1. /\ Tail(s) \in Seq(S)
      /\ Len(s) \in Nat /\ Len(s) > 0
      /\ Len(Tail(s)) = Len(s) - 1
      /\ Head(s) = s[1] /\ Head(s) \in S
      /\ \A i \in 1 .. (Len(s) - 1) : Tail(s)[i] = s[i + 1]
  OBVIOUS
<1>2. InSeq(s, Head(s))
  BY <1>1 DEF InSeq
<1>3. ASSUME NEW t, InSeq(s, t), t # Head(s) PROVE InSeq(Tail(s), t)
  <2>1. PICK i \in 1 .. Len(s) : s[i] = t
    BY <1>3 DEF InSeq
  <2>2. i # 1 /\ i - 1 \in 1 .. (Len(s) - 1) /\ Tail(s)[i - 1] = s[i]
    BY <2>1, <1>1, <1>3
  <2> QED BY <2>1, <2>2, <1>1 DEF InSeq
<1>4. ASSUME NEW t, InSeq(Tail(s), t) PROVE InSeq(s, t)
  <2>1. PICK i \in 1 .. (Len(s) - 1) : Tail(s)[i] = t
    BY <1>4, <1>1 DEF InSeq
  <2> QED BY <2>1, <1>1 DEF InSeq
<1>5. Injective(s) => Injective(Tail(s)) /\ ~ InSeq(Tail(s), Head(s))
  <2> SUFFICES ASSUME Injective(s)
               PROVE  Injective(Tail(s)) /\ ~ InSeq(Tail(s), Head(s))
    OBVIOUS
  <2>1. Injective(Tail(s))
    BY <1>1 DEF Injective
  <2>2. ~ InSeq(Tail(s), Head(s))
    BY <1>1 DEF Injective, InSeq
  <2> QED BY <2>1, <2>2
<1> QED BY <1>1, <1>2, <1>3, <1>4, <1>5

LEMMA RemoveIdxFacts ==
    ASSUME NEW S, NEW s \in Seq(S), NEW k \in 1 .. Len(s)
    PROVE  /\ RemoveIdx(s, k) \in Seq(S)
           /\ \A t : InSeq(RemoveIdx(s, k), t) => InSeq(s, t)
           /\ \A t : InSeq(s, t) /\ t # s[k] => InSeq(RemoveIdx(s, k), t)
           /\ Injective(s) => Injective(RemoveIdx(s, k)) /\ ~ InSeq(RemoveIdx(s, k), s[k])
<1> DEFINE r == RemoveIdx(s, k)
<1>1. /\ Len(s) \in Nat /\ Len(s) - 1 \in Nat
      /\ r = [i \in 1 .. (Len(s) - 1) |-> IF i < k THEN s[i] ELSE s[i + 1]]
      /\ \A i \in 1 .. (Len(s) - 1) : r[i] \in S
  BY DEF RemoveIdx
<1>2. r \in Seq(S) /\ Len(r) = Len(s) - 1
  BY <1>1
<1> HIDE DEF r
<1>3. ASSUME NEW t, InSeq(r, t) PROVE InSeq(s, t)
  BY <1>1, <1>2, <1>3 DEF InSeq
<1>4. ASSUME NEW t, InSeq(s, t), t # s[k] PROVE InSeq(r, t)
  <2>1. PICK i \in 1 .. Len(s) : s[i] = t
    BY <1>4 DEF InSeq
  <2>2. CASE i < k
    BY <2>1, <2>2, <1>1, <1>2 DEF InSeq
  <2>3. CASE i > k
    <3>1. i - 1 \in 1 .. (Len(s) - 1) /\ r[i - 1] = s[i]
      BY <2>3, <1>1
    <3> QED BY <3>1, <2>1, <1>2 DEF InSeq
  <2> QED BY <2>1, <2>2, <2>3, <1>4
<1>5. ASSUME Injective(s) PROVE Injective(r) /\ ~ InSeq(r, s[k])
  <2>1. Injective(r)
    BY <1>1, <1>2, <1>5 DEF Injective
  <2>2. ~ InSeq(r, s[k])
    BY <1>1, <1>2, <1>5 DEF Injective, InSeq
  <2> QED BY <2>1, <2>2
<1> QED BY <1>2, <1>3, <1>4, <1>5 DEF r

-----------------------------------------------------------------------------
(* Constants *)

LEMMA ConstantFacts ==
    /\ Idle \in Thread
    /\ \A res \in Resource \cup {0} : Hash(res) \in Bucket
BY DEF Idle, Thread, Hash, Bucket

-----------------------------------------------------------------------------
(* Types *)

LEMMA InitType == Init => TypeOK
<1> SUFFICES ASSUME Init PROVE TypeOK
  OBVIOUS
<1>1. Idle \in Thread /\ 1 \in Thread /\ 2 % MaxThreads \in Thread
  BY DEF Idle, Thread
<1> QED BY <1>1 DEF Init, TypeOK, State, PC, Mode

LEMMA TypeStep == TypeOK /\ [Next]_vars => TypeOK'
<1> SUFFICES ASSUME TypeOK, [Next]_vars PROVE TypeOK'
  OBVIOUS
<1> USE ConstantFacts DEF TypeOK, State, PC, Mode, threadVars, listVars, cpuVars, wakeVars
<1>0. CASE UNCHANGED vars
  BY <1>0 DEF vars
<1>1. ASSUME NEW c \in CPU, ThreadCreate(c) PROVE TypeOK'
  <2>1. \A tid \in Thread : (tid + 1) % MaxThreads \in Thread
    BY DEF Thread
  <2>2. PICK tid \in Thread :
           /\ next_tid' = (tid + 1) % MaxThreads
           /\ state' = [state EXCEPT ![tid] = "NONREADY"]
           /\ sleeps_on' = [sleeps_on EXCEPT ![tid] = 0]
           /\ child' = [child EXCEPT ![current[c]] = tid, ![tid] = Idle]
           /\ pc' = [pc EXCEPT ![current[c]] = "created", ![tid] = "run"]
    BY <1>1 DEF ThreadCreate, NextAfter
  <2>3. next_tid' \in Thread /\ state' \in [Thread -> State]
        /\ sleeps_on' \in [Thread -> Resource \cup {0}]
    BY <2>1, <2>2
  <2>4. child' \in [Thread -> Thread] /\ pc' \in [Thread -> PC]
    BY <2>2
  <2> QED BY <1>1, <2>3, <2>4 DEF ThreadCreate, NextAfter
<1>2. ASSUME NEW c \in CPU, ThreadRun(c) PROVE TypeOK'
  BY <1>2, AppendFacts DEF ThreadRun
<1>3. ASSUME NEW c \in CPU, ThreadFinish(c) PROVE TypeOK'
  BY <1>3 DEF ThreadFinish
<1>4. ASSUME NEW c \in CPU, ThreadSwitch(c) PROVE TypeOK'
  BY <1>4 DEF ThreadSwitch
<1>5. ASSUME NEW c \in CPU, NEW res \in Resource, SleepqAddMark(c, res) PROVE TypeOK'
  BY <1>5 DEF SleepqAddMark
<1>6. ASSUME NEW c \in CPU, SleepqAddChain(c) PROVE TypeOK'
  <2> DEFINE h == Hash(sleeps_on[current[c]])
  <2>1. h \in Bucket /\ current[c] \in Thread /\ hashtable[h] \in Seq(Thread)
    OBVIOUS
  <2>2. Append(hashtable[h], current[c]) \in Seq(Thread)
    BY <2>1, AppendFacts
  <2>3. hashtable' = [hashtable EXCEPT ![h] = Append(@, current[c])]
        /\ pc' = [pc EXCEPT ![current[c]] = "added"]
    BY <1>6 DEF SleepqAddChain, ChainThread
  <2>4. hashtable' \in [Bucket -> Seq(Thread)] /\ pc' \in [Thread -> PC]
    BY <2>1, <2>2, <2>3
  <2> QED BY <1>6, <2>4 DEF SleepqAddChain, ChainThread
<1>7. ASSUME NEW c \in CPU, NEW res \in Resource, NEW all \in BOOLEAN, WakeBegin(c, res, all)
      PROVE TypeOK'
  BY <1>7 DEF WakeBegin, AcquireSleepqLock
<1>8. ASSUME NEW c \in CPU, WakeUnlink(c) PROVE TypeOK'
  <2> DEFINE h == Hash(wres[c])
  <2>1. h \in Bucket /\ hashtable[h] \in Seq(Thread)
    OBVIOUS
  <2>2. PICK k \in 1 .. Len(hashtable[h]) :
           /\ wtid' = [wtid EXCEPT ![c] = hashtable[h][k]]
           /\ hashtable' = [hashtable EXCEPT ![h] = RemoveIdx(@, k)]
    BY <1>8 DEF WakeUnlink, Unlink, Matches
  <2>3. RemoveIdx(hashtable[h], k) \in Seq(Thread) /\ hashtable[h][k] \in Thread
    BY <2>1, RemoveIdxFacts
  <2> QED BY <1>8, <2>1, <2>2, <2>3 DEF WakeUnlink, Unlink
<1>9. ASSUME NEW c \in CPU, WakeDone(c) PROVE TypeOK'
  BY <1>9 DEF WakeDone, WakeReturns
<1>10. ASSUME NEW c \in CPU, WakeReady(c) PROVE TypeOK'
  <2>1. Append(ready_to_run, wtid[c]) \in Seq(Thread)
    BY AppendFacts
  <2>2. state' \in [Thread -> State] /\ ready_to_run' \in Seq(Thread)
        /\ sleeps_on' \in [Thread -> Resource \cup {0}]
    BY <1>10, <2>1 DEF WakeReady, MakeRunnable, WakeGoesOn
  <2>3. /\ wphase' \in [CPU -> {"none", "scan", "wake"}]
        /\ wtid' \in [CPU -> Thread] /\ sleepq_slock' \in {0, 1}
        /\ wres' \in [CPU -> Resource \cup {0}] /\ wall' \in [CPU -> BOOLEAN]
    BY <1>10, ZenonT(30) DEF WakeReady, MakeRunnable, WakeGoesOn, WakeReturns
  <2> QED BY <1>10, <2>2, <2>3 DEF WakeReady, MakeRunnable, WakeGoesOn
<1>11. ASSUME NEW c \in CPU, DeviceInterrupt(c) \/ TimerInterrupt(c) PROVE TypeOK'
  BY <1>11 DEF DeviceInterrupt, TimerInterrupt
<1>12. ASSUME NEW c \in CPU, SoftwareInterrupt(c) PROVE TypeOK'
  BY <1>12 DEF SoftwareInterrupt
<1>13. ASSUME NEW c \in CPU, InterruptReturn(c) PROVE TypeOK'
  BY <1>13 DEF InterruptReturn
<1>14. ASSUME NEW c \in CPU, Schedule(c) PROVE TypeOK'
  <2> DEFINE rq == ReadyAfterLeaving(current[c])
  <2>1. rq \in Seq(Thread)
    BY AppendFacts DEF ReadyAfterLeaving
  <2>2. LeavingState(current[c]) \in State
    BY DEF LeavingState
  <2>3. rq # <<>> => Head(rq) \in Thread /\ Tail(rq) \in Seq(Thread)
    BY <2>1, TailFacts
  <2> HIDE DEF rq
  <2>4. /\ state' = [state EXCEPT ![current[c]] = LeavingState(current[c]),
                                  ![IF rq = <<>> THEN Idle ELSE Head(rq)] = "RUNNING"]
        /\ ready_to_run' = IF rq = <<>> THEN rq ELSE Tail(rq)
        /\ picked' = [picked EXCEPT ![c] = IF rq = <<>> THEN Idle ELSE Head(rq)]
    BY <1>14 DEF Schedule, rq
  <2>5. /\ mode' = [mode EXCEPT ![c] = "picked"]
        /\ UNCHANGED <<sleeps_on, next_tid, pc, child, hashtable, current, wakeVars>>
    BY <1>14 DEF Schedule
  <2>6. state' \in [Thread -> State] /\ ready_to_run' \in Seq(Thread)
        /\ picked' \in [CPU -> Thread]
    BY <2>1, <2>2, <2>3, <2>4
  <2> QED BY <2>5, <2>6
<1>15. ASSUME NEW c \in CPU, Resume(c) PROVE TypeOK'
  BY <1>15 DEF Resume
<1> QED
  BY <1>0, <1>1, <1>2, <1>3, <1>4, <1>5, <1>6, <1>7, <1>8, <1>9, <1>10, <1>11, <1>12,
     <1>13, <1>14, <1>15 DEF Next, ThreadStep, WakeStep, InterruptStep

\* Every variable keeps its type, whatever the sizes of the machine.
THEOREM TypeCorrect == Spec => []TypeOK
BY InitType, TypeStep, PTL DEF Spec

-----------------------------------------------------------------------------
(* Safety: every action preserves the inductive invariant *)

LEMMA InitInv == Init => IndInv
<1> SUFFICES ASSUME Init PROVE IndInv
  OBVIOUS
<1>1. TypeOK
  BY InitType
<1>2. /\ \A t : ~ InSeq(<<>>, t)
      /\ \A t : InSeq(<<1>>, t) <=> t = 1
      /\ Injective(<<>>) /\ Injective(<<1>>)
  BY DEF InSeq, Injective
<1>3. Idle # 1 /\ 1 \in Thread
  BY DEF Idle, Thread
<1>4. OneCpuPerThread /\ OnCpuIsRunning /\ SleepqMutex
  BY <1>3 DEF Init, OneCpuPerThread, OnCpuIsRunning, SleepqMutex, OnCpu
<1>5. ReadyListExact /\ ChainsExact /\ NoLostSleeper
  BY <1>2, <1>3 DEF Init, ReadyListExact, ChainsExact, NoLostSleeper
<1>6. ThreadInv /\ CpuInv
  BY <1>2, <1>3, ConstantFacts DEF Init, ThreadInv, CpuInv, Chained, BeingWoken
<1> QED BY <1>1, <1>4, <1>5, <1>6 DEF IndInv, Safety

LEMMA ThreadCreateStep ==
    ASSUME IndInv, TypeOK', NEW c \in CPU, ThreadCreate(c)
    PROVE  Safety' /\ ThreadInv' /\ CpuInv'
<1> USE ConstantFacts DEF IndInv, Safety, TypeOK, threadVars, listVars, cpuVars, wakeVars
<1>me. PICK me \in Thread : me = current[c]
  OBVIOUS
<1>0. PICK tid \in Thread :
         /\ tid # Idle /\ state[tid] = "FREE"
         /\ state' = [state EXCEPT ![tid] = "NONREADY"]
         /\ sleeps_on' = [sleeps_on EXCEPT ![tid] = 0]
         /\ child' = [child EXCEPT ![me] = tid, ![tid] = Idle]
         /\ pc' = [pc EXCEPT ![me] = "created", ![tid] = "run"]
  BY <1>me DEF ThreadCreate, NextAfter, IsNextFree, FreeRow
<1>a. /\ UNCHANGED <<ready_to_run, hashtable, current, mode, picked, sleepq_slock, wphase, wres, wall, wtid>>
      /\ mode[c] = "thread" /\ me # Idle /\ pc[me] = "run"
  BY <1>me DEF ThreadCreate, NextAfter, InThread
<1>b. state[me] = "RUNNING" /\ sleeps_on[me] = 0 /\ sleeps_on[tid] = 0
  <2>1. state[me] = "RUNNING" /\ sleeps_on[me] = 0
    BY <1>me, <1>a DEF CpuInv
  <2>2. sleeps_on[tid] = 0
    BY <1>0 DEF ThreadInv
  <2> QED BY <2>1, <2>2
<1>c. sleeps_on' = sleeps_on
  BY <1>0, <1>b
<1>d. /\ \A t \in Thread \ {me, tid} : pc'[t] = pc[t] /\ child'[t] = child[t] /\ state'[t] = state[t]
      /\ pc'[me] = "created" /\ child'[me] = tid /\ state'[me] = "RUNNING"
      /\ pc'[tid] = "run" /\ state'[tid] = "NONREADY"
  BY <1>0, <1>b
<1>1. OneCpuPerThread'
  BY <1>a DEF OneCpuPerThread, OnCpu
<1>2. OnCpuIsRunning'
  BY <1>0, <1>a DEF OnCpuIsRunning, OnCpu
<1>3. ReadyListExact'
  BY <1>0, <1>a DEF ReadyListExact
<1>4. ChainsExact'
  BY <1>0, <1>a, <1>c DEF ChainsExact
<1>5. NoLostSleeper'
  BY <1>0, <1>a, <1>c DEF NoLostSleeper, Chained, BeingWoken
<1>6. SleepqMutex'
  BY <1>a DEF SleepqMutex
<1>7. ThreadInv'
  <2>1. \A t : (Chained(t)' <=> Chained(t)) /\ (BeingWoken(t)' <=> BeingWoken(t))
    BY <1>a, <1>c DEF Chained, BeingWoken
  <2>2. \A t \in Thread : pc[t] = "created" => child[t] # tid /\ t # tid /\ t # me
    BY <1>0, <1>a DEF ThreadInv
  <2>3. \A t \in Thread : pc'[t] = "created" => t = me \/ (t # tid /\ pc[t] = "created")
    BY <1>d
  <2>4. ASSUME NEW t \in Thread, NEW u \in Thread,
               pc'[t] = "created", pc'[u] = "created", child'[t] = child'[u]
        PROVE  t = u
    <3>1. \A x \in Thread : x # me /\ pc'[x] = "created" =>
             pc[x] = "created" /\ child'[x] = child[x] /\ child[x] # tid
      BY <2>2, <2>3, <1>d
    <3>2. CASE t = me \/ u = me
      BY <2>4, <3>1, <3>2, <1>d
    <3>3. CASE t # me /\ u # me
      BY <2>4, <3>1, <3>3 DEF ThreadInv
    <3> QED BY <3>2, <3>3
  <2>5. ASSUME NEW t \in Thread, pc'[t] = "created"
        PROVE  /\ state'[t] \in {"RUNNING", "READY"} /\ sleeps_on'[t] = 0
               /\ child'[t] # Idle /\ state'[child'[t]] = "NONREADY"
    BY <2>2, <2>3, <2>5, <1>0, <1>b, <1>c, <1>d DEF ThreadInv
  <2>6. ASSUME NEW t \in Thread
        PROVE  /\ sleeps_on'[t] # 0 =>
                     /\ state'[t] \in {"RUNNING", "SLEEPING"}
                     /\ pc'[t] = "adding" \/ Chained(t)' \/ BeingWoken(t)'
               /\ pc'[t] = "adding" =>
                     /\ sleeps_on'[t] # 0 /\ state'[t] = "RUNNING"
                     /\ ~ Chained(t)' /\ ~ BeingWoken(t)'
               /\ pc'[t] = "added" => state'[t] = "RUNNING"
    BY <2>1, <1>b, <1>c, <1>d, ZenonT(30) DEF ThreadInv
  <2>7. pc'[Idle] = "run" /\ sleeps_on'[Idle] = 0 /\ state'[Idle] \in {"READY", "RUNNING"}
    BY <1>0, <1>a, <1>c, <1>d DEF ThreadInv
  <2> QED BY <2>4, <2>5, <2>6, <2>7 DEF ThreadInv
<1>8. CpuInv'
  BY <1>me, <1>0, <1>a, <1>b, <1>c, <1>d DEF CpuInv, ThreadInv, Chained, OnCpuIsRunning, OnCpu
<1> QED BY <1>1, <1>2, <1>3, <1>4, <1>5, <1>6, <1>7, <1>8

LEMMA ThreadRunStep ==
    ASSUME IndInv, TypeOK', NEW c \in CPU, ThreadRun(c)
    PROVE  Safety' /\ ThreadInv' /\ CpuInv'
<1> USE ConstantFacts DEF IndInv, Safety, TypeOK, threadVars, listVars, cpuVars, wakeVars
<1>1. OneCpuPerThread'
  BY AppendFacts DEF ThreadRun, InThread, OneCpuPerThread, OnCpuIsRunning, ThreadInv, CpuInv, OnCpu
<1>2. OnCpuIsRunning'
  BY AppendFacts DEF ThreadRun, InThread, OnCpuIsRunning, OneCpuPerThread, ThreadInv, CpuInv, OnCpu
<1>3. ReadyListExact'
  BY AppendFacts DEF ThreadRun, InThread, ReadyListExact, ThreadInv, CpuInv, OnCpuIsRunning, OnCpu
<1>4. ChainsExact'
  BY AppendFacts DEF ThreadRun, InThread, ChainsExact, ThreadInv, CpuInv, Chained
<1>5. NoLostSleeper'
  BY AppendFacts DEF ThreadRun, InThread, NoLostSleeper, ThreadInv, CpuInv, Chained, BeingWoken,
     SleepqMutex
<1>6. SleepqMutex'
  BY AppendFacts DEF ThreadRun, InThread, SleepqMutex
<1>7. ThreadInv'
  BY AppendFacts DEF ThreadRun, InThread, ThreadInv, CpuInv, Chained, BeingWoken, ChainsExact,
     SleepqMutex, OnCpuIsRunning, OneCpuPerThread, OnCpu
<1>8. CpuInv'
  BY AppendFacts DEF ThreadRun, InThread, CpuInv, ThreadInv, Chained, SleepqMutex,
     OneCpuPerThread, OnCpuIsRunning, OnCpu, ChainsExact
<1> QED BY <1>1, <1>2, <1>3, <1>4, <1>5, <1>6, <1>7, <1>8

LEMMA ThreadFinishStep ==
    ASSUME IndInv, TypeOK', NEW c \in CPU, ThreadFinish(c)
    PROVE  Safety' /\ ThreadInv' /\ CpuInv'
<1> USE ConstantFacts DEF IndInv, Safety, TypeOK, threadVars, listVars, cpuVars, wakeVars
<1>1. OneCpuPerThread'
  BY DEF ThreadFinish, InThread, OneCpuPerThread, OnCpuIsRunning, ThreadInv, CpuInv, OnCpu
<1>2. OnCpuIsRunning'
  BY DEF ThreadFinish, InThread, OnCpuIsRunning, OneCpuPerThread, ThreadInv, CpuInv, OnCpu
<1>3. ReadyListExact'
  BY DEF ThreadFinish, InThread, ReadyListExact, ThreadInv, CpuInv, OnCpuIsRunning, OnCpu
<1>4. ChainsExact'
  BY DEF ThreadFinish, InThread, ChainsExact, ThreadInv, CpuInv, Chained
<1>5. NoLostSleeper'
  BY DEF ThreadFinish, InThread, NoLostSleeper, ThreadInv, CpuInv, Chained, BeingWoken, SleepqMutex
<1>6. SleepqMutex'
  BY DEF ThreadFinish, InThread, SleepqMutex
<1>7. ThreadInv'
  BY DEF ThreadFinish, InThread, ThreadInv, CpuInv, Chained, BeingWoken, ChainsExact,
     SleepqMutex, OnCpuIsRunning, OneCpuPerThread, OnCpu
<1>8. CpuInv'
  BY DEF ThreadFinish, InThread, CpuInv, ThreadInv, Chained, SleepqMutex, OneCpuPerThread,
     OnCpuIsRunning, OnCpu, ChainsExact
<1> QED BY <1>1, <1>2, <1>3, <1>4, <1>5, <1>6, <1>7, <1>8

LEMMA ThreadSwitchStep ==
    ASSUME IndInv, TypeOK', NEW c \in CPU, ThreadSwitch(c)
    PROVE  Safety' /\ ThreadInv' /\ CpuInv'
<1> USE ConstantFacts DEF IndInv, Safety, TypeOK, threadVars, listVars, cpuVars, wakeVars
<1>1. OneCpuPerThread'
  BY DEF ThreadSwitch, InThread, OneCpuPerThread, OnCpuIsRunning, ThreadInv, CpuInv, OnCpu
<1>2. OnCpuIsRunning'
  BY DEF ThreadSwitch, InThread, OnCpuIsRunning, OneCpuPerThread, ThreadInv, CpuInv, OnCpu
<1>3. ReadyListExact'
  BY DEF ThreadSwitch, InThread, ReadyListExact, ThreadInv, CpuInv, OnCpuIsRunning, OnCpu
<1>4. ChainsExact'
  BY DEF ThreadSwitch, InThread, ChainsExact, ThreadInv, CpuInv, Chained
<1>5. NoLostSleeper'
  BY DEF ThreadSwitch, InThread, NoLostSleeper, ThreadInv, CpuInv, Chained, BeingWoken, SleepqMutex
<1>6. SleepqMutex'
  BY DEF ThreadSwitch, InThread, SleepqMutex
<1>7. ThreadInv'
  BY DEF ThreadSwitch, InThread, ThreadInv, CpuInv, Chained, BeingWoken, ChainsExact,
     SleepqMutex, OnCpuIsRunning, OneCpuPerThread, OnCpu
<1>8. CpuInv'
  BY DEF ThreadSwitch, InThread, CpuInv, ThreadInv, Chained, SleepqMutex, OneCpuPerThread,
     OnCpuIsRunning, OnCpu, ChainsExact
<1> QED BY <1>1, <1>2, <1>3, <1>4, <1>5, <1>6, <1>7, <1>8

LEMMA SleepqAddMarkStep ==
    ASSUME IndInv, TypeOK', NEW c \in CPU, NEW res \in Resource, SleepqAddMark(c, res)
    PROVE  Safety' /\ ThreadInv' /\ CpuInv'
<1> USE ConstantFacts DEF IndInv, Safety, TypeOK, threadVars, listVars, cpuVars, wakeVars
<1>1. OneCpuPerThread'
  BY DEF SleepqAddMark, InThread, OneCpuPerThread, OnCpuIsRunning, ThreadInv, CpuInv, OnCpu
<1>2. OnCpuIsRunning'
  BY DEF SleepqAddMark, InThread, OnCpuIsRunning, OneCpuPerThread, ThreadInv, CpuInv, OnCpu
<1>3. ReadyListExact'
  BY DEF SleepqAddMark, InThread, ReadyListExact, ThreadInv, CpuInv, OnCpuIsRunning, OnCpu
<1>4. ChainsExact'
  BY DEF SleepqAddMark, InThread, ChainsExact, ThreadInv, CpuInv, Chained
<1>5. NoLostSleeper'
  <2>1. \A t \in Thread : state[t] = "SLEEPING" => t # current[c]
    BY DEF SleepqAddMark, InThread, CpuInv
  <2>2. /\ UNCHANGED <<state, hashtable, wphase, wtid>>
        /\ \A t \in Thread : t # current[c] => sleeps_on'[t] = sleeps_on[t]
    BY DEF SleepqAddMark
  <2>3. \A t \in Thread : t # current[c] =>
           (Chained(t)' <=> Chained(t)) /\ (BeingWoken(t)' <=> BeingWoken(t))
    BY <2>2 DEF Chained, BeingWoken
  <2> QED BY <2>1, <2>2, <2>3 DEF NoLostSleeper
<1>6. SleepqMutex'
  BY DEF SleepqAddMark, InThread, SleepqMutex
<1>7. ThreadInv'
  BY DEF SleepqAddMark, InThread, ThreadInv, CpuInv, Chained, BeingWoken, ChainsExact,
     SleepqMutex, OnCpuIsRunning, OneCpuPerThread, OnCpu
<1>8. CpuInv'
  BY DEF SleepqAddMark, InThread, CpuInv, ThreadInv, Chained, SleepqMutex, OneCpuPerThread,
     OnCpuIsRunning, OnCpu, ChainsExact
<1> QED BY <1>1, <1>2, <1>3, <1>4, <1>5, <1>6, <1>7, <1>8

LEMMA SleepqAddChainStep ==
    ASSUME IndInv, TypeOK', NEW c \in CPU, SleepqAddChain(c)
    PROVE  Safety' /\ ThreadInv' /\ CpuInv'
<1> USE ConstantFacts DEF IndInv, Safety, TypeOK, threadVars, listVars, cpuVars, wakeVars
<1>me. PICK me \in Thread, h \in Bucket : me = current[c] /\ h = Hash(sleeps_on[me])
  OBVIOUS
<1>a. /\ mode[c] = "thread" /\ me # Idle /\ pc[me] = "adding"
      /\ hashtable' = [hashtable EXCEPT ![h] = Append(@, me)]
      /\ pc' = [pc EXCEPT ![me] = "added"]
      /\ UNCHANGED <<state, sleeps_on, next_tid, child, ready_to_run, cpuVars, wakeVars>>
      /\ hashtable[h] \in Seq(Thread)
  BY <1>me DEF SleepqAddChain, ChainThread, InThread
<1>b. sleeps_on[me] # 0 /\ state[me] = "RUNNING" /\ ~ InSeq(hashtable[h], me) /\ ~ BeingWoken(me)
  BY <1>me, <1>a DEF ThreadInv, Chained
<1>c. /\ \A t : InSeq(hashtable'[h], t) <=> InSeq(hashtable[h], t) \/ t = me
      /\ Injective(hashtable[h]) => Injective(hashtable'[h])
      /\ \A g \in Bucket \ {h} : hashtable'[g] = hashtable[g]
  BY <1>a, <1>b, AppendFacts
<1>d. \A t \in Thread \ {me} : Chained(t)' <=> Chained(t)
  BY <1>a, <1>c DEF Chained
<1>e. Chained(me)'
  BY <1>me, <1>a, <1>c DEF Chained
<1>f. \A t : BeingWoken(t)' <=> BeingWoken(t)
  BY <1>a DEF BeingWoken
<1>1. OneCpuPerThread'
  BY <1>a DEF OneCpuPerThread, OnCpu
<1>2. OnCpuIsRunning'
  BY <1>a DEF OnCpuIsRunning, OnCpu
<1>3. ReadyListExact'
  BY <1>a DEF ReadyListExact
<1>4. ChainsExact'
  BY <1>me, <1>a, <1>b, <1>c DEF ChainsExact
<1>5. NoLostSleeper'
  BY <1>a, <1>d, <1>e, <1>f DEF NoLostSleeper
<1>6. SleepqMutex'
  BY <1>a DEF SleepqMutex
<1>7. ThreadInv'
  BY <1>a, <1>b, <1>d, <1>e, <1>f DEF ThreadInv
<1>8. CpuInv'
  BY <1>me, <1>a, <1>b, <1>d DEF CpuInv, BeingWoken, OneCpuPerThread, OnCpu
<1> QED BY <1>1, <1>2, <1>3, <1>4, <1>5, <1>6, <1>7, <1>8

LEMMA WakeBeginStep ==
    ASSUME IndInv, TypeOK', NEW c \in CPU, NEW res \in Resource, NEW all \in BOOLEAN, WakeBegin(c, res, all)
    PROVE  Safety' /\ ThreadInv' /\ CpuInv'
<1> USE ConstantFacts DEF IndInv, Safety, TypeOK, threadVars, listVars, cpuVars, wakeVars
<1>1. OneCpuPerThread'
  BY DEF WakeBegin, AcquireSleepqLock, MayCallWake, InThread, OneCpuPerThread, OnCpuIsRunning,
     ThreadInv, CpuInv, OnCpu
<1>2. OnCpuIsRunning'
  BY DEF WakeBegin, AcquireSleepqLock, MayCallWake, InThread, OnCpuIsRunning, OneCpuPerThread,
     ThreadInv, CpuInv, OnCpu
<1>3. ReadyListExact'
  BY DEF WakeBegin, AcquireSleepqLock, MayCallWake, InThread, ReadyListExact, ThreadInv, CpuInv,
     OnCpuIsRunning, OnCpu
<1>4. ChainsExact'
  BY DEF WakeBegin, AcquireSleepqLock, MayCallWake, InThread, ChainsExact, ThreadInv, CpuInv,
     Chained
<1>5. NoLostSleeper'
  BY DEF WakeBegin, AcquireSleepqLock, MayCallWake, InThread, NoLostSleeper, ThreadInv, CpuInv,
     Chained, BeingWoken, SleepqMutex
<1>6. SleepqMutex'
  BY DEF WakeBegin, AcquireSleepqLock, MayCallWake, InThread, SleepqMutex
<1>7. ThreadInv'
  BY DEF WakeBegin, AcquireSleepqLock, MayCallWake, InThread, ThreadInv, CpuInv, Chained,
     BeingWoken, ChainsExact, SleepqMutex, OnCpuIsRunning, OneCpuPerThread, OnCpu
<1>8. CpuInv'
  BY DEF WakeBegin, AcquireSleepqLock, MayCallWake, InThread, CpuInv, ThreadInv, Chained,
     SleepqMutex, OneCpuPerThread, OnCpuIsRunning, OnCpu, ChainsExact
<1> QED BY <1>1, <1>2, <1>3, <1>4, <1>5, <1>6, <1>7, <1>8

LEMMA WakeUnlinkStep ==
    ASSUME IndInv, TypeOK', NEW c \in CPU, WakeUnlink(c)
    PROVE  Safety' /\ ThreadInv' /\ CpuInv'
<1> USE ConstantFacts DEF IndInv, Safety, TypeOK, threadVars, listVars, cpuVars, wakeVars
<1>a. wphase[c] = "scan" /\ wres[c] \in Resource
  BY DEF WakeUnlink, Unlink, CpuInv
<1>b. PICK h \in Bucket : h = Hash(wres[c]) /\ hashtable[h] \in Seq(Thread)
  BY <1>a
<1>c. PICK k \in 1 .. Len(hashtable[h]) :
         /\ sleeps_on[hashtable[h][k]] = wres[c]
         /\ wtid' = [wtid EXCEPT ![c] = hashtable[h][k]]
         /\ hashtable' = [hashtable EXCEPT ![h] = RemoveIdx(@, k)]
  BY <1>b DEF WakeUnlink, Unlink, Matches
<1>w. PICK w \in Thread : w = hashtable[h][k]
  BY <1>b
<1>d. /\ wphase' = [wphase EXCEPT ![c] = "wake"]
      /\ UNCHANGED <<threadVars, ready_to_run, cpuVars, sleepq_slock, wres, wall>>
  BY DEF WakeUnlink, Unlink
<1>e. InSeq(hashtable[h], w)
  BY <1>w DEF InSeq
<1>f. /\ sleeps_on[w] # 0 /\ Hash(sleeps_on[w]) = h
      /\ state[w] \in {"RUNNING", "SLEEPING"} /\ pc[w] # "adding" /\ w # Idle
  BY <1>b, <1>e DEF ChainsExact, ThreadInv, Chained
<1>g. /\ \A t : InSeq(hashtable'[h], t) <=> InSeq(hashtable[h], t) /\ t # w
      /\ Injective(hashtable'[h])
      /\ \A g \in Bucket \ {h} : hashtable'[g] = hashtable[g]
  BY <1>b, <1>c, <1>w, RemoveIdxFacts DEF ChainsExact
<1>h. wtid' = [wtid EXCEPT ![c] = w]
  BY <1>c, <1>w
<1>i. \A t \in Thread \ {w} : Chained(t)' <=> Chained(t)
  BY <1>d, <1>g DEF Chained
<1>j. ~ Chained(w)'
  BY <1>d, <1>f, <1>g DEF Chained
<1>k. \A d \in CPU \ {c} : wphase[d] = "none"
  BY <1>a DEF SleepqMutex
<1>l. \A t : BeingWoken(t)' <=> t = w
  BY <1>d, <1>h, <1>k DEF BeingWoken
<1>m. \A t : ~ BeingWoken(t)
  BY <1>a, <1>k DEF BeingWoken
<1>1. OneCpuPerThread'
  BY <1>d DEF OneCpuPerThread, OnCpu
<1>2. OnCpuIsRunning'
  BY <1>d DEF OnCpuIsRunning, OnCpu
<1>3. ReadyListExact'
  BY <1>d DEF ReadyListExact
<1>4. ChainsExact'
  BY <1>d, <1>g DEF ChainsExact
<1>5. NoLostSleeper'
  BY <1>d, <1>i, <1>l, <1>m DEF NoLostSleeper
<1>6. SleepqMutex'
  BY <1>a, <1>d DEF SleepqMutex
<1>7. ThreadInv'
  BY <1>d, <1>f, <1>i, <1>l, <1>m DEF ThreadInv
<1>8. CpuInv'
  BY <1>a, <1>c, <1>d, <1>f, <1>h, <1>i, <1>j, <1>k, <1>w DEF CpuInv
<1> QED BY <1>1, <1>2, <1>3, <1>4, <1>5, <1>6, <1>7, <1>8

LEMMA WakeDoneStep ==
    ASSUME IndInv, TypeOK', NEW c \in CPU, WakeDone(c)
    PROVE  Safety' /\ ThreadInv' /\ CpuInv'
<1> USE ConstantFacts DEF IndInv, Safety, TypeOK, threadVars, listVars, cpuVars, wakeVars
<1>0. \A d \in CPU : OnCpu(d)' = OnCpu(d)
  BY DEF WakeDone, OnCpu
<1>1. OneCpuPerThread'
  BY DEF WakeDone, WakeReturns, OneCpuPerThread, OnCpuIsRunning, ThreadInv, CpuInv, OnCpu
<1>2. OnCpuIsRunning'
  BY <1>0 DEF WakeDone, OnCpuIsRunning
<1>3. ReadyListExact'
  BY DEF WakeDone, WakeReturns, ReadyListExact, ThreadInv, CpuInv, OnCpuIsRunning, OnCpu
<1>4. ChainsExact'
  BY DEF WakeDone, WakeReturns, ChainsExact, ThreadInv, CpuInv, Chained
<1>5. NoLostSleeper'
  BY DEF WakeDone, WakeReturns, NoLostSleeper, ThreadInv, CpuInv, Chained, BeingWoken, SleepqMutex
<1>6. SleepqMutex'
  BY DEF WakeDone, WakeReturns, SleepqMutex
<1>7. ThreadInv'
  BY DEF WakeDone, WakeReturns, ThreadInv, CpuInv, Chained, BeingWoken, ChainsExact,
     SleepqMutex, OnCpuIsRunning, OneCpuPerThread, OnCpu
<1>8. CpuInv'
  BY DEF WakeDone, WakeReturns, CpuInv, ThreadInv, Chained, SleepqMutex, OneCpuPerThread,
     OnCpuIsRunning, OnCpu, ChainsExact
<1> QED BY <1>1, <1>2, <1>3, <1>4, <1>5, <1>6, <1>7, <1>8

LEMMA WakeReadyStep ==
    ASSUME IndInv, TypeOK', NEW c \in CPU, WakeReady(c)
    PROVE  Safety' /\ ThreadInv' /\ CpuInv'
<1> USE ConstantFacts DEF IndInv, Safety, TypeOK, threadVars, listVars, cpuVars, wakeVars
<1>w. PICK w \in Thread : w = wtid[c]
  OBVIOUS
<1>a. /\ wphase[c] = "wake"
      /\ w # Idle /\ sleeps_on[w] = wres[c] /\ wres[c] # 0 /\ ~ Chained(w)
      /\ state[w] \in {"RUNNING", "SLEEPING"} /\ pc[w] # "adding"
  BY <1>w DEF WakeReady, MakeRunnable, WakeGoesOn, CpuInv, ThreadInv, BeingWoken
<1>b. /\ sleeps_on' = [sleeps_on EXCEPT ![w] = 0]
      /\ state[w] = "SLEEPING" => /\ state' = [state EXCEPT ![w] = "READY"]
                                  /\ ready_to_run' = Append(ready_to_run, w)
      /\ state[w] # "SLEEPING" => state' = state /\ ready_to_run' = ready_to_run
      /\ UNCHANGED <<next_tid, pc, child, hashtable, cpuVars>>
  BY <1>w DEF WakeReady, MakeRunnable, WakeGoesOn
<1>c. /\ wall[c] => /\ wphase' = [wphase EXCEPT ![c] = "scan"]
                    /\ UNCHANGED <<sleepq_slock, wres>>
      /\ ~ wall[c] => /\ sleepq_slock' = 0
                      /\ wphase' = [wphase EXCEPT ![c] = "none"]
                      /\ wres' = [wres EXCEPT ![c] = 0]
      /\ wtid' = [wtid EXCEPT ![c] = Idle]
  BY DEF WakeReady, MakeRunnable, WakeGoesOn, WakeReturns
<1>d. \A d \in CPU \ {c} : wphase[d] = "none"
  BY <1>a DEF SleepqMutex
<1>e. \A t : ~ BeingWoken(t)'
  BY <1>a, <1>c, <1>d DEF BeingWoken
<1>f. \A h \in Bucket : ~ InSeq(hashtable[h], w)
  BY <1>a DEF ChainsExact, Chained
<1>g. \A t \in Thread \ {w} : Chained(t)' <=> Chained(t)
  BY <1>b DEF Chained
<1>h. \A t : BeingWoken(t) <=> t = w
  BY <1>a, <1>d, <1>w DEF BeingWoken
<1>i. /\ InSeq(ready_to_run', w) <=> state[w] = "SLEEPING"
      /\ \A t \in Thread \ {w} : InSeq(ready_to_run', t) <=> InSeq(ready_to_run, t)
      /\ Injective(ready_to_run')
  <2>1. Injective(ready_to_run) /\ ~ InSeq(ready_to_run, w)
    BY <1>a DEF ReadyListExact
  <2>2. CASE state[w] = "SLEEPING"
    <3>1. ready_to_run' = Append(ready_to_run, w)
      BY <2>2, <1>b
    <3> QED BY <2>1, <2>2, <3>1, AppendFacts
  <2>3. CASE state[w] # "SLEEPING"
    BY <2>1, <2>3, <1>b
  <2> QED BY <2>2, <2>3
<1>j. sleeps_on'[w] = 0 /\ \A t \in Thread \ {w} : sleeps_on'[t] = sleeps_on[t] /\ state'[t] = state[t]
  BY <1>a, <1>b
<1>k. state'[w] = (IF state[w] = "SLEEPING" THEN "READY" ELSE "RUNNING")
  BY <1>a, <1>b
<1>1. OneCpuPerThread'
  BY <1>b DEF OneCpuPerThread, OnCpu
<1>2. OnCpuIsRunning'
  BY <1>a, <1>b, <1>j, <1>k DEF OnCpuIsRunning, OnCpu
<1>3. ReadyListExact'
  BY <1>a, <1>i, <1>j, <1>k DEF ReadyListExact
<1>4. ChainsExact'
  BY <1>b, <1>f, <1>j DEF ChainsExact
<1>5. NoLostSleeper'
  BY <1>g, <1>h, <1>j, <1>k DEF NoLostSleeper
<1>6. SleepqMutex'
  <2>1. CASE wall[c]
    BY <2>1, <1>a, <1>c, <1>d, SMTT(30) DEF SleepqMutex
  <2>2. CASE ~ wall[c]
    <3>1. sleepq_slock' = 0 /\ \A d \in CPU : wphase'[d] = "none"
      <4>1. sleepq_slock' = 0 /\ wphase' = [wphase EXCEPT ![c] = "none"]
        BY <2>2, <1>c
      <4> QED BY <4>1, <1>d
    <3> QED BY <3>1 DEF SleepqMutex
  <2> QED BY <2>1, <2>2
<1>7. ThreadInv'
  BY <1>a, <1>b, <1>e, <1>g, <1>h, <1>j, <1>k DEF ThreadInv
<1>8. CpuInv'
  BY <1>a, <1>b, <1>c, <1>d, <1>j, <1>k DEF CpuInv, OnCpuIsRunning, OnCpu
<1> QED BY <1>1, <1>2, <1>3, <1>4, <1>5, <1>6, <1>7, <1>8

LEMMA DeviceInterruptStep ==
    ASSUME IndInv, TypeOK', NEW c \in CPU, DeviceInterrupt(c)
    PROVE  Safety' /\ ThreadInv' /\ CpuInv'
<1> USE ConstantFacts DEF IndInv, Safety, TypeOK, threadVars, listVars, cpuVars, wakeVars
<1>1. OneCpuPerThread'
  BY DEF DeviceInterrupt, InterruptsEnabled, OneCpuPerThread, OnCpuIsRunning, ThreadInv, CpuInv,
     OnCpu
<1>2. OnCpuIsRunning'
  BY DEF DeviceInterrupt, InterruptsEnabled, OnCpuIsRunning, OneCpuPerThread, ThreadInv, CpuInv,
     OnCpu
<1>3. ReadyListExact'
  BY DEF DeviceInterrupt, InterruptsEnabled, ReadyListExact, ThreadInv, CpuInv, OnCpuIsRunning,
     OnCpu
<1>4. ChainsExact'
  BY DEF DeviceInterrupt, InterruptsEnabled, ChainsExact, ThreadInv, CpuInv, Chained
<1>5. NoLostSleeper'
  BY DEF DeviceInterrupt, InterruptsEnabled, NoLostSleeper, ThreadInv, CpuInv, Chained,
     BeingWoken, SleepqMutex
<1>6. SleepqMutex'
  BY DEF DeviceInterrupt, InterruptsEnabled, SleepqMutex
<1>7. ThreadInv'
  BY DEF DeviceInterrupt, InterruptsEnabled, ThreadInv, CpuInv, Chained, BeingWoken,
     ChainsExact, SleepqMutex, OnCpuIsRunning, OneCpuPerThread, OnCpu
<1>8. CpuInv'
  BY DEF DeviceInterrupt, InterruptsEnabled, CpuInv, ThreadInv, Chained, SleepqMutex,
     OneCpuPerThread, OnCpuIsRunning, OnCpu, ChainsExact
<1> QED BY <1>1, <1>2, <1>3, <1>4, <1>5, <1>6, <1>7, <1>8

LEMMA TimerInterruptStep ==
    ASSUME IndInv, TypeOK', NEW c \in CPU, TimerInterrupt(c)
    PROVE  Safety' /\ ThreadInv' /\ CpuInv'
<1> USE ConstantFacts DEF IndInv, Safety, TypeOK, threadVars, listVars, cpuVars, wakeVars
<1>1. OneCpuPerThread'
  BY DEF TimerInterrupt, InterruptsEnabled, OneCpuPerThread, OnCpuIsRunning, ThreadInv, CpuInv,
     OnCpu
<1>2. OnCpuIsRunning'
  BY DEF TimerInterrupt, InterruptsEnabled, OnCpuIsRunning, OneCpuPerThread, ThreadInv, CpuInv,
     OnCpu
<1>3. ReadyListExact'
  BY DEF TimerInterrupt, InterruptsEnabled, ReadyListExact, ThreadInv, CpuInv, OnCpuIsRunning, OnCpu
<1>4. ChainsExact'
  BY DEF TimerInterrupt, InterruptsEnabled, ChainsExact, ThreadInv, CpuInv, Chained
<1>5. NoLostSleeper'
  BY DEF TimerInterrupt, InterruptsEnabled, NoLostSleeper, ThreadInv, CpuInv, Chained,
     BeingWoken, SleepqMutex
<1>6. SleepqMutex'
  BY DEF TimerInterrupt, InterruptsEnabled, SleepqMutex
<1>7. ThreadInv'
  BY DEF TimerInterrupt, InterruptsEnabled, ThreadInv, CpuInv, Chained, BeingWoken, ChainsExact,
     SleepqMutex, OnCpuIsRunning, OneCpuPerThread, OnCpu
<1>8. CpuInv'
  BY DEF TimerInterrupt, InterruptsEnabled, CpuInv, ThreadInv, Chained, SleepqMutex,
     OneCpuPerThread, OnCpuIsRunning, OnCpu, ChainsExact
<1> QED BY <1>1, <1>2, <1>3, <1>4, <1>5, <1>6, <1>7, <1>8

LEMMA SoftwareInterruptStep ==
    ASSUME IndInv, TypeOK', NEW c \in CPU, SoftwareInterrupt(c)
    PROVE  Safety' /\ ThreadInv' /\ CpuInv'
<1> USE ConstantFacts DEF IndInv, Safety, TypeOK, threadVars, listVars, cpuVars, wakeVars
<1>1. OneCpuPerThread'
  BY DEF SoftwareInterrupt, InThread, OneCpuPerThread, OnCpuIsRunning, ThreadInv, CpuInv, OnCpu
<1>2. OnCpuIsRunning'
  BY DEF SoftwareInterrupt, InThread, OnCpuIsRunning, OneCpuPerThread, ThreadInv, CpuInv, OnCpu
<1>3. ReadyListExact'
  BY DEF SoftwareInterrupt, InThread, ReadyListExact, ThreadInv, CpuInv, OnCpuIsRunning, OnCpu
<1>4. ChainsExact'
  BY DEF SoftwareInterrupt, InThread, ChainsExact, ThreadInv, CpuInv, Chained
<1>5. NoLostSleeper'
  BY DEF SoftwareInterrupt, InThread, NoLostSleeper, ThreadInv, CpuInv, Chained, BeingWoken,
     SleepqMutex
<1>6. SleepqMutex'
  BY DEF SoftwareInterrupt, InThread, SleepqMutex
<1>7. ThreadInv'
  BY DEF SoftwareInterrupt, InThread, ThreadInv, CpuInv, Chained, BeingWoken, ChainsExact,
     SleepqMutex, OnCpuIsRunning, OneCpuPerThread, OnCpu
<1>8. CpuInv'
  BY DEF SoftwareInterrupt, InThread, CpuInv, ThreadInv, Chained, SleepqMutex, OneCpuPerThread,
     OnCpuIsRunning, OnCpu, ChainsExact
<1> QED BY <1>1, <1>2, <1>3, <1>4, <1>5, <1>6, <1>7, <1>8

LEMMA InterruptReturnStep ==
    ASSUME IndInv, TypeOK', NEW c \in CPU, InterruptReturn(c)
    PROVE  Safety' /\ ThreadInv' /\ CpuInv'
<1> USE ConstantFacts DEF IndInv, Safety, TypeOK, threadVars, listVars, cpuVars, wakeVars
<1>0. \A d \in CPU : OnCpu(d)' = OnCpu(d)
  BY DEF InterruptReturn, OnCpu
<1>1. OneCpuPerThread'
  BY DEF InterruptReturn, OneCpuPerThread, OnCpuIsRunning, ThreadInv, CpuInv, OnCpu
<1>2. OnCpuIsRunning'
  BY <1>0 DEF InterruptReturn, OnCpuIsRunning
<1>3. ReadyListExact'
  BY DEF InterruptReturn, ReadyListExact, ThreadInv, CpuInv, OnCpuIsRunning, OnCpu
<1>4. ChainsExact'
  BY DEF InterruptReturn, ChainsExact, ThreadInv, CpuInv, Chained
<1>5. NoLostSleeper'
  BY DEF InterruptReturn, NoLostSleeper, ThreadInv, CpuInv, Chained, BeingWoken, SleepqMutex
<1>6. SleepqMutex'
  BY DEF InterruptReturn, SleepqMutex
<1>7. ThreadInv'
  BY DEF InterruptReturn, ThreadInv, CpuInv, Chained, BeingWoken, ChainsExact, SleepqMutex,
     OnCpuIsRunning, OneCpuPerThread, OnCpu
<1>8. CpuInv'
  BY DEF InterruptReturn, CpuInv, ThreadInv, Chained, SleepqMutex, OneCpuPerThread,
     OnCpuIsRunning, OnCpu, ChainsExact
<1> QED BY <1>1, <1>2, <1>3, <1>4, <1>5, <1>6, <1>7, <1>8

LEMMA ScheduleStep ==
    ASSUME IndInv, TypeOK', NEW c \in CPU, Schedule(c)
    PROVE  Safety' /\ ThreadInv' /\ CpuInv'
<1> USE ConstantFacts DEF IndInv, Safety, TypeOK, threadVars, listVars, cpuVars, wakeVars
<1>me. PICK me, ls, rq, t :
          /\ me = current[c] /\ ls = LeavingState(me) /\ rq = ReadyAfterLeaving(me)
          /\ t = IF rq = <<>> THEN Idle ELSE Head(rq)
  OBVIOUS
<1>a. /\ wphase[c] = "none" /\ mode[c] \in {"sched", "intr"}
      /\ mode[c] = "sched" \/ me = Idle
      /\ me \in Thread /\ pc[me] \notin {"adding", "added"}
  BY <1>me DEF Schedule, CpuInv
<1>b. /\ state' = [state EXCEPT ![me] = ls, ![t] = "RUNNING"]
      /\ ready_to_run' = (IF rq = <<>> THEN rq ELSE Tail(rq))
      /\ picked' = [picked EXCEPT ![c] = t]
      /\ mode' = [mode EXCEPT ![c] = "picked"]
      /\ UNCHANGED <<sleeps_on, next_tid, pc, child, hashtable, current, wakeVars>>
  BY <1>me DEF Schedule
<1>c. me # Idle => state[me] \in {"RUNNING", "DYING"}
  BY <1>me, <1>a DEF OnCpuIsRunning, OnCpu
<1>d. /\ ls \in {"FREE", "SLEEPING", "READY"}
      /\ ls = "FREE" <=> state[me] = "DYING"
      /\ ls = "SLEEPING" => sleeps_on[me] # 0
      /\ ls = "READY" => sleeps_on[me] = 0
      /\ me = Idle => ls = "READY"
  BY <1>me DEF LeavingState, ThreadInv
<1>e. /\ rq \in Seq(Thread) /\ Injective(rq)
      /\ \A x \in Thread : InSeq(rq, x) <=>
            x # Idle /\ (state[x] = "READY" \/ (x = me /\ ls = "READY"))
  BY <1>me, <1>a, <1>c, AppendFacts DEF ReadyAfterLeaving, ReadyListExact
<1>f. rq = <<>> => \A x \in Thread : ~ InSeq(rq, x)
  BY DEF InSeq
<1>g. /\ t \in Thread /\ ready_to_run' \in Seq(Thread) /\ Injective(ready_to_run')
      /\ \A x \in Thread : InSeq(ready_to_run', x) <=> InSeq(rq, x) /\ x # t
      /\ t # Idle => InSeq(rq, t)
  BY <1>me, <1>b, <1>e, <1>f, TailFacts
<1>h. \A x \in Thread : state'[x] = IF x = t THEN "RUNNING" ELSE IF x = me THEN ls ELSE state[x]
  BY <1>a, <1>b, <1>g
<1>i. t # Idle => t = me \/ state[t] = "READY"
  BY <1>e, <1>g
<1>j. OnCpu(c) = me /\ OnCpu(c)' = t /\ \A d \in CPU \ {c} : OnCpu(d)' = OnCpu(d)
  BY <1>me, <1>a, <1>b DEF OnCpu
<1>k. \A x \in Thread : (Chained(x)' <=> Chained(x)) /\ (BeingWoken(x)' <=> BeingWoken(x))
  BY <1>b DEF Chained, BeingWoken
<1>l. t = me /\ me # Idle => ls = "READY"
  BY <1>c, <1>e, <1>g
<1>m. t # Idle => sleeps_on[t] = 0 /\ pc[t] \notin {"adding", "added"}
  BY <1>a, <1>d, <1>g, <1>i, <1>l DEF ThreadInv
<1>n. \A d \in CPU \ {c} : OnCpu(d) # Idle => OnCpu(d) # me /\ OnCpu(d) # t
  <2> SUFFICES ASSUME NEW d \in CPU \ {c}, OnCpu(d) # Idle
               PROVE  OnCpu(d) # me /\ OnCpu(d) # t
    OBVIOUS
  <2>1. OnCpu(d) # me
    BY <1>j DEF OneCpuPerThread
  <2>2. state[OnCpu(d)] # "READY"
    BY DEF OnCpuIsRunning
  <2> QED BY <2>1, <2>2, <1>i
<1>1. OneCpuPerThread'
  BY <1>j, <1>n, SMTT(30) DEF OneCpuPerThread
<1>2. OnCpuIsRunning'
  <2>1. ASSUME NEW d \in CPU, OnCpu(d)' # Idle PROVE state'[OnCpu(d)'] \in {"RUNNING", "DYING"}
    <3>1. OnCpu(d) \in Thread
      BY DEF OnCpu
    <3> QED BY <2>1, <3>1, <1>g, <1>h, <1>j, <1>n, ZenonT(30) DEF OnCpuIsRunning
  <2>2. ASSUME NEW x \in Thread \ {Idle}, state'[x] \in {"RUNNING", "DYING"}
        PROVE  \E d \in CPU : OnCpu(d)' = x
    <3>1. CASE x = t
      BY <3>1, <1>j
    <3>2. CASE x # t
      <4>1. x # me /\ state[x] \in {"RUNNING", "DYING"}
        BY <2>2, <3>2, <1>d, <1>h
      <4> QED BY <4>1, <1>j DEF OnCpuIsRunning
    <3> QED BY <3>1, <3>2
  <2> QED BY <2>1, <2>2 DEF OnCpuIsRunning
<1>3. ReadyListExact'
  <2>1. ASSUME NEW x \in Thread PROVE InSeq(ready_to_run', x) <=> (x # Idle /\ state'[x] = "READY")
    <3>1. CASE x = t
      BY <3>1, <1>g, <1>h
    <3>2. CASE x # t /\ x = me
      BY <3>2, <1>c, <1>e, <1>g, <1>h
    <3>3. CASE x # t /\ x # me
      BY <3>3, <1>e, <1>g, <1>h
    <3> QED BY <3>1, <3>2, <3>3
  <2> QED BY <2>1, <1>g DEF ReadyListExact
<1>4. ChainsExact'
  <2>1. ASSUME NEW g \in Bucket, NEW x \in Thread, InSeq(hashtable[g], x)
        PROVE  sleeps_on[x] # 0 /\ Hash(sleeps_on[x]) = g /\ state'[x] \in {"RUNNING", "SLEEPING"}
    <3>1. sleeps_on[x] # 0 /\ Hash(sleeps_on[x]) = g /\ state[x] \in {"RUNNING", "SLEEPING"}
      BY <2>1 DEF ChainsExact
    <3> QED BY <3>1, <1>d, <1>h
  <2> QED BY <2>1, <1>b DEF ChainsExact
<1>5. NoLostSleeper'
  BY <1>a, <1>b, <1>d, <1>h, <1>k DEF NoLostSleeper, ThreadInv
<1>6. SleepqMutex'
  BY <1>b DEF SleepqMutex
<1>7. ThreadInv'
  <2>1. state'[Idle] \in {"READY", "RUNNING"}
    BY <1>d, <1>h DEF ThreadInv
  <2>2. ASSUME NEW x \in Thread
        PROVE  /\ sleeps_on[x] # 0 => state'[x] \in {"RUNNING", "SLEEPING"}
               /\ pc[x] \in {"adding", "added"} => state'[x] = "RUNNING"
    BY <1>a, <1>d, <1>h DEF ThreadInv
  <2>3. ASSUME NEW x \in Thread, pc[x] = "created" PROVE state'[x] \in {"RUNNING", "READY"}
    <3>1. state[x] \in {"RUNNING", "READY"}
      BY <2>3 DEF ThreadInv
    <3>2. x = me => ls = "READY"
      BY <2>3, <3>1, <1>d, <1>me DEF ThreadInv
    <3> QED BY <3>1, <3>2, <1>h
  <2>4. ASSUME NEW x \in Thread, state[x] = "NONREADY" PROVE state'[x] = "NONREADY"
    BY <2>4, <1>c, <1>d, <1>h, <1>i, <1>g, ZenonT(30) DEF ThreadInv
  <2> QED BY <2>1, <2>2, <2>3, <2>4, <1>b, <1>k DEF ThreadInv
<1>8. CpuInv'
  BY <1>me, <1>a, <1>b, <1>c, <1>d, <1>g, <1>h, <1>i, <1>k, <1>m, <1>n DEF CpuInv, ThreadInv, OnCpu
<1> QED BY <1>1, <1>2, <1>3, <1>4, <1>5, <1>6, <1>7, <1>8

LEMMA ResumeStep ==
    ASSUME IndInv, TypeOK', NEW c \in CPU, Resume(c)
    PROVE  Safety' /\ ThreadInv' /\ CpuInv'
<1> USE ConstantFacts DEF IndInv, Safety, TypeOK, threadVars, listVars, cpuVars, wakeVars
<1>0. \A d \in CPU : OnCpu(d)' = OnCpu(d)
  BY DEF Resume, OnCpu
<1>1. OneCpuPerThread'
  BY DEF Resume, OneCpuPerThread, OnCpuIsRunning, ThreadInv, CpuInv, OnCpu
<1>2. OnCpuIsRunning'
  BY <1>0 DEF Resume, OnCpuIsRunning
<1>3. ReadyListExact'
  BY DEF Resume, ReadyListExact, ThreadInv, CpuInv, OnCpuIsRunning, OnCpu
<1>4. ChainsExact'
  BY DEF Resume, ChainsExact, ThreadInv, CpuInv, Chained
<1>5. NoLostSleeper'
  BY DEF Resume, NoLostSleeper, ThreadInv, CpuInv, Chained, BeingWoken, SleepqMutex
<1>6. SleepqMutex'
  BY DEF Resume, SleepqMutex
<1>7. ThreadInv'
  BY DEF Resume, ThreadInv, CpuInv, Chained, BeingWoken, ChainsExact, SleepqMutex,
     OnCpuIsRunning, OneCpuPerThread, OnCpu
<1>8. CpuInv'
  BY DEF Resume, CpuInv, ThreadInv, Chained, SleepqMutex, OneCpuPerThread, OnCpuIsRunning,
     OnCpu, ChainsExact
<1> QED BY <1>1, <1>2, <1>3, <1>4, <1>5, <1>6, <1>7, <1>8

LEMMA InvStep == IndInv /\ [Next]_vars => IndInv'
<1> SUFFICES ASSUME IndInv, [Next]_vars PROVE IndInv'
  OBVIOUS
<1>1. TypeOK'
  BY TypeStep DEF IndInv
<1>2. CASE UNCHANGED vars
  BY <1>1, <1>2 DEF vars, threadVars, listVars, cpuVars, wakeVars, IndInv, Safety,
     OneCpuPerThread, OnCpuIsRunning, ReadyListExact, ChainsExact, NoLostSleeper,
     SleepqMutex, ThreadInv, CpuInv, OnCpu, Chained, BeingWoken
<1>3. ASSUME NEW c \in CPU, ThreadStep(c) PROVE IndInv'
  <2>1. Safety' /\ ThreadInv' /\ CpuInv'
    BY <1>1, <1>3, ThreadCreateStep, ThreadRunStep, ThreadFinishStep, ThreadSwitchStep,
       SleepqAddMarkStep, SleepqAddChainStep DEF ThreadStep
  <2> QED BY <1>1, <2>1 DEF IndInv
<1>4. ASSUME NEW c \in CPU, WakeStep(c) PROVE IndInv'
  <2>1. Safety' /\ ThreadInv' /\ CpuInv'
    BY <1>1, <1>4, WakeBeginStep, WakeUnlinkStep, WakeDoneStep, WakeReadyStep DEF WakeStep
  <2> QED BY <1>1, <2>1 DEF IndInv
<1>5. ASSUME NEW c \in CPU, InterruptStep(c) PROVE IndInv'
  <2>1. Safety' /\ ThreadInv' /\ CpuInv'
    BY <1>1, <1>5, DeviceInterruptStep, TimerInterruptStep, SoftwareInterruptStep,
       InterruptReturnStep, ScheduleStep, ResumeStep DEF InterruptStep
  <2> QED BY <1>1, <2>1 DEF IndInv
<1> QED BY <1>2, <1>3, <1>4, <1>5 DEF Next

\* The scheduler and the sleep queue are safe on any number of CPUs: a thread
\* is executed by one CPU at a time, the ready list and the sleep chains hold
\* exactly the threads they should, and no sleeper is lost.
THEOREM SchedulerSafe == Spec => []Safety
<1>1. IndInv => Safety
  BY DEF IndInv
<1> QED BY <1>1, InitInv, InvStep, PTL DEF Spec

\* sleepq_wake_all leaves nobody waiting for its resource.
THEOREM WakeAllComplete == Spec => WakeAllWakesAll
<1> DEFINE A == \A c \in CPU :
          wphase[c] # "none" /\ wall[c] /\ wphase'[c] = "none" =>
             \A t \in Thread : sleeps_on'[t] = wres[c] => pc[t] = "adding"
<1>1. ASSUME IndInv, [Next]_vars PROVE [A]_vars
  <2> SUFFICES ASSUME NEW c \in CPU, wphase[c] # "none", wall[c], wphase'[c] = "none", Next,
                      NEW t \in Thread, sleeps_on'[t] = wres[c]
               PROVE  pc[t] = "adding"
    BY <1>1
  <2> USE DEF IndInv, Safety, TypeOK, threadVars, listVars, cpuVars, wakeVars
  <2>1. PICK d \in CPU : ThreadStep(d) \/ WakeStep(d) \/ InterruptStep(d)
    BY DEF Next
  <2>2. wphase' # wphase
    OBVIOUS
  <2>3. ~ ThreadStep(d)
    BY <2>2 DEF ThreadStep, ThreadCreate, NextAfter, ThreadRun, ThreadFinish, ThreadSwitch,
       SleepqAddMark, SleepqAddChain, ChainThread
  <2>4. ~ InterruptStep(d)
    BY <2>2 DEF InterruptStep, DeviceInterrupt, TimerInterrupt, SoftwareInterrupt,
       InterruptReturn, Schedule, Resume
  <2>5. \A e \in CPU : wphase[e] # "none" => e = c
    BY <1>1 DEF SleepqMutex
  <2>6. d = c
    BY <1>1, <2>1, <2>3, <2>4, <2>5 DEF WakeStep, WakeBegin, AcquireSleepqLock, WakeUnlink,
       Unlink, WakeDone, WakeReady, MakeRunnable, WakeGoesOn, SleepqMutex
  <2>7. WakeDone(c)
    BY <1>1, <2>1, <2>3, <2>4, <2>6 DEF WakeStep, WakeBegin, AcquireSleepqLock, WakeUnlink,
       Unlink, WakeReady, MakeRunnable, WakeGoesOn
  <2>8. wphase[c] = "scan" /\ sleeps_on' = sleeps_on /\ wres[c] \in Resource
    BY <1>1, <2>7 DEF WakeDone, CpuInv
  <2>9. ~ BeingWoken(t)
    BY <2>5, <2>8 DEF BeingWoken
  <2>10. ~ Chained(t)
    BY <2>7, <2>8 DEF WakeDone, Matches, Chained, InSeq
  <2> QED BY <1>1, <2>8, <2>9, <2>10 DEF ThreadInv
<1> QED BY <1>1, InitInv, InvStep, PTL DEF Spec, WakeAllWakesAll

-----------------------------------------------------------------------------
(* Selected positions of a list *)

Rank(M, i) == Cardinality({j \in M : j <= i})

\* The elements of a finite set of numbers have the ranks 1, 2, ...
LEMMA RankFacts ==
    ASSUME NEW M \in SUBSET Nat, IsFiniteSet(M)
    PROVE  /\ Cardinality(M) \in Nat
           /\ \A i \in M : Rank(M, i) \in 1 .. Cardinality(M)
           /\ \A i, j \in M : i < j => Rank(M, i) < Rank(M, j)
           /\ \A k \in 1 .. Cardinality(M) : \E i \in M : Rank(M, i) = k
<1> DEFINE upto(i) == {j \in M : j <= i}
<1>1. Cardinality(M) \in Nat
  BY FS_CardinalityType
<1>2. ASSUME NEW i \in M
      PROVE  IsFiniteSet(upto(i)) /\ Rank(M, i) \in Nat /\ Rank(M, i) <= Cardinality(M)
  BY FS_Subset, FS_CardinalityType DEF Rank
<1>3. ASSUME NEW i \in M PROVE Rank(M, i) # 0
  <2>1. i \in upto(i)
    OBVIOUS
  <2> QED BY <1>2, <2>1, FS_EmptySet DEF Rank
<1>4. ASSUME NEW i \in M PROVE Rank(M, i) \in 1 .. Cardinality(M)
  <2>1. Rank(M, i) \in Nat /\ Rank(M, i) <= Cardinality(M) /\ Rank(M, i) # 0
    BY <1>2, <1>3
  <2> QED BY ONLY <1>1, <2>1
<1>5. ASSUME NEW i \in M, NEW j \in M, i < j PROVE Rank(M, i) < Rank(M, j)
  <2>0. i \in Nat /\ j \in Nat /\ \A k \in M : k \in Nat
    OBVIOUS
  <2>1. upto(i) \in SUBSET upto(j) /\ j \in upto(j) /\ j \notin upto(i)
    <3>1. \A k \in M : k <= i => k <= j
      BY <1>5, <2>0
    <3>2. upto(i) \in SUBSET upto(j)
      BY ONLY <3>1
    <3>3. j <= j /\ ~ (j <= i)
      BY <1>5, <2>0
    <3> QED BY <3>2, <3>3
  <2>2. IsFiniteSet(upto(j)) /\ upto(i) # upto(j)
    BY <1>2, <2>1
  <2>3. /\ Cardinality(upto(i)) <= Cardinality(upto(j))
        /\ Cardinality(upto(j)) # Cardinality(upto(i))
    BY <2>1, <2>2, FS_Subset
  <2> QED BY <1>2, <2>3 DEF Rank
<1>6. \A k \in 1 .. Cardinality(M) : \E i \in M : Rank(M, i) = k
  <2> DEFINE T == 1 .. Cardinality(M)
             f == [i \in M |-> Rank(M, i)]
  <2>1. \A i, j \in M : f[i] = f[j] => i = j
    BY <1>4, <1>5
  <2>2. f \in Injection(M, T)
    BY <1>4, <2>1 DEF Injection, IsInjective
  <2>3. IsFiniteSet(T) /\ Cardinality(T) = Cardinality(M)
    BY <1>1, FS_Interval
  <2>4. f \in Surjection(M, T)
    <3> HIDE DEF f, T
    <3> QED BY <2>2, <2>3, FS_Injection
  <2> QED BY <2>4 DEF Surjection
<1> QED BY <1>1, <1>4, <1>5, <1>6

LEMMA KthFacts ==
    ASSUME NEW M \in SUBSET Nat, IsFiniteSet(M), NEW k \in 1 .. Cardinality(M)
    PROVE  /\ Kth(M, k) \in M /\ Rank(M, Kth(M, k)) = k
           /\ \A i \in M : Rank(M, i) = k => i = Kth(M, k)
<1>1. Kth(M, k) \in M /\ Rank(M, Kth(M, k)) = k
  <2>1. \E i \in M : Rank(M, i) = k
    BY RankFacts
  <2> QED BY <2>1 DEF Kth, Rank
<1>2. ASSUME NEW i \in M, Rank(M, i) = k, i # Kth(M, k) PROVE FALSE
  <2>1. PICK j \in M : j = Kth(M, k)
    BY <1>1
  <2>2. i \in Nat /\ j \in Nat /\ i # j /\ k \in Nat
    BY <1>2, <2>1, RankFacts
  <2>3. i < j \/ j < i
    BY <2>2
  <2>4. Rank(M, i) < Rank(M, j) \/ Rank(M, j) < Rank(M, i)
    BY <2>3, RankFacts
  <2> QED BY <1>1, <1>2, <2>1, <2>2, <2>4
<1> QED BY <1>1, <1>2

\* The list of a set of positions has the elements there.
LEMMA SelectedFacts ==
    ASSUME NEW S, NEW s \in Seq(S), NEW M \in SUBSET (1 .. Len(s))
    PROVE  /\ IsFiniteSet(M) /\ M \in SUBSET Nat /\ Cardinality(M) \in Nat
           /\ Selected(s, M) \in Seq(S) /\ Len(Selected(s, M)) = Cardinality(M)
           /\ \A i \in M : Selected(s, M)[Rank(M, i)] = s[i]
           /\ \A t : (\E k \in 1 .. Len(Selected(s, M)) : Selected(s, M)[k] = t)
                     <=> \E i \in M : s[i] = t
<1>1. IsFiniteSet(M) /\ M \in SUBSET Nat
  <2>1. IsFiniteSet(1 .. Len(s))
    BY FS_Interval
  <2>2. IsFiniteSet(M)
    BY <2>1, FS_Subset
  <2> QED BY <2>2
<1>2. Cardinality(M) \in Nat
  BY <1>1, FS_CardinalityType
<1>3. ASSUME NEW k \in 1 .. Cardinality(M) PROVE Kth(M, k) \in M /\ s[Kth(M, k)] \in S
  <2>1. Kth(M, k) \in 1 .. Len(s)
    BY <1>1, KthFacts
  <2> QED BY <1>1, <2>1, KthFacts
<1>4. Selected(s, M) \in Seq(S) /\ Len(Selected(s, M)) = Cardinality(M)
  BY <1>2, <1>3 DEF Selected
<1>5. ASSUME NEW i \in M PROVE Selected(s, M)[Rank(M, i)] = s[i] /\ Rank(M, i) \in 1 .. Cardinality(M)
  <2>1. Rank(M, i) \in 1 .. Cardinality(M)
    BY <1>1, RankFacts
  <2>2. Kth(M, Rank(M, i)) = i
    BY <1>1, <2>1, KthFacts
  <2> QED BY <2>1, <2>2 DEF Selected
<1>6. \A k \in 1 .. Cardinality(M) : Selected(s, M)[k] = s[Kth(M, k)]
  BY DEF Selected
<1> QED BY <1>1, <1>2, <1>3, <1>4, <1>5, <1>6

\* Two lists that have the same elements at positions in the same order.
LEMMA SelectedSame ==
    ASSUME NEW S, NEW s \in Seq(S), NEW M \in SUBSET (1 .. Len(s)),
           NEW r \in Seq(S), NEW N \in SUBSET (1 .. Len(r)),
           NEW f \in [M -> N], \A j \in N : \E i \in M : f[i] = j,
           \A i, j \in M : i < j => f[i] < f[j],
           \A i \in M : r[f[i]] = s[i]
    PROVE  Selected(r, N) = Selected(s, M)
<1>1. /\ IsFiniteSet(M) /\ M \in SUBSET Nat /\ IsFiniteSet(N) /\ N \in SUBSET Nat
      /\ Selected(s, M) \in Seq(S) /\ Len(Selected(s, M)) = Cardinality(M)
      /\ Selected(r, N) \in Seq(S) /\ Len(Selected(r, N)) = Cardinality(N)
  BY SelectedFacts
<1>0. /\ \A i \in M : i \in Nat /\ f[i] \in N
      /\ \A j \in N : j \in Nat
  BY <1>1
<1>2. \A i, j \in M : /\ f[i] <= f[j] <=> i <= j
                      /\ f[i] = f[j] => i = j
  <2> SUFFICES ASSUME NEW i \in M, NEW j \in M
               PROVE  (f[i] <= f[j] <=> i <= j) /\ (f[i] = f[j] => i = j)
    OBVIOUS
  <2>1. i \in Nat /\ j \in Nat /\ f[i] \in Nat /\ f[j] \in Nat
    BY <1>0
  <2>2. (i < j => f[i] < f[j]) /\ (j < i => f[j] < f[i])
    OBVIOUS
  <2> QED BY ONLY <2>1, <2>2
<1>3. ASSUME NEW i \in M PROVE Rank(N, f[i]) = Rank(M, i)
  <2> DEFINE A == {j \in M : j <= i}
             B == {j \in N : j <= f[i]}
             g == [j \in A |-> f[j]]
  <2>0. /\ g \in [A -> B]
        /\ \A j, k \in A : g[j] = g[k] => j = k
        /\ \A k \in B : \E j \in A : g[j] = k
    <3>1. \A j \in A : j \in M /\ f[j] \in B
      BY <1>0, <1>2
    <3>2. \A k \in B : \E j \in A : f[j] = k
      BY <1>0, <1>2
    <3> HIDE DEF A, B
    <3> QED BY <1>2, <3>1, <3>2
  <2>1. g \in Injection(A, B)
    <3> HIDE DEF A, B, g
    <3> QED BY <2>0 DEF Injection, IsInjective
  <2>2. g \in Surjection(A, B)
    <3> HIDE DEF A, B, g
    <3> QED BY <2>0 DEF Surjection
  <2>3. IsFiniteSet(A) /\ ExistsBijection(A, B)
    BY <1>1, <2>1, <2>2, FS_Subset DEF Bijection, ExistsBijection
  <2>4. Cardinality(B) = Cardinality(A)
    <3> HIDE DEF A, B
    <3> QED BY <2>3, FS_Bijection
  <2> QED BY <2>4 DEF Rank
<1>4. Cardinality(N) = Cardinality(M)
  <2>1. f \in Injection(M, N)
    BY <1>2 DEF Injection, IsInjective
  <2>2. f \in Surjection(M, N)
    BY DEF Surjection
  <2>3. ExistsBijection(M, N)
    BY <2>1, <2>2 DEF Bijection, ExistsBijection
  <2> QED BY <1>1, <2>3, FS_Bijection
<1>5. ASSUME NEW k \in 1 .. Cardinality(M) PROVE Selected(r, N)[k] = Selected(s, M)[k]
  <2>1. PICK i \in M : Rank(M, i) = k
    BY <1>1, RankFacts
  <2>0. Selected(s, M)[Rank(M, i)] = s[i]
    BY SelectedFacts
  <2>2. Selected(s, M)[k] = s[i]
    BY <2>0, <2>1
  <2>3. f[i] \in N /\ Rank(N, f[i]) = k
    BY <1>3, <2>1
  <2>4. Selected(r, N)[k] = r[f[i]]
    BY <2>3, SelectedFacts
  <2> QED BY <2>2, <2>4
<1> QED BY <1>1, <1>4, <1>5

\* A position is selected behind all others.
LEMMA SelectedAppend ==
    ASSUME NEW s \in Seq(Thread), NEW M \in SUBSET (1 .. Len(s))
    PROVE  \A x \in Thread :
              /\ Selected(Append(s, x), M) = Selected(s, M)
              /\ Selected(Append(s, x), M \cup {Len(s) + 1}) = Append(Selected(s, M), x)
<1> TAKE x \in Thread
<1> DEFINE r == Append(s, x)
           n == Len(s)
           N == M \cup {n + 1}
<1>0. /\ r \in Seq(Thread) /\ n \in Nat /\ Len(r) = n + 1 /\ r[n + 1] = x
      /\ \A i \in 1 .. n : r[i] = s[i]
  OBVIOUS
<1> HIDE DEF r, n
<1>1. /\ IsFiniteSet(M) /\ M \in SUBSET Nat /\ Cardinality(M) \in Nat
      /\ Selected(s, M) \in Seq(Thread) /\ Len(Selected(s, M)) = Cardinality(M)
  BY SelectedFacts
<1>2. M \in SUBSET (1 .. Len(r)) /\ N \in SUBSET (1 .. Len(r)) /\ n + 1 \notin M
  <2>1. M \in SUBSET (1 .. n)
    BY DEF n
  <2>2. 1 .. n \subseteq 1 .. (n + 1) /\ n + 1 \in 1 .. (n + 1) /\ n + 1 \notin 1 .. n
    BY <1>0
  <2> QED BY <1>0, <2>1, <2>2
<1>3. Selected(r, M) = Selected(s, M)
  <2> DEFINE f == [i \in M |-> i]
  <2>1. /\ f \in [M -> M] /\ (\A j \in M : \E i \in M : f[i] = j)
        /\ \A i, j \in M : i < j => f[i] < f[j]
    OBVIOUS
  <2>2. \A i \in M : r[f[i]] = s[i]
    BY <1>0, <1>2 DEF n
  <2> HIDE DEF f
  <2>3. r \in Seq(Thread) /\ M \in SUBSET (1 .. Len(s)) /\ M \in SUBSET (1 .. Len(r))
    BY <1>0, <1>2
  <2> QED BY <2>1, <2>2, <2>3, SelectedSame
<1>4. /\ IsFiniteSet(N) /\ N \in SUBSET Nat
      /\ Selected(r, N) \in Seq(Thread) /\ Len(Selected(r, N)) = Cardinality(N)
  BY <1>0, <1>2, SelectedFacts
<1>5. Cardinality(N) = Cardinality(M) + 1
  BY <1>1, <1>2, FS_AddElement
<1>6. ASSUME NEW i \in M PROVE Rank(N, i) = Rank(M, i)
  <2>1. i <= n /\ i \in Nat
    BY DEF n
  <2>2. {j \in N : j <= i} = {j \in M : j <= i}
    BY <1>0, <2>1
  <2> QED BY <2>2 DEF Rank
<1>7. Rank(N, n + 1) = Cardinality(M) + 1
  <2>1. \A j \in N : j <= n + 1
    BY <1>0, <1>2
  <2>2. {j \in N : j <= n + 1} = N
    BY <2>1
  <2> QED BY <1>5, <2>2 DEF Rank
<1>8. ASSUME NEW k \in 1 .. Cardinality(M) PROVE Selected(r, N)[k] = Selected(s, M)[k]
  <2>1. PICK i \in M : Rank(M, i) = k
    BY <1>1, RankFacts
  <2>2. Selected(s, M)[Rank(M, i)] = s[i]
    BY SelectedFacts
  <2>3. Selected(r, N)[Rank(N, i)] = r[i]
    <3>1. i \in N
      OBVIOUS
    <3> HIDE DEF N
    <3> QED BY <1>0, <1>2, <3>1, SelectedFacts
  <2>4. r[i] = s[i]
    BY <1>0 DEF n
  <2> QED BY <1>6, <2>1, <2>2, <2>3, <2>4
<1>9. Selected(r, N)[Cardinality(M) + 1] = x
  <2>1. n + 1 \in N
    OBVIOUS
  <2>2. Selected(r, N)[Rank(N, n + 1)] = r[n + 1]
    BY <1>0, <1>2, <2>1, SelectedFacts
  <2> QED BY <1>0, <1>7, <2>2
<1>10. Selected(r, N) = Append(Selected(s, M), x)
  <2> HIDE DEF N
  <2> QED BY <1>1, <1>4, <1>5, <1>8, <1>9
<1> QED BY <1>3, <1>10 DEF r, n

\* The first of the selected positions.
LEMMA SelectedFirst ==
    ASSUME NEW S, NEW s \in Seq(S), NEW M \in SUBSET (1 .. Len(s)),
           NEW k \in M, \A i \in M : k <= i
    PROVE  /\ Selected(s, M) # <<>> /\ Head(Selected(s, M)) = s[k]
           /\ Selected(s, M \ {k}) = Tail(Selected(s, M))
<1> DEFINE N == M \ {k}
<1>1. /\ IsFiniteSet(M) /\ M \in SUBSET Nat /\ Cardinality(M) \in Nat
      /\ Selected(s, M) \in Seq(S) /\ Len(Selected(s, M)) = Cardinality(M)
  BY SelectedFacts
<1>2. N \in SUBSET (1 .. Len(s)) /\ k \in Nat
  BY <1>1
<1>3. /\ IsFiniteSet(N) /\ N \in SUBSET Nat /\ Cardinality(N) \in Nat
      /\ Selected(s, N) \in Seq(S) /\ Len(Selected(s, N)) = Cardinality(N)
  <2> HIDE DEF N
  <2> QED BY <1>2, SelectedFacts
<1>4. Cardinality(N) = Cardinality(M) - 1
  BY <1>1, FS_RemoveElement
<1>5. Rank(M, k) = 1
  <2>1. \A j \in M : j <= k <=> j = k
    <3> SUFFICES ASSUME NEW j \in M PROVE j <= k <=> j = k
      OBVIOUS
    <3>1. j \in Nat /\ k <= j
      BY <1>1
    <3> QED BY <1>2, <3>1
  <2>2. {j \in M : j <= k} = {k}
    BY <2>1
  <2> QED BY <2>2, FS_Singleton DEF Rank
<1>6. ASSUME NEW i \in N PROVE Rank(M, i) = Rank(N, i) + 1
  <2> DEFINE A == {j \in M : j <= i}
  <2>1. k \in A /\ IsFiniteSet(A)
    BY <1>1, FS_Subset
  <2>2. Cardinality(A \ {k}) = Cardinality(A) - 1 /\ Cardinality(A) \in Nat
    <3> HIDE DEF A
    <3> QED BY <2>1, FS_RemoveElement, FS_CardinalityType
  <2>3. {j \in N : j <= i} = A \ {k}
    OBVIOUS
  <2>4. Cardinality(A) = Rank(M, i) /\ Cardinality(A \ {k}) = Rank(N, i)
    BY <2>3 DEF Rank
  <2> HIDE DEF A, N
  <2> QED BY <2>2, <2>4
<1>7. Selected(s, M) # <<>> /\ Head(Selected(s, M)) = s[k]
  <2>1. Selected(s, M)[Rank(M, k)] = s[k] /\ Rank(M, k) \in 1 .. Cardinality(M)
    BY <1>1, SelectedFacts, RankFacts
  <2> QED BY <1>1, <1>5, <2>1
<1>8. ASSUME NEW m \in 1 .. Cardinality(N) PROVE Selected(s, N)[m] = Selected(s, M)[m + 1]
  <2>1. PICK i \in N : Rank(N, i) = m
    BY <1>3, RankFacts
  <2>2. Selected(s, N)[Rank(N, i)] = s[i]
    <3> HIDE DEF N
    <3> QED BY <1>2, SelectedFacts
  <2>3. Selected(s, M)[Rank(M, i)] = s[i]
    BY SelectedFacts
  <2> QED BY <1>6, <2>1, <2>2, <2>3
<1>9. Selected(s, N) = Tail(Selected(s, M))
  <2> HIDE DEF N
  <2> QED BY <1>1, <1>3, <1>4, <1>7, <1>8
<1> QED BY <1>7, <1>9

\* Taking out another element leaves the selection as it is.
LEMMA SelectedRemove ==
    ASSUME NEW S, NEW s \in Seq(S), NEW M \in SUBSET (1 .. Len(s)),
           NEW k \in 1 .. Len(s), k \notin M
    PROVE  Selected(RemoveIdx(s, k), {IF i < k THEN i ELSE i - 1 : i \in M}) = Selected(s, M)
<1> DEFINE r == RemoveIdx(s, k)
           f == [i \in M |-> IF i < k THEN i ELSE i - 1]
           N == {IF i < k THEN i ELSE i - 1 : i \in M}
<1>1. r \in Seq(S) /\ Len(s) \in Nat
  BY RemoveIdxFacts
<1>2. Len(r) = Len(s) - 1 /\ \A i \in 1 .. (Len(s) - 1) : r[i] = IF i < k THEN s[i] ELSE s[i + 1]
  BY DEF RemoveIdx
<1> HIDE DEF r
<1>3. \A i \in M : i \in Nat /\ i >= 1 /\ i <= Len(s) /\ i # k
  OBVIOUS
<1>4. \A i \in M : f[i] \in 1 .. Len(r) /\ r[f[i]] = s[i]
  BY <1>1, <1>2, <1>3
<1>5. f \in [M -> N] /\ (\A j \in N : \E i \in M : f[i] = j) /\ N \in SUBSET (1 .. Len(r))
  BY <1>4, ZenonT(30)
<1>6. \A i, j \in M : i < j => f[i] < f[j]
  BY <1>3
<1>7. Selected(r, N) = Selected(s, M)
  <2>1. \A i \in M : r[f[i]] = s[i]
    BY <1>4
  <2> HIDE DEF f, N
  <2> QED BY <1>1, <1>5, <1>6, <2>1, SelectedSame
<1> QED BY <1>7 DEF r

-----------------------------------------------------------------------------
(* The refinement of SleepQueueSpec *)

Waiting == [r \in Resource |-> WaitingOn(r)]

\* The lemmas on selections, for lists of threads.
LEMMA ThreadSelected ==
    ASSUME NEW s \in Seq(Thread), NEW M \in SUBSET (1 .. Len(s))
    PROVE  /\ \A t : (\E k \in 1 .. Len(Selected(s, M)) : Selected(s, M)[k] = t)
                     <=> \E i \in M : s[i] = t
           /\ \A x \in Thread :
                 /\ Selected(Append(s, x), M) = Selected(s, M)
                 /\ Selected(Append(s, x), M \cup {Len(s) + 1}) = Append(Selected(s, M), x)
           /\ \A k \in M : (\A i \in M : k <= i) =>
                 /\ Selected(s, M) # <<>> /\ Head(Selected(s, M)) = s[k]
                 /\ Selected(s, M \ {k}) = Tail(Selected(s, M))
           /\ \A k \in 1 .. Len(s) : k \notin M =>
                 Selected(RemoveIdx(s, k), {IF i < k THEN i ELSE i - 1 : i \in M}) = Selected(s, M)
<1>0. PICK S : S = Thread
  OBVIOUS
<1>s. s \in Seq(S)
  BY <1>0
<1>1. \A t : (\E k \in 1 .. Len(Selected(s, M)) : Selected(s, M)[k] = t)
             <=> \E i \in M : s[i] = t
  BY ONLY <1>s, M \in SUBSET (1 .. Len(s)), SelectedFacts
<1>2. \A x \in Thread :
         /\ Selected(Append(s, x), M) = Selected(s, M)
         /\ Selected(Append(s, x), M \cup {Len(s) + 1}) = Append(Selected(s, M), x)
  BY ONLY s \in Seq(Thread), M \in SUBSET (1 .. Len(s)), SelectedAppend
<1>3. \A k \in M : (\A i \in M : k <= i) =>
         /\ Selected(s, M) # <<>> /\ Head(Selected(s, M)) = s[k]
         /\ Selected(s, M \ {k}) = Tail(Selected(s, M))
  BY ONLY <1>s, M \in SUBSET (1 .. Len(s)), SelectedFirst
<1>4. \A k \in 1 .. Len(s) : k \notin M =>
         Selected(RemoveIdx(s, k), {IF i < k THEN i ELSE i - 1 : i \in M}) = Selected(s, M)
  BY ONLY <1>s, M \in SUBSET (1 .. Len(s)), SelectedRemove
<1> QED BY <1>0, <1>1, <1>2, <1>3, <1>4

\* The positions of a chain that match a resource.
LEMMA MatchFacts ==
    ASSUME TypeOK, NEW r \in Resource
    PROVE  /\ Hash(r) \in Bucket /\ hashtable[Hash(r)] \in Seq(Thread)
           /\ Matches(hashtable[Hash(r)], r) \in SUBSET (1 .. Len(hashtable[Hash(r)]))
BY ConstantFacts DEF TypeOK, Matches

\* The queue of a resource holds the threads on its chain that sleep on it.
LEMMA QueueFacts ==
    ASSUME TypeOK, NEW r \in Resource, ~ BeingWokenAll(r)
    PROVE  \A t \in Thread : t \in SQ!Members(WaitingOn(r)) <=> sleeps_on[t] = r /\ Chained(t)
<1>1. PICK s \in Seq(Thread) : s = hashtable[Hash(r)]
  BY MatchFacts
<1>2. PICK M \in SUBSET (1 .. Len(s)) : M = Matches(s, r)
  BY <1>1, MatchFacts
<1>3. WaitingOn(r) = Selected(s, M)
  BY <1>1, <1>2 DEF WaitingOn
<1>4. ASSUME NEW t \in Thread
      PROVE  t \in SQ!Members(Selected(s, M)) <=> \E i \in M : s[i] = t
  <2>1. SQ!Members(Selected(s, M)) = {Selected(s, M)[k] : k \in 1 .. Len(Selected(s, M))}
    BY DEF SQ!Members
  <2>2. (\E k \in 1 .. Len(Selected(s, M)) : Selected(s, M)[k] = t) <=> \E i \in M : s[i] = t
    BY ONLY s \in Seq(Thread), M \in SUBSET (1 .. Len(s)), ThreadSelected, ZenonT(30)
  <2> QED BY ONLY <2>1, <2>2
<1>5. ASSUME NEW t \in Thread
      PROVE  (\E i \in M : s[i] = t) <=> sleeps_on[t] = r /\ Chained(t)
  BY <1>1, <1>2 DEF Matches, Chained, InSeq
<1> QED BY <1>3, <1>4, <1>5

\* Who waits for anything is on the chain of what it sleeps on.
LEMMA QueuedFacts ==
    ASSUME IndInv, NEW t \in Thread
    PROVE  t \in SQ!Queued <=>
              /\ sleeps_on[t] \in Resource /\ Chained(t)
              /\ ~ BeingWokenAll(sleeps_on[t])
<1>0. TypeOK
  BY DEF IndInv
<1>1. t \in SQ!Queued <=> \E r \in Resource : t \in SQ!Members(WaitingOn(r))
  BY DEF SQ!Queued
<1>2. ASSUME NEW r \in Resource, BeingWokenAll(r) PROVE t \notin SQ!Members(WaitingOn(r))
  BY <1>2 DEF WaitingOn, SQ!Members
<1>3. ASSUME NEW r \in Resource, t \in SQ!Members(WaitingOn(r))
      PROVE  sleeps_on[t] = r /\ Chained(t) /\ ~ BeingWokenAll(r)
  <2>1. ~ BeingWokenAll(r)
    BY <1>2, <1>3
  <2> QED BY <1>0, <1>3, <2>1, QueueFacts
<1>4. ASSUME NEW r \in Resource, sleeps_on[t] = r, Chained(t), ~ BeingWokenAll(r)
      PROVE  t \in SQ!Members(WaitingOn(r))
  BY <1>0, <1>4, QueueFacts
<1>5. ASSUME t \in SQ!Queued
      PROVE  /\ sleeps_on[t] \in Resource /\ Chained(t)
             /\ ~ BeingWokenAll(sleeps_on[t])
  <2>1. PICK r \in Resource : t \in SQ!Members(WaitingOn(r))
    BY <1>1, <1>5
  <2> QED BY <1>3, <2>1
<1> QED BY <1>1, <1>4, <1>5

\* Steps that touch neither chains nor wake calls, nor who is SLEEPING.
LEMMA SameQueues ==
    ASSUME UNCHANGED <<hashtable, sleeps_on, wphase, wres, wall, wtid>>
    PROVE  /\ \A r : WaitingOn(r)' = WaitingOn(r) /\ (BeingWokenAll(r)' <=> BeingWokenAll(r))
           /\ \A t : BeingWoken(t)' <=> BeingWoken(t)
           /\ (\A t \in Thread : state'[t] = "SLEEPING" <=> state[t] = "SLEEPING")
                 => Asleep' = Asleep
<1>1. /\ \A r : BeingWokenAll(r)' <=> BeingWokenAll(r)
      /\ \A t : BeingWoken(t)' <=> BeingWoken(t)
  BY DEF BeingWokenAll, BeingWoken
<1>2. \A r : WaitingOn(r)' = WaitingOn(r)
  BY <1>1 DEF WaitingOn, Matches
<1> QED BY <1>1, <1>2 DEF Asleep

\* A change of sleeps_on of threads that are on no chain.
LEMMA SameChains ==
    ASSUME TypeOK, UNCHANGED hashtable,
           \A t \in Thread : (\E h \in Bucket : InSeq(hashtable[h], t)) => sleeps_on'[t] = sleeps_on[t]
    PROVE  \A r \in Resource : Matches(hashtable[Hash(r)], r)' = Matches(hashtable[Hash(r)], r)
<1> SUFFICES ASSUME NEW r \in Resource
             PROVE  Matches(hashtable[Hash(r)], r)' = Matches(hashtable[Hash(r)], r)
  OBVIOUS
<1>1. Hash(r) \in Bucket /\ hashtable[Hash(r)] \in Seq(Thread)
  BY MatchFacts
<1>2. \A i \in 1 .. Len(hashtable[Hash(r)]) :
         sleeps_on'[hashtable[Hash(r)][i]] = sleeps_on[hashtable[Hash(r)][i]]
  BY <1>1 DEF InSeq
<1> QED BY <1>2 DEF Matches

LEMMA QuietStep ==
    ASSUME IndInv, NEW c \in CPU,
           \/ ThreadCreate(c) \/ ThreadRun(c) \/ ThreadFinish(c) \/ ThreadSwitch(c)
           \/ DeviceInterrupt(c) \/ TimerInterrupt(c) \/ SoftwareInterrupt(c)
           \/ InterruptReturn(c) \/ Resume(c)
    PROVE  UNCHANGED <<Waiting, Asleep>>
<1> USE ConstantFacts DEF IndInv, Safety, TypeOK, threadVars, listVars, cpuVars, wakeVars
<1>1. /\ UNCHANGED <<hashtable, wphase, wres, wall, wtid>>
  BY DEF ThreadCreate, ThreadRun, ThreadFinish, ThreadSwitch, DeviceInterrupt, TimerInterrupt,
         SoftwareInterrupt, InterruptReturn, Resume
<1>2. UNCHANGED sleeps_on
  <2>1. CASE ThreadCreate(c)
    <3>1. PICK tid \in Thread : /\ state[tid] = "FREE"
                                /\ sleeps_on' = [sleeps_on EXCEPT ![tid] = 0]
      BY <2>1 DEF ThreadCreate, IsNextFree, FreeRow
    <3>2. sleeps_on[tid] = 0
      BY <3>1 DEF ThreadInv
    <3> QED BY <3>1, <3>2
  <2> QED BY <2>1 DEF ThreadRun, ThreadFinish, ThreadSwitch, DeviceInterrupt, TimerInterrupt,
         SoftwareInterrupt, InterruptReturn, Resume
<1>3. \A t \in Thread : state'[t] = "SLEEPING" <=> state[t] = "SLEEPING"
  <2>1. CASE ThreadCreate(c)
    <3>1. PICK tid \in Thread : /\ state[tid] = "FREE"
                                /\ state' = [state EXCEPT ![tid] = "NONREADY"]
      BY <2>1 DEF ThreadCreate, IsNextFree, FreeRow
    <3> QED BY <3>1
  <2>2. CASE ThreadRun(c)
    <3>1. PICK tid \in Thread : /\ state[tid] = "NONREADY"
                                /\ state' = [state EXCEPT ![tid] = "READY"]
      BY <2>2 DEF ThreadRun, InThread, ThreadInv
    <3> QED BY <3>1
  <2>3. CASE ThreadFinish(c)
    <3>1. PICK tid \in Thread : /\ state[tid] = "RUNNING"
                                /\ state' = [state EXCEPT ![tid] = "DYING"]
      BY <2>3 DEF ThreadFinish, InThread, CpuInv
    <3> QED BY <3>1
  <2> QED BY <2>1, <2>2, <2>3 DEF ThreadSwitch, DeviceInterrupt, TimerInterrupt,
         SoftwareInterrupt, InterruptReturn, Resume
<1> QED BY <1>1, <1>2, <1>3, SameQueues DEF Waiting

\* sleepq_add before the lock: the thread is on no chain yet.
LEMMA MarkStep ==
    ASSUME IndInv, NEW c \in CPU, NEW res \in Resource, SleepqAddMark(c, res)
    PROVE  UNCHANGED <<Waiting, Asleep>>
<1> USE ConstantFacts DEF IndInv, Safety, TypeOK, threadVars, listVars, cpuVars, wakeVars
<1>1. PICK me \in Thread : me = current[c] /\ state[me] = "RUNNING" /\ sleeps_on[me] = 0
  BY DEF SleepqAddMark, InThread, CpuInv
<1>2. /\ UNCHANGED <<hashtable, state, wphase, wres, wall, wtid>>
      /\ sleeps_on' = [sleeps_on EXCEPT ![me] = res]
  BY <1>1 DEF SleepqAddMark
<1>3. \A h \in Bucket : ~ InSeq(hashtable[h], me)
  BY <1>1 DEF ChainsExact
<1>4. \A t \in Thread : t # me => sleeps_on'[t] = sleeps_on[t]
  BY <1>2
<1>5. \A r \in Resource : Matches(hashtable[Hash(r)], r)' = Matches(hashtable[Hash(r)], r)
  <2>1. \A t \in Thread : (\E h \in Bucket : InSeq(hashtable[h], t)) => sleeps_on'[t] = sleeps_on[t]
    BY <1>3, <1>4
  <2> QED BY <1>2, <2>1, SameChains
<1>6. /\ \A r : BeingWokenAll(r)' <=> BeingWokenAll(r)
      /\ \A t : BeingWoken(t)' <=> BeingWoken(t)
  BY <1>2 DEF BeingWokenAll, BeingWoken
<1>7. \A r \in Resource : WaitingOn(r)' = WaitingOn(r)
  BY <1>2, <1>5, <1>6 DEF WaitingOn
<1>8. Asleep' = Asleep
  BY <1>1, <1>2, <1>4, <1>6 DEF Asleep
<1> QED BY <1>7, <1>8 DEF Waiting

\* While sleepq_slock is free no wake is under way.
LEMMA LockFree ==
    ASSUME IndInv, sleepq_slock = 0
    PROVE  /\ \A r : ~ BeingWokenAll(r)
           /\ \A t : ~ BeingWoken(t)
           /\ \A c \in CPU : wphase[c] = "none"
BY DEF IndInv, Safety, SleepqMutex, BeingWokenAll, BeingWoken

\* sleepq_add under the lock is Wait.
LEMMA ChainStep ==
    ASSUME IndInv, NEW c \in CPU, SleepqAddChain(c)
    PROVE  \E t \in Thread, r \in Resource : SQ!Wait(t, r)
<1>0. TypeOK /\ Safety /\ ThreadInv /\ sleepq_slock = 0
  BY DEF IndInv, SleepqAddChain
<1>1. PICK me \in Thread : /\ me = current[c] /\ pc[me] = "adding" /\ state[me] = "RUNNING"
                           /\ sleeps_on[me] # 0 /\ ~ Chained(me)
  BY <1>0 DEF SleepqAddChain, InThread, TypeOK, ThreadInv
<1>2. PICK r \in Resource : r = sleeps_on[me]
  BY <1>0, <1>1 DEF TypeOK
<1>3. /\ UNCHANGED <<state, sleeps_on, wphase, wres, wall, wtid>>
      /\ hashtable' = [hashtable EXCEPT ![Hash(r)] = Append(@, me)]
  BY <1>1, <1>2 DEF SleepqAddChain, ChainThread, wakeVars
<1>4. /\ \A x : ~ BeingWokenAll(x) /\ ~ BeingWokenAll(x)'
      /\ \A t : ~ BeingWoken(t) /\ ~ BeingWoken(t)'
  BY <1>0, <1>3, LockFree DEF BeingWokenAll, BeingWoken
<1>5. Asleep' = Asleep /\ me \notin Asleep
  BY <1>1, <1>3, <1>4 DEF Asleep
<1>6. me \notin SQ!Queued
  BY <1>1, QueuedFacts
<1>7. ASSUME NEW x \in Resource
      PROVE  WaitingOn(x)' = IF x = r THEN Append(WaitingOn(r), me) ELSE WaitingOn(x)
  <2>1. PICK s \in Seq(Thread) : s = hashtable[Hash(x)]
    BY <1>0, MatchFacts
  <2>2. PICK M \in SUBSET (1 .. Len(s)) : M = Matches(s, x)
    BY <1>0, <2>1, MatchFacts
  <2>3. Hash(x) \in Bucket /\ Hash(r) \in Bucket
    BY ConstantFacts
  <2>4. WaitingOn(x) = Selected(s, M)
    BY <1>4, <2>1, <2>2 DEF WaitingOn
  <2>5. CASE Hash(x) # Hash(r)
    <3>1. hashtable'[Hash(x)] = s
      BY <1>0, <1>3, <2>1, <2>3, <2>5 DEF TypeOK
    <3>2. WaitingOn(x)' = Selected(s, M)
      BY <1>3, <1>4, <2>2, <3>1 DEF WaitingOn, Matches
    <3> QED BY <2>4, <2>5, <3>2
  <2>6. CASE Hash(x) = Hash(r)
    <3>1. hashtable'[Hash(x)] = Append(s, me)
      BY <1>0, <1>3, <2>1, <2>3, <2>6 DEF TypeOK
    <3>2. /\ Append(s, me) \in Seq(Thread) /\ Len(s) \in Nat
          /\ Len(Append(s, me)) = Len(s) + 1 /\ Append(s, me)[Len(s) + 1] = me
          /\ \A i \in 1 .. Len(s) : Append(s, me)[i] = s[i]
      OBVIOUS
    <3>3. WaitingOn(x)' = Selected(Append(s, me), Matches(Append(s, me), x))
      BY <1>3, <1>4, <3>1 DEF WaitingOn, Matches
    <3>4. CASE x = r
      <4>1. Matches(Append(s, me), x) = M \cup {Len(s) + 1}
        BY <1>2, <2>2, <3>2, <3>4 DEF Matches
      <4>2. Selected(Append(s, me), M \cup {Len(s) + 1}) = Append(Selected(s, M), me)
        BY ONLY s \in Seq(Thread), M \in SUBSET (1 .. Len(s)), me \in Thread,
                ThreadSelected
      <4> QED BY <2>4, <3>3, <3>4, <4>1, <4>2
    <3>5. CASE x # r
      <4>1. Matches(Append(s, me), x) = M
        BY <1>2, <2>2, <3>2, <3>5 DEF Matches
      <4>2. Selected(Append(s, me), M) = Selected(s, M)
        BY ONLY s \in Seq(Thread), M \in SUBSET (1 .. Len(s)), me \in Thread,
                ThreadSelected
      <4> QED BY <2>4, <3>3, <3>5, <4>1, <4>2
    <3> QED BY <3>4, <3>5
  <2> QED BY <2>5, <2>6
<1>8. Waiting' = [Waiting EXCEPT ![r] = Append(@, me)]
  BY <1>7 DEF Waiting
<1>9. SQ!Wait(me, r)
  BY <1>5, <1>6, <1>8 DEF SQ!Wait, Waiting
<1> QED BY <1>9

\* sleepq_wake_all takes effect when it has the lock, sleepq_wake does not.
LEMMA BeginStep ==
    ASSUME IndInv, NEW c \in CPU, NEW res \in Resource, NEW all \in BOOLEAN,
           WakeBegin(c, res, all)
    PROVE  UNCHANGED <<Waiting, Asleep>> \/ SQ!WakeAll(res)
<1>0. TypeOK /\ Safety /\ sleepq_slock = 0
  BY DEF IndInv, WakeBegin, AcquireSleepqLock
<1>1. /\ UNCHANGED <<hashtable, sleeps_on, state>>
      /\ wphase' = [wphase EXCEPT ![c] = "scan"]
      /\ wres' = [wres EXCEPT ![c] = res]
      /\ wall' = [wall EXCEPT ![c] = all]
  BY DEF WakeBegin, threadVars, listVars
<1>2. /\ \A x : ~ BeingWokenAll(x)
      /\ \A t : ~ BeingWoken(t)
      /\ \A d \in CPU : wphase[d] = "none"
  BY <1>0, LockFree
<1>3. \A d \in CPU : wphase'[d] = IF d = c THEN "scan" ELSE "none"
  BY <1>0, <1>1, <1>2 DEF TypeOK
<1>4. \A t : ~ BeingWoken(t)'
  BY <1>3 DEF BeingWoken
<1>5. \A x : BeingWokenAll(x)' <=> (all /\ x = res)
  <2>1. wres'[c] = res /\ wall'[c] = all
    BY <1>0, <1>1 DEF TypeOK
  <2> QED BY <1>3, <2>1 DEF BeingWokenAll
<1>6. \A x : ~ (all /\ x = res) => WaitingOn(x)' = WaitingOn(x)
  BY <1>1, <1>2, <1>5 DEF WaitingOn, Matches
<1>7. CASE ~ all
  <2>1. Asleep' = Asleep
    BY <1>1, <1>2, <1>4, <1>5, <1>7 DEF Asleep
  <2> QED BY <1>6, <1>7, <2>1 DEF Waiting
<1>8. CASE all
  <2>1. WaitingOn(res)' = <<>>
    BY <1>5, <1>8 DEF WaitingOn
  <2>2. Waiting' = [Waiting EXCEPT ![res] = <<>>]
    BY <1>6, <2>1 DEF Waiting
  <2>3. ASSUME NEW t \in Thread, state[t] = "SLEEPING"
        PROVE  t \in SQ!Members(WaitingOn(res)) <=> sleeps_on[t] = res
    <3>1. Chained(t)
      BY <1>0, <1>2, <2>3 DEF Safety, NoLostSleeper
    <3> QED BY <1>0, <1>2, <3>1, QueueFacts
  <2>4. Asleep' = {t \in Thread : state[t] = "SLEEPING" /\ sleeps_on[t] # res}
    BY <1>1, <1>4, <1>5, <1>8 DEF Asleep
  <2>5. Asleep = {t \in Thread : state[t] = "SLEEPING"}
    BY <1>2 DEF Asleep
  <2>6. Asleep' = Asleep \ SQ!Members(WaitingOn(res))
    BY <2>3, <2>4, <2>5
  <2>7. Waiting[res] = WaitingOn(res)
    BY DEF Waiting
  <2> QED BY <2>2, <2>6, <2>7 DEF SQ!WakeAll, Waiting
<1> QED BY <1>7, <1>8

\* The CPU inside sleepq_wake[_all] is the only one.
LEMMA OneWaker ==
    ASSUME IndInv, NEW c \in CPU, wphase[c] # "none"
    PROVE  /\ wres[c] \in Resource
           /\ \A d \in CPU : d # c => wphase[d] = "none"
           /\ \A x : BeingWokenAll(x) <=> (wall[c] /\ x = wres[c])
           /\ \A t : BeingWoken(t) <=> (wphase[c] = "wake" /\ t = wtid[c])
<1>1. \A d \in CPU : d # c => wphase[d] = "none"
  BY DEF IndInv, Safety, SleepqMutex
<1>2. wres[c] \in Resource
  BY DEF IndInv, CpuInv
<1> QED BY <1>1, <1>2 DEF BeingWokenAll, BeingWoken

\* Unlinking is Wake for sleepq_wake, nothing new for sleepq_wake_all.
LEMMA UnlinkStep ==
    ASSUME IndInv, NEW c \in CPU, WakeUnlink(c)
    PROVE  UNCHANGED <<Waiting, Asleep>> \/ \E r \in Resource : SQ!Wake(r)
<1>0. TypeOK /\ Safety /\ wphase[c] = "scan"
  BY DEF IndInv, WakeUnlink
<1>1. PICK r \in Resource : r = wres[c]
  BY <1>0, OneWaker
<1>2. PICK s \in Seq(Thread) : s = hashtable[Hash(r)]
  BY <1>0, MatchFacts
<1>3. PICK M \in SUBSET (1 .. Len(s)) : M = Matches(s, r)
  BY <1>0, <1>2, MatchFacts
<1>4. PICK k \in M :
         /\ \A i \in M : k <= i
         /\ wtid' = [wtid EXCEPT ![c] = s[k]]
         /\ hashtable' = [hashtable EXCEPT ![Hash(r)] = RemoveIdx(@, k)]
  BY <1>1, <1>2, <1>3 DEF WakeUnlink, Unlink
<1>5. /\ wphase' = [wphase EXCEPT ![c] = "wake"]
      /\ UNCHANGED <<sleeps_on, state, wres, wall>>
  BY DEF WakeUnlink, threadVars
<1>6. /\ \A x : BeingWokenAll(x) <=> (wall[c] /\ x = r)
      /\ \A t : ~ BeingWoken(t)
      /\ \A d \in CPU : d # c => wphase[d] = "none"
  BY <1>0, <1>1, OneWaker
<1>7. /\ \A d \in CPU : wphase'[d] = IF d = c THEN "wake" ELSE "none"
      /\ wtid'[c] = s[k]
  BY <1>0, <1>4, <1>5, <1>6 DEF TypeOK
<1>8. /\ \A x : BeingWokenAll(x)' <=> (wall[c] /\ x = r)
      /\ \A t : BeingWoken(t)' <=> t = s[k]
  BY <1>1, <1>5, <1>7 DEF BeingWokenAll, BeingWoken
<1>9. /\ Len(s) \in Nat /\ k \in 1 .. Len(s) /\ s[k] \in Thread /\ sleeps_on[s[k]] = r
      /\ Hash(r) \in Bucket /\ RemoveIdx(s, k) \in Seq(Thread)
  BY <1>3, <1>4, ConstantFacts, RemoveIdxFacts DEF Matches
\* The positions that match x in the shortened chain.
<1>10. ASSUME NEW x \in Resource, NEW N \in SUBSET (1 .. Len(s)),
              N = {i \in 1 .. Len(s) : sleeps_on[s[i]] = x} \ {k}
       PROVE  Selected(RemoveIdx(s, k), Matches(RemoveIdx(s, k), x)') = Selected(s, N)
  <2> DEFINE sh == {IF i < k THEN i ELSE i - 1 : i \in N}
  <2>1. /\ Len(RemoveIdx(s, k)) = Len(s) - 1
        /\ \A i \in 1 .. (Len(s) - 1) : RemoveIdx(s, k)[i] = IF i < k THEN s[i] ELSE s[i + 1]
    BY <1>9 DEF RemoveIdx
  <2>2. Matches(RemoveIdx(s, k), x)'
          = {i \in 1 .. (Len(s) - 1) : sleeps_on[IF i < k THEN s[i] ELSE s[i + 1]] = x}
    BY <1>5, <2>1 DEF Matches
  <2>3. ASSUME NEW j \in sh PROVE j \in Matches(RemoveIdx(s, k), x)'
    <3>1. PICK i \in N : j = IF i < k THEN i ELSE i - 1
      OBVIOUS
    <3>2. i \in 1 .. Len(s) /\ i # k /\ sleeps_on[s[i]] = x
      BY <1>10
    <3>3. j \in 1 .. (Len(s) - 1)
      BY ONLY <3>1, <3>2, <1>9
    <3>4. (IF j < k THEN s[j] ELSE s[j + 1]) = s[i]
      BY ONLY <3>1, <3>2, <1>9
    <3> QED BY <2>2, <3>2, <3>3, <3>4
  <2>4. ASSUME NEW j \in Matches(RemoveIdx(s, k), x)' PROVE j \in sh
    <3>1. j \in 1 .. (Len(s) - 1) /\ sleeps_on[IF j < k THEN s[j] ELSE s[j + 1]] = x
      BY <2>2
    <3>2. PICK i \in 1 .. Len(s) : i = IF j < k THEN j ELSE j + 1
      BY <3>1, <1>9
    <3>3. i # k /\ j = IF i < k THEN i ELSE i - 1
      BY ONLY <3>1, <3>2, <1>9
    <3>4. sleeps_on[s[i]] = x
      BY <3>1, <3>2
    <3>5. i \in N
      BY <1>10, <3>3, <3>4
    <3> QED BY <3>3, <3>5
  <2>5. Matches(RemoveIdx(s, k), x)' = sh
    BY <2>3, <2>4
  <2>6. k \notin N
    BY <1>10
  <2>7. Selected(RemoveIdx(s, k), sh) = Selected(s, N)
    BY ONLY s \in Seq(Thread), N \in SUBSET (1 .. Len(s)), <2>6, <1>9, ThreadSelected
  <2> QED BY <2>5, <2>7
<1>11. /\ hashtable'[Hash(r)] = RemoveIdx(s, k)
       /\ \A x \in Resource : Hash(x) # Hash(r) => hashtable'[Hash(x)] = hashtable[Hash(x)]
  BY <1>0, <1>2, <1>4, <1>9, ConstantFacts DEF TypeOK
<1>12. ASSUME NEW x \in Resource, x # r PROVE WaitingOn(x)' = WaitingOn(x)
  <2>1. ~ BeingWokenAll(x) /\ ~ BeingWokenAll(x)'
    BY <1>6, <1>8, <1>12
  <2>2. CASE Hash(x) # Hash(r)
    <3>1. hashtable'[Hash(x)] = hashtable[Hash(x)]
      BY <1>11, <2>2
    <3> QED BY <1>5, <2>1, <3>1 DEF WaitingOn, Matches
  <2>3. CASE Hash(x) = Hash(r)
    <3>1. PICK N \in SUBSET (1 .. Len(s)) : N = {i \in 1 .. Len(s) : sleeps_on[s[i]] = x}
      OBVIOUS
    <3>2. k \notin N /\ N = {i \in 1 .. Len(s) : sleeps_on[s[i]] = x} \ {k}
      BY <1>9, <1>12, <3>1
    <3>3. WaitingOn(x) = Selected(s, N)
      BY <1>2, <2>1, <2>3, <3>1 DEF WaitingOn, Matches
    <3>4. WaitingOn(x)' = Selected(RemoveIdx(s, k), Matches(RemoveIdx(s, k), x)')
      BY <1>11, <2>1, <2>3 DEF WaitingOn, Matches
    <3>5. Selected(RemoveIdx(s, k), Matches(RemoveIdx(s, k), x)') = Selected(s, N)
      BY <1>10, <3>2
    <3> QED BY <3>3, <3>4, <3>5
  <2> QED BY <2>2, <2>3
<1>13. CASE wall[c]
  <2>1. WaitingOn(r)' = WaitingOn(r)
    BY <1>6, <1>8, <1>13 DEF WaitingOn
  <2>2. Asleep' = Asleep
    BY <1>5, <1>6, <1>8, <1>9, <1>13 DEF Asleep
  <2> QED BY <1>12, <2>1, <2>2 DEF Waiting
<1>14. CASE ~ wall[c]
  <2>1. ~ BeingWokenAll(r) /\ ~ BeingWokenAll(r)'
    BY <1>6, <1>8, <1>14
  <2>2. WaitingOn(r) = Selected(s, M)
    BY <1>2, <1>3, <2>1 DEF WaitingOn
  <2>3. WaitingOn(r)' = Selected(RemoveIdx(s, k), Matches(RemoveIdx(s, k), r)')
    BY <1>11, <2>1 DEF WaitingOn, Matches
  <2>4. PICK N \in SUBSET (1 .. Len(s)) : N = M \ {k}
    OBVIOUS
  <2>5. N = {i \in 1 .. Len(s) : sleeps_on[s[i]] = r} \ {k}
    BY <1>3, <2>4 DEF Matches
  <2>6. Selected(RemoveIdx(s, k), Matches(RemoveIdx(s, k), r)') = Selected(s, N)
    BY <1>10, <2>5
  <2>7. /\ Selected(s, M) # <<>> /\ Head(Selected(s, M)) = s[k]
        /\ Selected(s, M \ {k}) = Tail(Selected(s, M))
    BY ONLY s \in Seq(Thread), M \in SUBSET (1 .. Len(s)), k \in M, <1>4, ThreadSelected
  <2>8. WaitingOn(r)' = Tail(WaitingOn(r)) /\ WaitingOn(r) # <<>> /\ Head(WaitingOn(r)) = s[k]
    BY <2>2, <2>3, <2>4, <2>6, <2>7
  <2>9. Waiting' = [Waiting EXCEPT ![r] = Tail(@)]
    BY <1>12, <2>8 DEF Waiting
  <2>10. Asleep' = Asleep \ {s[k]}
    BY <1>5, <1>6, <1>8, <1>14 DEF Asleep
  <2>11. SQ!Wake(r)
    BY <2>8, <2>9, <2>10 DEF SQ!Wake, Waiting
  <2> QED BY <2>11
<1> QED BY <1>13, <1>14

\* sleepq_wake[_all] that finds nobody: the queue was empty.
LEMMA DoneStep ==
    ASSUME IndInv, NEW c \in CPU, WakeDone(c)
    PROVE  UNCHANGED <<Waiting, Asleep>>
<1>0. TypeOK /\ Safety /\ wphase[c] = "scan"
  BY DEF IndInv, WakeDone
<1>1. PICK r \in Resource : r = wres[c]
  BY <1>0, OneWaker
<1>2. /\ \A x : BeingWokenAll(x) <=> (wall[c] /\ x = r)
      /\ \A t : ~ BeingWoken(t)
      /\ \A d \in CPU : d # c => wphase[d] = "none"
  BY <1>0, <1>1, OneWaker
<1>3. /\ UNCHANGED <<hashtable, sleeps_on, state>>
      /\ wphase' = [wphase EXCEPT ![c] = "none"]
      /\ Matches(hashtable[Hash(r)], r) = {}
  BY <1>1 DEF WakeDone, WakeReturns, threadVars, listVars
<1>4. \A d \in CPU : wphase'[d] = "none"
  BY <1>0, <1>2, <1>3 DEF TypeOK
<1>5. (\A x : ~ BeingWokenAll(x)') /\ (\A t : ~ BeingWoken(t)')
  BY <1>4 DEF BeingWokenAll, BeingWoken
<1>6. \A x : x # r => WaitingOn(x)' = WaitingOn(x)
  BY <1>2, <1>3, <1>5 DEF WaitingOn, Matches
<1>7. WaitingOn(r)' = WaitingOn(r)
  <2>1. Selected(hashtable[Hash(r)], {}) = <<>>
    <3>1. Cardinality({}) = 0
      BY FS_EmptySet
    <3>2. 1 .. 0 = {}
      OBVIOUS
    <3>3. Selected(hashtable[Hash(r)], {}) = [k \in {} |-> hashtable[Hash(r)][Kth({}, k)]]
      BY <3>1, <3>2 DEF Selected
    <3> QED BY <3>3
  <2>2. WaitingOn(r) = <<>>
    BY <1>3, <2>1 DEF WaitingOn
  <2>3. WaitingOn(r)' = <<>>
    BY <1>3, <1>5, <2>1 DEF WaitingOn, Matches
  <2> QED BY <2>2, <2>3
<1>8. ASSUME NEW t \in Thread, state[t] = "SLEEPING" PROVE sleeps_on[t] # r
  <2>1. Chained(t)
    BY <1>0, <1>2, <1>8 DEF Safety, NoLostSleeper
  <2> QED BY <1>3, <2>1 DEF Chained, InSeq, Matches
<1>9. Asleep' = Asleep
  BY <1>2, <1>3, <1>5, <1>8 DEF Asleep
<1> QED BY <1>6, <1>7, <1>9 DEF Waiting

\* Making the unlinked thread runnable changes no queue: it left its own when
\* it was unlinked.
LEMMA ReadyStep ==
    ASSUME IndInv, NEW c \in CPU, WakeReady(c)
    PROVE  UNCHANGED <<Waiting, Asleep>>
<1>0. TypeOK /\ Safety /\ CpuInv /\ wphase[c] = "wake"
  BY DEF IndInv, WakeReady
<1>1. PICK r \in Resource : r = wres[c]
  BY <1>0, OneWaker
<1>2. PICK t \in Thread : t = wtid[c]
  BY <1>0 DEF TypeOK
<1>3. /\ \A x : BeingWokenAll(x) <=> (wall[c] /\ x = r)
      /\ \A u : BeingWoken(u) <=> u = t
      /\ \A d \in CPU : d # c => wphase[d] = "none"
  BY <1>0, <1>1, <1>2, OneWaker
<1>4. /\ UNCHANGED hashtable
      /\ sleeps_on' = [sleeps_on EXCEPT ![t] = 0]
      /\ \A u \in Thread : u # t => state'[u] = state[u]
      /\ state'[t] # "SLEEPING"
  BY <1>0, <1>2 DEF WakeReady, MakeRunnable, TypeOK
<1>5. sleeps_on[t] = r /\ ~ Chained(t)
  BY <1>0, <1>1, <1>2 DEF CpuInv
<1>6. \A x \in Resource : Matches(hashtable[Hash(x)], x)' = Matches(hashtable[Hash(x)], x)
  <2>1. \A h \in Bucket : ~ InSeq(hashtable[h], t)
    BY <1>0, <1>5 DEF Safety, ChainsExact, Chained
  <2>2. \A u \in Thread : u # t => sleeps_on'[u] = sleeps_on[u]
    BY <1>0, <1>4 DEF TypeOK
  <2>3. \A u \in Thread : (\E h \in Bucket : InSeq(hashtable[h], u)) => sleeps_on'[u] = sleeps_on[u]
    BY <2>1, <2>2
  <2> QED BY <1>0, <1>4, <2>3, SameChains
<1>7. \A u : ~ BeingWoken(u)'
  <2>1. \A d \in CPU : wphase'[d] # "wake"
    BY <1>0, <1>3, SMTT(30) DEF WakeReady, WakeGoesOn, WakeReturns, TypeOK
  <2> QED BY <2>1 DEF BeingWoken
<1>8. CASE wall[c]
  <2>1. /\ wphase' = [wphase EXCEPT ![c] = "scan"]
        /\ UNCHANGED <<wres, wall>>
    BY <1>8 DEF WakeReady, WakeGoesOn
  <2>2. \A x : BeingWokenAll(x)' <=> x = r
    <3>1. \A d \in CPU : wphase'[d] = IF d = c THEN "scan" ELSE "none"
      BY <1>0, <1>3, <2>1 DEF TypeOK
    <3> QED BY <1>1, <1>8, <2>1, <3>1 DEF BeingWokenAll
  <2>3. \A x \in Resource : WaitingOn(x)' = WaitingOn(x)
    BY <1>3, <1>4, <1>6, <1>8, <2>2 DEF WaitingOn
  <2>4. ASSUME NEW u \in Thread PROVE u \in Asleep' <=> u \in Asleep
    <3>1. CASE u = t
      BY <1>3, <1>4, <3>1 DEF Asleep
    <3>2. CASE u # t
      <4>1. state'[u] = state[u] /\ sleeps_on'[u] = sleeps_on[u]
        BY <1>0, <1>4, <3>2 DEF TypeOK
      <4> QED BY <1>3, <1>7, <1>8, <2>2, <3>2, <4>1 DEF Asleep
    <3> QED BY <3>1, <3>2
  <2>5. Asleep' = Asleep
    BY <2>4 DEF Asleep
  <2> QED BY <2>3, <2>5 DEF Waiting
<1>9. CASE ~ wall[c]
  <2>1. wphase' = [wphase EXCEPT ![c] = "none"]
    BY <1>9 DEF WakeReady, WakeGoesOn, WakeReturns
  <2>2. \A x : ~ BeingWokenAll(x)'
    <3>1. \A d \in CPU : wphase'[d] = "none"
      BY <1>0, <1>3, <2>1 DEF TypeOK
    <3> QED BY <3>1 DEF BeingWokenAll
  <2>3. \A x \in Resource : WaitingOn(x)' = WaitingOn(x)
    BY <1>3, <1>4, <1>6, <1>9, <2>2 DEF WaitingOn
  <2>4. ASSUME NEW u \in Thread PROVE u \in Asleep' <=> u \in Asleep
    <3>1. CASE u = t
      BY <1>3, <1>4, <3>1 DEF Asleep
    <3>2. CASE u # t
      <4>1. state'[u] = state[u] /\ sleeps_on'[u] = sleeps_on[u]
        BY <1>0, <1>4, <3>2 DEF TypeOK
      <4> QED BY <1>3, <1>7, <1>9, <2>2, <3>2, <4>1 DEF Asleep
    <3> QED BY <3>1, <3>2
  <2>5. Asleep' = Asleep
    BY <2>4 DEF Asleep
  <2> QED BY <2>3, <2>5 DEF Waiting
<1> QED BY <1>8, <1>9

\* The scheduler puts a thread to sleep that waits, or lets a woken one pass.
LEMMA PutToSleepStep ==
    ASSUME IndInv, NEW c \in CPU, Schedule(c)
    PROVE  UNCHANGED <<Waiting, Asleep>> \/ SQ!Sleep(current[c])
<1>0. TypeOK /\ Safety /\ ThreadInv /\ CpuInv /\ mode[c] \in {"sched", "intr"}
  BY DEF IndInv, Schedule
<1>1. PICK me \in Thread : me = current[c]
  BY <1>0 DEF TypeOK
<1>2. PICK rq \in Seq(Thread) : rq = ReadyAfterLeaving(me)
  BY <1>0, AppendFacts DEF ReadyAfterLeaving, TypeOK
<1>3. PICK t \in Thread : t = IF rq = <<>> THEN Idle ELSE Head(rq)
  BY TailFacts, ConstantFacts
<1>4. /\ state' = [state EXCEPT ![me] = LeavingState(me), ![t] = "RUNNING"]
      /\ UNCHANGED <<sleeps_on, hashtable, wphase, wres, wall, wtid>>
  BY <1>1, <1>2, <1>3 DEF Schedule, wakeVars
<1>5. /\ \A x : WaitingOn(x)' = WaitingOn(x) /\ (BeingWokenAll(x)' <=> BeingWokenAll(x))
      /\ \A u : BeingWoken(u)' <=> BeingWoken(u)
      /\ (\A u \in Thread : state'[u] = "SLEEPING" <=> state[u] = "SLEEPING") => Asleep' = Asleep
  BY <1>4, SameQueues
<1>6. state[me] # "SLEEPING"
  <2>1. mode[c] # "picked" /\ OnCpu(c) = me
    BY <1>0, <1>1 DEF OnCpu
  <2>2. me = Idle => state[me] \in {"READY", "RUNNING"}
    BY <1>0 DEF ThreadInv
  <2>3. me # Idle => state[me] \in {"RUNNING", "DYING"}
    BY <1>0, <2>1 DEF Safety, OnCpuIsRunning
  <2> QED BY <2>2, <2>3
<1>7. t # me => state[t] # "SLEEPING"
  <2>1. CASE rq = <<>>
    BY <1>0, <1>3, <2>1 DEF ThreadInv
  <2>2. CASE rq # <<>>
    <3>1. InSeq(rq, t)
      BY <1>3, <2>2, TailFacts
    <3>2. InSeq(rq, t) => InSeq(ready_to_run, t) \/ t = me
      BY <1>0, <1>2, AppendFacts DEF ReadyAfterLeaving, TypeOK
    <3> QED BY <1>0, <3>1, <3>2 DEF Safety, ReadyListExact
  <2> QED BY <2>1, <2>2
<1>8. \A u \in Thread : u # me => (state'[u] = "SLEEPING" <=> state[u] = "SLEEPING")
  BY <1>0, <1>4, <1>7 DEF TypeOK
<1>9. CASE LeavingState(me) # "SLEEPING"
  <2>1. state'[me] # "SLEEPING"
    BY <1>0, <1>4, <1>9 DEF TypeOK
  <2> QED BY <1>5, <1>6, <1>8, <2>1 DEF Waiting
<1>10. CASE LeavingState(me) = "SLEEPING"
  <2>1. sleeps_on[me] # 0 /\ pc[me] # "adding" /\ me # Idle
    BY <1>0, <1>1, <1>10 DEF LeavingState, CpuInv, ThreadInv
  <2>2. state[me] = "RUNNING" /\ (Chained(me) \/ BeingWoken(me)) /\ sleeps_on[me] \in Resource
    BY <1>0, <1>6, <2>1 DEF ThreadInv, TypeOK
  <2>3. t # me
    <3>1. rq = ready_to_run
      BY <1>2, <1>10 DEF ReadyAfterLeaving
    <3>2. rq # <<>> => InSeq(rq, t)
      BY <1>3, TailFacts
    <3> QED BY <1>0, <1>3, <2>1, <2>2, <3>1, <3>2 DEF Safety, ReadyListExact
  <2>4. state'[me] = "SLEEPING"
    BY <1>0, <1>4, <1>10, <2>3 DEF TypeOK
  <2>5. \A u \in Thread : u # me => (u \in Asleep' <=> u \in Asleep)
    BY <1>4, <1>5, <1>8 DEF Asleep
  <2>6. CASE BeingWoken(me) \/ BeingWokenAll(sleeps_on[me])
    <3>1. me \notin Asleep /\ me \notin Asleep'
      BY <1>4, <1>5, <1>6, <2>6 DEF Asleep
    <3>2. Asleep' = Asleep
      BY <2>5, <3>1 DEF Asleep
    <3> QED BY <1>5, <3>2 DEF Waiting
  <2>7. CASE ~ BeingWoken(me) /\ ~ BeingWokenAll(sleeps_on[me])
    <3>1. me \in SQ!Queued
      BY <2>2, <2>7, QueuedFacts
    <3>2. me \in Asleep'
      BY <1>4, <1>5, <2>4, <2>7 DEF Asleep
    <3>3. Asleep' = Asleep \cup {me}
      BY <2>5, <3>2 DEF Asleep
    <3>4. Waiting' = Waiting
      BY <1>5 DEF Waiting
    <3>5. SQ!Sleep(me)
      BY <3>1, <3>3, <3>4 DEF SQ!Sleep, Waiting
    <3> QED BY <1>1, <3>5
  <2> QED BY <2>6, <2>7
<1> QED BY <1>9, <1>10

LEMMA InitMapped == Init => SQ!Init
<1> SUFFICES ASSUME Init PROVE SQ!Init
  OBVIOUS
<1>1. TypeOK
  BY InitType
<1>2. Asleep = {}
  BY DEF Init, Asleep
<1>3. ASSUME NEW r \in Resource PROVE WaitingOn(r) = <<>>
  <2>1. hashtable[Hash(r)] = <<>> /\ ~ BeingWokenAll(r)
    BY ConstantFacts DEF Init, BeingWokenAll
  <2>2. Matches(<<>>, r) = {}
    BY DEF Matches
  <2>3. Selected(<<>>, {}) = <<>>
    <3>1. Cardinality({}) = 0
      BY FS_EmptySet
    <3>2. 1 .. 0 = {}
      OBVIOUS
    <3>3. \A s : Selected(s, {}) = [k \in {} |-> s[Kth({}, k)]]
      BY <3>1, <3>2 DEF Selected
    <3> QED BY <3>3
  <2> QED BY <2>1, <2>2, <2>3 DEF WaitingOn
<1>4. [r \in Resource |-> WaitingOn(r)] = [r \in Resource |-> <<>>]
  BY <1>3
<1> QED BY <1>2, <1>4 DEF SQ!Init

LEMMA StepMapped == IndInv /\ [Next]_vars => [SQ!Next]_<<Waiting, Asleep>>
<1> SUFFICES ASSUME IndInv, [Next]_vars PROVE SQ!Next \/ UNCHANGED <<Waiting, Asleep>>
  OBVIOUS
<1>0. CASE UNCHANGED vars
  <2>1. UNCHANGED <<hashtable, sleeps_on, wphase, wres, wall, wtid, state>>
    BY <1>0 DEF vars, threadVars, listVars, cpuVars, wakeVars
  <2> QED BY <2>1, SameQueues DEF Waiting
<1>1. CASE Next
  <2>1. PICK c \in CPU : ThreadStep(c) \/ WakeStep(c) \/ InterruptStep(c)
    BY <1>1 DEF Next
  <2>2. ASSUME NEW res \in Resource, SleepqAddMark(c, res) PROVE UNCHANGED <<Waiting, Asleep>>
    BY <2>2, MarkStep
  <2>3. CASE SleepqAddChain(c)
    BY <2>3, ChainStep DEF SQ!Next
  <2>4. ASSUME NEW res \in Resource, NEW all \in BOOLEAN, WakeBegin(c, res, all)
        PROVE  SQ!Next \/ UNCHANGED <<Waiting, Asleep>>
    BY <2>4, BeginStep DEF SQ!Next
  <2>5. CASE WakeUnlink(c)
    BY <2>5, UnlinkStep DEF SQ!Next
  <2>6. CASE WakeDone(c)
    BY <2>6, DoneStep
  <2>7. CASE WakeReady(c)
    BY <2>7, ReadyStep
  <2>8. CASE Schedule(c)
    <3>1. current[c] \in Thread
      BY DEF IndInv, TypeOK
    <3> QED BY <2>8, <3>1, PutToSleepStep DEF SQ!Next
  <2>9. CASE \/ ThreadCreate(c) \/ ThreadRun(c) \/ ThreadFinish(c) \/ ThreadSwitch(c)
             \/ DeviceInterrupt(c) \/ TimerInterrupt(c) \/ SoftwareInterrupt(c)
             \/ InterruptReturn(c) \/ Resume(c)
    BY <2>9, QuietStep
  <2> QED BY <2>1, <2>2, <2>3, <2>4, <2>5, <2>6, <2>7, <2>8, <2>9
          DEF ThreadStep, WakeStep, InterruptStep
<1> QED BY <1>0, <1>1

\* The locks, hash chains and late scheduling of sleepq.c and scheduler.c
\* implement the first-come-first-served queues of SleepQueueSpec, on any
\* number of CPUs, threads, resources and buckets: no wake is lost between
\* sleepq_add and the scheduler, and none takes effect twice.
THEOREM SleepQueueImplemented == Spec => ImplementsSleepQueue
<1>1. Init => SQ!Init
  BY InitMapped
<1>2. IndInv /\ [Next]_vars => [SQ!Next]_<<[r \in Resource |-> WaitingOn(r)], Asleep>>
  BY StepMapped DEF Waiting
<1>3. Init => IndInv
  BY InitInv
<1>4. IndInv /\ [Next]_vars => IndInv'
  BY InvStep
<1> QED BY <1>1, <1>2, <1>3, <1>4, PTL DEF Spec, ImplementsSleepQueue, SQ!Spec

=============================================================================
