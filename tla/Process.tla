------------------------------- MODULE Process -------------------------------
(***************************************************************************)
(* The process table of proc/process.c: process_spawn, process_join and    *)
(* process_finish, called by userland processes and by the startup thread  *)
(* of init/main.c.                                                         *)
(*                                                                         *)
(* A section under process_table_slock is one step; what the code does     *)
(* without the lock (filling in a new row, the checks at the start of      *)
(* process_join) is a step of its own.  The sleep queue is used as         *)
(* SleepQueueSpec promises: one first-come-first-served queue per row.     *)
(***************************************************************************)
EXTENDS Integers, Sequences, FiniteSets

CONSTANTS
    MaxProcesses,     \* PROCESS_MAX_PROCESSES
    JoinsOwnOnly,     \* programs join only process IDs spawn gave them
    Workloads         \* the kinds of programs that run

ASSUME ProcessAssumption ==
    /\ MaxProcesses \in Nat \ {0}
    /\ JoinsOwnOnly \in BOOLEAN
    /\ Workloads \subseteq [rows : Nat, joins : BOOLEAN, codes : SUBSET Int]

VARIABLES
    table,    \* process_table
    pc,       \* where the thread of each process is
    arg,      \* the row its spawn or join call works on
    waitq,    \* threads sleeping on each row
    code,     \* history: what the last process in a row passed to exit
    maker,    \* history: who spawned the process in a row
    load      \* the workload: the bound on the rows in use, whether programs join
              \* all their children before they exit, and the codes they exit with

vars == <<table, pc, arg, waitq, code, maker, load>>

None == -1
Startup == -1                     \* the startup thread has process_id -1
Valid == 0 .. (MaxProcesses - 1)  \* the rows the table is declared with
Row   == 0 .. MaxProcesses        \* the rows alloc_process_id looks at
Slot  == -1 .. MaxProcesses       \* the rows any of the code touches
Actor == Slot
Gone  == -2                       \* maker of a process whose spawner is gone

\* Zeroed memory, and process_init.  The memory before and after the declared
\* rows belongs to other variables: before them, whatever first_zombie reads.
BlankRow == [state |-> "FREE", retval |-> 0, parent |-> 0, first_zombie |-> 0,
             prev_zombie |-> 0, next_zombie |-> 0, children |-> 0]

Init ==
    /\ \E other \in {0, None} :
          table = [p \in Slot |-> IF p \in Row THEN BlankRow
                                  ELSE [BlankRow EXCEPT !.first_zombie = other]]
    /\ pc = [a \in Actor |-> IF a = Startup THEN "boot" ELSE "none"]
    /\ arg = [a \in Actor |-> None]
    /\ waitq = [p \in Slot |-> <<>>]
    /\ code = [p \in Slot |-> 0]
    /\ maker = [p \in Slot |-> Gone]
    /\ load \in Workloads

-----------------------------------------------------------------------------
(* process_spawn *)

Occupied == {p \in Row : table[p].state # "FREE"}

\* alloc_process_id: the first free row.
FirstFree(p) ==
    /\ table[p].state = "FREE"
    /\ \A q \in Row : q < p => table[q].state # "FREE"

\* Without a free row the call returns -1 and changes nothing.
SpawnAlloc(a) ==
    /\ pc[a] \in {"user", "boot"}
    /\ Cardinality(Occupied) < load.rows
    /\ \E p \in Row :
          /\ FirstFree(p)
          /\ table' = [table EXCEPT ![p].state = "RUNNING", ![p].retval = 0]
          /\ pc' = [pc EXCEPT ![a] = IF a = Startup THEN "boot_fill" ELSE "fill"]
          /\ arg' = [arg EXCEPT ![a] = p]
          /\ maker' = [q \in Slot |-> IF q = p THEN a
                                      ELSE IF maker[q] = p THEN Gone ELSE maker[q]]
    /\ UNCHANGED <<waitq, code, load>>

NewRow(row, a) ==
    [row EXCEPT !.retval = 0, !.first_zombie = None, !.prev_zombie = None,
                !.next_zombie = None, !.parent = a, !.children = 0]

SpawnFill(a) ==
    /\ pc[a] \in {"fill", "boot_fill"}
    /\ table' = [table EXCEPT ![arg[a]] = NewRow(@, a)]
    /\ pc' = [pc EXCEPT ![a] = IF a = Startup THEN "boot_count" ELSE "count"]
    /\ UNCHANGED <<arg, waitq, code, maker, load>>

CountChild(a) ==
    table' = IF a >= 0 THEN [table EXCEPT ![a].children = @ + 1] ELSE table

\* The child is counted under the lock, then its thread is created and run.
\* The startup thread goes on to join it.
SpawnRun(a) ==
    /\ pc[a] \in {"count", "boot_count"}
    /\ CountChild(a)
    /\ pc' = [pc EXCEPT ![a] = IF a = Startup THEN "boot_join" ELSE "user",
                        ![arg[a]] = "user"]
    /\ UNCHANGED <<arg, waitq, code, maker, load>>

-----------------------------------------------------------------------------
(* process_join *)

MayJoin(a, p) == p \in Valid /\ table[p].parent = a

\* The checks before the lock.  A call that fails them returns -1.
JoinCheck(a, p) ==
    /\ \/ pc[a] = "user" /\ (JoinsOwnOnly => maker[p] = a)
       \/ pc[a] = "boot_join" /\ p = arg[a]
    /\ MayJoin(a, p)
    /\ pc' = [pc EXCEPT ![a] = "join"]
    /\ arg' = [arg EXCEPT ![a] = p]
    /\ UNCHANGED <<table, waitq, code, maker, load>>

MustWait(p) == table[p].state # "ZOMBIE"

JoinWait(a) ==
    /\ pc[a] = "join"
    /\ MustWait(arg[a])
    /\ waitq' = [waitq EXCEPT ![arg[a]] = Append(@, a)]
    /\ pc' = [pc EXCEPT ![a] = "asleep"]
    /\ UNCHANGED <<table, arg, code, maker, load>>

\* Fault: the first zombie is taken off without touching its successor.
UnlinkZombie_NoBackLink(t, a, p) ==
    LET prev == t[p].prev_zombie
        next == t[p].next_zombie
    IN  IF t[a].first_zombie = p
        THEN [t EXCEPT ![a].first_zombie = next]
        ELSE [q \in Slot |->
                CASE q = prev -> [t[q] EXCEPT !.next_zombie = next]
                  [] q = next /\ q # prev -> [t[q] EXCEPT !.prev_zombie = prev]
                  [] OTHER -> t[q]]

\* Take zombie p off the list of process a.  A negative next is left alone, a
\* negative prev is not.
UnlinkZombie(t, a, p) ==
    LET prev == t[p].prev_zombie
        next == t[p].next_zombie
        SetPrev(u, v) == IF next >= 0 THEN [u EXCEPT ![next].prev_zombie = v] ELSE u
    IN  IF t[a].first_zombie = p
        THEN SetPrev([t EXCEPT ![a].first_zombie = next], None)
        ELSE SetPrev([t EXCEPT ![prev].next_zombie = next], prev)

\* Fault: the parent field survives the join.
Joined_KeepsParent(p) == [table EXCEPT ![p].retval = -1]

Joined(p) == [table EXCEPT ![p].retval = -1, ![p].parent = None]

\* The child is a zombie: it is marked joined and, when it has no children
\* of its own, unlinked and freed.
JoinReap(a) ==
    /\ pc[a] = "join"
    /\ ~ MustWait(arg[a])
    /\ LET p == arg[a]
           t == Joined(p)
       IN  table' = IF t[p].children = 0
                    THEN [UnlinkZombie([t EXCEPT ![a].children = @ - 1], a, p)
                            EXCEPT ![p].state = "FREE", ![p].retval = 0]
                    ELSE t
    /\ pc' = [pc EXCEPT ![a] = IF a = Startup THEN "halt" ELSE "user"]
    /\ UNCHANGED <<arg, waitq, code, maker, load>>

-----------------------------------------------------------------------------
(* process_finish *)

\* S has the first zombie of p, and with a zombie the next one.
HasZombies(t, p, S) ==
    /\ t[p].first_zombie >= 0 => t[p].first_zombie \in S
    /\ \A q \in S : t[q].next_zombie >= 0 => t[q].next_zombie \in S

\* The zombie children of p: what next_zombie leads to from first_zombie.
Zombies(t, p) == {q \in Row : \A S \in SUBSET Row : HasZombies(t, p, S) => q \in S}

\* The loop that frees the zombie children of the finishing process.
FreeZombies(t, p) ==
    LET zombies == Zombies(t, p)
    IN  [q \in Slot |->
            IF q \in zombies
            THEN [t[q] EXCEPT !.state = "FREE", !.retval = -1, !.parent = None]
            ELSE IF q = p
            THEN [t[p] EXCEPT !.first_zombie = None, !.children = @ - Cardinality(zombies)]
            ELSE t[q]]

\* finish_given_process(p, 0) for a joined zombie p: its parent is -1
\* (JoinedHasNoParent), so it takes the last branch.
FinishJoined(t, p) ==
    [FreeZombies([t EXCEPT ![p].retval = 0], p) EXCEPT ![p].state = "ZOMBIE"]

LinkZombie(t, parent, p) ==
    LET first == t[parent].first_zombie
        u == [t EXCEPT ![p].state = "ZOMBIE", ![p].next_zombie = first,
                       ![parent].first_zombie = p]
    IN  IF first >= 0 THEN [u EXCEPT ![first].prev_zombie = p] ELSE u

LastOfJoined(t, parent) ==
    t[parent].children = 1 /\ t[parent].retval < 0

\* Fault: the parent's state is not looked at.
ParentGone_Ignored(t, parent) == parent >= 0

ParentGone(t, parent) == parent >= 0 /\ t[parent].state = "ZOMBIE"

\* finish_given_process.
FinishGiven(p, retval) ==
    LET parent == table[p].parent
        t == FreeZombies([table EXCEPT ![p].retval = retval], p)
        u == [t EXCEPT ![parent].children = @ - 1]
    IN  IF ParentGone(t, parent)
        THEN [(IF LastOfJoined(t, parent) THEN FinishJoined(u, parent) ELSE u)
                EXCEPT ![p].state = "FREE"]
        ELSE IF parent >= 0 THEN LinkZombie(t, parent, p)
        ELSE [t EXCEPT ![p].state = "ZOMBIE"]

\* sleepq_wake on the row: its first sleeper.
Woken(p) == IF waitq[p] = <<>> THEN {} ELSE {Head(waitq[p])}

\* Fault: a negative exit code is passed on.
ExitValue_Unchecked(c) == c

ExitValue(c) == IF c < 0 THEN 0 ELSE c

Finish(p, c) ==
    /\ p >= 0 /\ pc[p] = "user"
    /\ load.joins => table[p].children = 0
    /\ table' = FinishGiven(p, ExitValue(c))
    /\ code' = [code EXCEPT ![p] = ExitValue(c)]
    /\ pc' = [a \in Actor |-> IF a = p THEN "none"
                              ELSE IF a \in Woken(p) THEN "join" ELSE pc[a]]
    /\ waitq' = [waitq EXCEPT ![p] = IF @ = <<>> THEN @ ELSE Tail(@)]
    /\ arg' = [arg EXCEPT ![p] = None]
    /\ UNCHANGED <<maker, load>>

-----------------------------------------------------------------------------
Step(a) ==
    \/ SpawnAlloc(a) \/ SpawnFill(a) \/ SpawnRun(a)
    \/ \E p \in Row : JoinCheck(a, p)
    \/ JoinWait(a) \/ JoinReap(a)
    \/ \E c \in load.codes : Finish(a, c)

Next == \E a \in Actor : Step(a)

Spec == Init /\ [][Next]_vars

-----------------------------------------------------------------------------
(* What is checked *)

PC == {"none", "user", "fill", "count", "join", "asleep",
       "boot", "boot_fill", "boot_count", "boot_join", "halt"}

\* Every variable has its type; links name rows or are -1.
TypeOK ==
    /\ load \in Workloads
    /\ table \in [Slot -> [state : {"FREE", "RUNNING", "ZOMBIE"}, retval : Int,
                           parent : Slot, first_zombie : Slot, prev_zombie : Slot,
                           next_zombie : Slot, children : Int]]
    /\ pc \in [Actor -> PC]
    /\ arg \in [Actor -> Slot]
    /\ waitq \in [Slot -> Seq(Actor)]
    /\ code \in [Slot -> Nat]
    /\ maker \in [Slot -> Slot \cup {Gone}]

\* process_spawn of some process is filling in row p.
BeingFilled(p) ==
    \E a \in Actor : /\ arg[a] = p
                     /\ pc[a] \in {"fill", "count", "boot_fill", "boot_count"}

\* Rows that are RUNNING and only those belong to a process that runs or is
\* being spawned: no exit, join or clean-up of another process frees them,
\* links them as zombies or leaves one behind (finish_given_process).
RunningRowsAreLive ==
    \A p \in Row : table[p].state = "RUNNING" <=> pc[p] # "none" \/ BeingFilled(p)

\* The processes p spawned that are still in the table, joined or not: a
\* joined one stays while it has children of its own.
Spawned(p) ==
    {q \in Row : maker[q] = p /\ table[q].state # "FREE"
                 /\ ~ (pc[p] \in {"fill", "count"} /\ arg[p] = q)}

\* The children field of a running process counts the children it has in
\* the table, whatever order they exit and are joined in.
ChildrenExact ==
    \A p \in Row : pc[p] # "none" => table[p].children = Cardinality(Spawned(p))

\* From first_zombie, a running process reaches exactly its zombie children,
\* each once, and prev_zombie leads back the same way: process_join can take
\* one out of the middle.
ZombieListExact ==
    \A p \in Row : pc[p] # "none" =>
        /\ Zombies(table, p) = {q \in Spawned(p) : table[q].state = "ZOMBIE"}
        /\ \A q \in Zombies(table, p) :
              IF q = table[p].first_zombie THEN table[q].prev_zombie = None
              ELSE /\ table[q].prev_zombie \in Zombies(table, p)
                   /\ table[table[q].prev_zombie].next_zombie = q

\* The family records of a running process are exact.
FamilyExact == ChildrenExact /\ ZombieListExact

\* A process asleep in process_join sleeps on a child of its own that still
\* runs, and is in the sleep queue its exit wakes: no exit is slept through.
SleepersAwaitLiveChild ==
    \A a \in Actor : pc[a] = "asleep" =>
        /\ maker[arg[a]] = a
        /\ table[arg[a]].state = "RUNNING"
        /\ waitq[arg[a]] = <<a>>

\* finish_given_process calls itself only for a joined parent, and that one
\* has no parent any more.
JoinedHasNoParent ==
    \A p \in Row : table[p].state = "ZOMBIE" /\ table[p].retval < 0
                   => table[p].parent = None

\* The process table is sound: rows in use are those of live processes, no
\* join sleeps through an exit, a joined process has no parent, and, among
\* programs that join their children, the family records are exact.
TableSound ==
    /\ RunningRowsAreLive /\ SleepersAwaitLiveChild /\ JoinedHasNoParent
    /\ load.joins => FamilyExact

\* process_join returns what the child passed to exit, once: the row it
\* reads is that of the caller's child, which finished and was not joined.
JoinReturnsExitCode ==
    [][\A a \in Actor :
          pc[a] = "join" /\ pc'[a] \in {"user", "halt"} =>
              /\ maker[arg[a]] = a
              /\ table[arg[a]].retval = code[arg[a]]]_vars

\* The children p can still join: process_join has not cut their parent link.
Joinable(p) == {q \in Spawned(p) : table[q].parent = p}

\* A child a live process can still join keeps its row until that process
\* joins it or exits: no exit, join or clean-up of another process frees it.
\* A child already joined and kept for its children is not meant: the last
\* of them is to free it (see JoinedAreFreed).
UnjoinedKept ==
    [][\A p \in Row : \A q \in Joinable(p) :
          pc[p] # "none" /\ table'[q].state = "FREE" =>
              (pc[p] = "join" /\ arg[p] = q) \/ pc'[p] = "none"]_vars

\* "Our parent is joined and we are the last child. so free our parent": a
\* joined process without children is not left in the table.
JoinedAreFreed ==
    \A p \in Row : table[p].state = "ZOMBIE" /\ table[p].parent = None
                   /\ table[p].children = 0 => maker[p] = Startup
=============================================================================
