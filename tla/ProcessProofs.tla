---------------------------- MODULE ProcessProofs ----------------------------
(***************************************************************************)
(* Proofs about the process table of proc/process.c, for tables of any     *)
(* size and any workload.                                                  *)
(*                                                                         *)
(* A row may be freed and reused while processes that the old process      *)
(* spawned still run.  Their parent field then names a free row, a row     *)
(* being filled in or the wrong process, and they become zombies of it.    *)
(* The inductive invariant IInv therefore speaks about the zombie list of  *)
(* every row that some process may still link itself to (Owner).           *)
(***************************************************************************)
EXTENDS Process, TLAPS, FiniteSetTheorems

-----------------------------------------------------------------------------
(* The inductive invariant *)

Alive(p) == pc[p] # "none"

Filling(a)  == pc[a] \in {"fill", "count", "boot_fill", "boot_count"}
Counting(a) == pc[a] \in {"count", "boot_count"}
Joining(a)  == pc[a] \in {"join", "asleep", "boot_join"}

\* The startup thread spawns and joins one process; processes do not boot.
PlaceInv ==
    /\ pc[Startup] \in {"boot", "boot_fill", "boot_count", "boot_join",
                        "join", "asleep", "halt"}
    /\ \A p \in Row : pc[p] \in {"none", "user", "fill", "count", "join", "asleep"}

\* A row being filled in is its spawner's: nobody runs in it, and nobody was
\* spawned from it.
FillInv ==
    \A a \in Actor : Filling(a) =>
        /\ arg[a] \in Row
        /\ pc[arg[a]] = "none"
        /\ table[arg[a]].state = "RUNNING"
        /\ maker[arg[a]] = a
        /\ \A q \in Slot : maker[q] # arg[a]

CountInv ==
    \A a \in Actor : Counting(a) =>
        /\ table[arg[a]].parent = a
        /\ table[arg[a]].prev_zombie = None
        /\ table[arg[a]].next_zombie = None
        /\ table[arg[a]].children = 0

\* The row a join works on is that of an unjoined child of the caller.
JoinInv ==
    \A a \in Actor : Joining(a) =>
        /\ arg[a] \in Row
        /\ maker[arg[a]] = a
        /\ table[arg[a]].parent = a
        /\ table[arg[a]].state # "FREE"
        /\ table[arg[a]].state = "ZOMBIE" => table[arg[a]].retval = code[arg[a]]
        /\ a = Startup => /\ table[arg[a]].prev_zombie = None
                          /\ table[arg[a]].next_zombie = None

\* Only the process asleep in a join of a row that runs is in its queue.
WaitInv ==
    /\ \A q \in Slot : \/ waitq[q] = <<>>
                       \/ \E a \in Actor : /\ waitq[q] = <<a>>
                                           /\ pc[a] = "asleep"
                                           /\ arg[a] = q
    /\ \A a \in Actor : pc[a] = "asleep" => /\ waitq[arg[a]] = <<a>>
                                            /\ table[arg[a]].state = "RUNNING"

\* A running process is on no zombie list, and was spawned by its parent
\* unless the parent's row was reused.
LiveInv ==
    \A p \in Row : Alive(p) =>
        /\ table[p].state = "RUNNING"
        /\ table[p].parent # p
        /\ table[p].prev_zombie = None
        /\ table[p].next_zombie = None
        /\ maker[p] \in {Gone, table[p].parent}

RunInv ==
    \A p \in Row : table[p].state = "RUNNING" => Alive(p) \/ BeingFilled(p)

\* A zombie has no zombies of its own, and keeps its exit code until a join
\* clears its parent field.
ZombieInv ==
    \A p \in Row : table[p].state = "ZOMBIE" =>
        /\ table[p].first_zombie = None
        /\ table[p].parent # None => table[p].retval = code[p]

\* A freed row does not pass for a child of a process that runs.
FreeInv ==
    \A p, r \in Row : table[p].state = "FREE" /\ maker[p] = r /\ table[p].parent = r
                      => ~ Alive(r)

\* Rows whose zombie list some process will still use.
Owner(r) ==
    /\ r \in Row
    /\ \/ Alive(r)
       \/ \E a \in Actor : Counting(a) /\ arg[a] = r
       \/ \E z \in Row : Alive(z) /\ table[z].parent = r

\* t links the zombies of r in both directions.
Linked(t, r) ==
    /\ t[r].first_zombie >= 0 => t[t[r].first_zombie].prev_zombie = None
    /\ \A q \in Zombies(t, r) :
          t[q].next_zombie >= 0 => t[t[q].next_zombie].prev_zombie = q

\* The members of the zombie list of row r.
MemberInv(r) ==
    \A q \in Zombies(table, r) : /\ table[q].state = "ZOMBIE"
                                 /\ table[q].parent \in {r, None}
                                 /\ maker[q] # Startup

ListInv ==
    /\ \A r \in Row : Owner(r) => Linked(table, r) /\ MemberInv(r)
    /\ \A r \in Row : Alive(r) =>
          \A q \in Row : table[q].state = "ZOMBIE" /\ maker[q] = r
                         => q \in Zombies(table, r)
    /\ \A r, s \in Row : Owner(r) /\ Owner(s) /\ r # s =>
          \A q \in Zombies(table, r) : q \notin Zombies(table, s)

\* Among programs that join all their children every process has a spawner
\* that runs, and a zombie has no children.
KinInv ==
    \A p \in Row :
        /\ table[p].state # "FREE" => /\ maker[p] # Gone
                                      /\ maker[p] \in Row => Alive(maker[p])
        /\ table[p].state = "ZOMBIE" => /\ table[p].children = 0
                                        /\ table[p].parent = maker[p]

IInv ==
    /\ TypeOK /\ PlaceInv /\ FillInv /\ CountInv /\ JoinInv /\ WaitInv
    /\ LiveInv /\ RunInv /\ ZombieInv /\ FreeInv /\ ListInv
    /\ load.joins => KinInv /\ ChildrenExact

-----------------------------------------------------------------------------
(* Types *)

RowType ==
    [state : {"FREE", "RUNNING", "ZOMBIE"}, retval : Int,
     parent : Slot, first_zombie : Slot, prev_zombie : Slot,
     next_zombie : Slot, children : Int]

TableType == [Slot -> RowType]

\* Setting a field of a row keeps its type.
LEMMA RowUpdate ==
    ASSUME NEW row \in RowType
    PROVE  /\ \A v \in {"FREE", "RUNNING", "ZOMBIE"} : [row EXCEPT !.state = v] \in RowType
           /\ \A v \in Int : /\ [row EXCEPT !.retval = v] \in RowType
                             /\ [row EXCEPT !.children = v] \in RowType
           /\ \A v \in Slot : /\ [row EXCEPT !.parent = v] \in RowType
                              /\ [row EXCEPT !.first_zombie = v] \in RowType
                              /\ [row EXCEPT !.prev_zombie = v] \in RowType
                              /\ [row EXCEPT !.next_zombie = v] \in RowType
BY DEF RowType

LEMMA RowFields ==
    ASSUME NEW row \in RowType
    PROVE  /\ row.state \in {"FREE", "RUNNING", "ZOMBIE"}
           /\ row.retval \in Int /\ row.children \in Int
           /\ row.parent \in Slot /\ row.first_zombie \in Slot
           /\ row.prev_zombie \in Slot /\ row.next_zombie \in Slot
BY DEF RowType

LEMMA TableUpdate ==
    ASSUME NEW t \in TableType, NEW p \in Slot
    PROVE  /\ \A v \in {"FREE", "RUNNING", "ZOMBIE"} : [t EXCEPT ![p].state = v] \in TableType
           /\ [t EXCEPT ![p].retval = 0] \in TableType
           /\ [t EXCEPT ![p].retval = -1] \in TableType
           /\ \A v \in Int : /\ [t EXCEPT ![p].retval = v] \in TableType
                             /\ [t EXCEPT ![p].children = v] \in TableType
           /\ \A v \in Slot : /\ [t EXCEPT ![p].parent = v] \in TableType
                              /\ [t EXCEPT ![p].first_zombie = v] \in TableType
                              /\ [t EXCEPT ![p].prev_zombie = v] \in TableType
                              /\ [t EXCEPT ![p].next_zombie = v] \in TableType
<1>1. t[p] \in RowType  BY DEF TableType
<1>2. \A row \in RowType : [t EXCEPT ![p] = row] \in TableType  BY DEF TableType
<1>3. 0 \in Int /\ -1 \in Int  OBVIOUS
<1> QED  BY <1>1, <1>2, <1>3, RowUpdate

LEMMA TableFields ==
    ASSUME NEW t \in TableType, NEW p \in Slot
    PROVE  /\ t[p].state \in {"FREE", "RUNNING", "ZOMBIE"}
           /\ t[p].retval \in Int /\ t[p].children \in Int
           /\ t[p].parent \in Slot /\ t[p].first_zombie \in Slot
           /\ t[p].prev_zombie \in Slot /\ t[p].next_zombie \in Slot
BY RowFields DEF TableType

\* The ranges of row numbers.
LEMMA Rows ==
    /\ IsFiniteSet(Row)
    /\ Row \subseteq Slot /\ Valid \subseteq Row
    /\ Startup \in Slot /\ Startup \notin Row /\ None \in Slot /\ None \notin Row
    /\ Gone \notin Slot
    /\ \A p \in Slot : p \in Int /\ (p >= 0 <=> p \in Row) /\ (p < 0 <=> p = None)
    /\ \A p \in Slot : p \in Row <=> p # Startup
<1>1. MaxProcesses \in Nat  BY ProcessAssumption
<1>2. IsFiniteSet(Row)  BY <1>1, FS_Interval DEF Row
<1> QED  BY <1>1, <1>2 DEF Row, Slot, Valid, Startup, None, Gone

\* The zombies of a row are finitely many rows.
LEMMA ZombiesFinite ==
    ASSUME NEW t, NEW p
    PROVE  Zombies(t, p) \subseteq Row /\ Cardinality(Zombies(t, p)) \in Nat
<1>1. Zombies(t, p) \subseteq Row  BY DEF Zombies
<1>2. IsFiniteSet(Zombies(t, p))  BY <1>1, Rows, FS_Subset
<1> QED  BY <1>1, <1>2, FS_CardinalityType

LEMMA FreeZombiesType ==
    ASSUME NEW t \in TableType, NEW p \in Slot
    PROVE  FreeZombies(t, p) \in TableType
<1> PICK zs : zs = Zombies(t, p)  OBVIOUS
<1>1. Cardinality(zs) \in Nat  BY ZombiesFinite
<1>2. FreeZombies(t, p) =
        [q \in Slot |->
            IF q \in zs
            THEN [t[q] EXCEPT !.state = "FREE", !.retval = -1, !.parent = None]
            ELSE IF q = p
            THEN [t[p] EXCEPT !.first_zombie = None, !.children = @ - Cardinality(zs)]
            ELSE t[q]]
  BY DEF FreeZombies
<1>3. ASSUME NEW q \in Slot PROVE FreeZombies(t, p)[q] \in RowType
  <2>1. t[q] \in RowType /\ t[p] \in RowType  BY DEF TableType
  <2>2. [t[q] EXCEPT !.state = "FREE", !.retval = -1, !.parent = None] \in RowType
    <3> PICK r1 : r1 = [t[q] EXCEPT !.state = "FREE"]  OBVIOUS
    <3> PICK r2 : r2 = [r1 EXCEPT !.retval = -1]  OBVIOUS
    <3>1. r1 \in RowType  BY <2>1, RowUpdate
    <3>2. -1 \in Int  OBVIOUS
    <3>3. r2 \in RowType  BY <3>1, <3>2, RowUpdate
    <3> QED  BY <3>3, Rows, RowUpdate
  <2>3. t[p].children - Cardinality(zs) \in Int  BY <1>1, <2>1, RowFields
  <2>4. [t[p] EXCEPT !.first_zombie = None, !.children = @ - Cardinality(zs)] \in RowType
    BY <2>1, <2>3, Rows DEF RowType
  <2> QED  BY <1>2, <2>1, <2>2, <2>4
<1> QED  BY <1>2, <1>3 DEF TableType

LEMMA FinishGivenType ==
    ASSUME table \in TableType, NEW p \in Slot, NEW v \in Int
    PROVE  FinishGiven(p, v) \in TableType
<1> PICK parent : parent = table[p].parent  OBVIOUS
<1> PICK t0 : t0 = [table EXCEPT ![p].retval = v]  OBVIOUS
<1> PICK t : t = FreeZombies(t0, p)  OBVIOUS
<1> PICK u : u = [t EXCEPT ![parent].children = @ - 1]  OBVIOUS
<1>1. parent \in Slot  BY TableFields
<1>2. t0 \in TableType  BY TableUpdate
<1>3. t \in TableType  BY <1>2, FreeZombiesType
<1>4. u \in TableType
  <2>0. t[parent].children \in Int  BY <1>1, <1>3, TableFields
  <2>1. t[parent].children - 1 \in Int  BY <2>0
  <2> QED  BY <1>1, <1>3, <2>1, TableUpdate
<1>5. FinishJoined(u, parent) \in TableType
  <2> PICK w : w = [u EXCEPT ![parent].retval = 0]  OBVIOUS
  <2>1. w \in TableType  BY <1>1, <1>4, TableUpdate
  <2> PICK x : x = FreeZombies(w, parent)  OBVIOUS
  <2>2. x \in TableType  BY ONLY <1>1, <2>1, FreeZombiesType, x = FreeZombies(w, parent)
  <2>3. [x EXCEPT ![parent].state = "ZOMBIE"] \in TableType
    BY ONLY <1>1, <2>2, TableUpdate
  <2> QED  BY <2>3 DEF FinishJoined
<1>6. LinkZombie(t, parent, p) \in TableType
  <2> PICK first : first = t[parent].first_zombie  OBVIOUS
  <2> PICK w1 : w1 = [t EXCEPT ![p].state = "ZOMBIE"]  OBVIOUS
  <2> PICK w2 : w2 = [w1 EXCEPT ![p].next_zombie = first]  OBVIOUS
  <2> PICK w3 : w3 = [w2 EXCEPT ![parent].first_zombie = p]  OBVIOUS
  <2>1. first \in Slot  BY <1>1, <1>3, TableFields
  <2>2. w1 \in TableType  BY <1>3, TableUpdate
  <2>3. w2 \in TableType  BY <2>1, <2>2, TableUpdate
  <2>4. w3 \in TableType  BY <1>1, <2>3, TableUpdate
  <2>5. [w3 EXCEPT ![first].prev_zombie = p] \in TableType  BY <2>1, <2>4, TableUpdate
  <2> QED  BY <2>4, <2>5 DEF LinkZombie
<1>7. [t EXCEPT ![p].state = "ZOMBIE"] \in TableType  BY <1>3, TableUpdate
<1>8. [u EXCEPT ![p].state = "FREE"] \in TableType  BY <1>4, TableUpdate
<1>9. [FinishJoined(u, parent) EXCEPT ![p].state = "FREE"] \in TableType
  <2> PICK x : x = FinishJoined(u, parent)  OBVIOUS
  <2>1. x \in TableType /\ p \in Slot  BY ONLY <1>5, x = FinishJoined(u, parent), p \in Slot
  <2>2. [x EXCEPT ![p].state = "FREE"] \in TableType  BY ONLY <2>1, TableUpdate
  <2> QED  BY ONLY <2>2, x = FinishJoined(u, parent)
<1> QED  BY <1>6, <1>7, <1>8, <1>9 DEF FinishGiven

LEMMA UnlinkType ==
    ASSUME NEW t \in TableType, NEW a \in Slot, NEW p \in Slot
    PROVE  UnlinkZombie(t, a, p) \in TableType
<1> PICK prev : prev = t[p].prev_zombie  OBVIOUS
<1> PICK next : next = t[p].next_zombie  OBVIOUS
<1> PICK u1 : u1 = [t EXCEPT ![a].first_zombie = next]  OBVIOUS
<1> PICK u2 : u2 = [t EXCEPT ![prev].next_zombie = next]  OBVIOUS
<1>1. prev \in Slot /\ next \in Slot  BY TableFields
<1>2. u1 \in TableType /\ u2 \in TableType  BY <1>1, TableUpdate
<1>3. [u1 EXCEPT ![next].prev_zombie = None] \in TableType  BY <1>1, <1>2, Rows, TableUpdate
<1>4. [u2 EXCEPT ![next].prev_zombie = prev] \in TableType  BY <1>1, <1>2, TableUpdate
<1> QED  BY <1>2, <1>3, <1>4 DEF UnlinkZombie

LEMMA InitType == Init => TypeOK
<1> SUFFICES ASSUME Init PROVE TypeOK  OBVIOUS
<1>1. BlankRow \in RowType
  BY ProcessAssumption DEF BlankRow, Slot, RowType
<1>2. PICK other \in {0, None} :
          table = [p \in Slot |-> IF p \in Row THEN BlankRow
                                  ELSE [BlankRow EXCEPT !.first_zombie = other]]
  BY DEF Init
<1>3. other \in Slot  BY Rows, ProcessAssumption DEF Slot
<1>4. table \in TableType  BY <1>1, <1>2, <1>3, RowUpdate DEF TableType
<1>5. pc \in [Actor -> PC] /\ arg \in [Actor -> Slot] /\ maker \in [Slot -> Slot \cup {Gone}]
  BY Rows DEF Init, PC, Actor
<1>6. waitq \in [Slot -> Seq(Actor)] /\ code \in [Slot -> Nat] /\ load \in Workloads
  BY DEF Init
<1> QED  BY <1>4, <1>5, <1>6 DEF TypeOK, TableType, RowType

LEMMA StepType ==
    ASSUME TypeOK, NEW a \in Actor, Step(a)
    PROVE  TypeOK'
<1>1. table \in TableType /\ pc \in [Actor -> PC] /\ arg \in [Actor -> Slot]
      /\ waitq \in [Slot -> Seq(Actor)] /\ code \in [Slot -> Nat]
      /\ maker \in [Slot -> Slot \cup {Gone}] /\ load \in Workloads
  BY DEF TypeOK, TableType, RowType
<1>2. a \in Slot /\ arg[a] \in Slot  BY <1>1 DEF Actor
<1>3. CASE SpawnAlloc(a)
  <2>1. PICK p \in Row :
          /\ table' = [table EXCEPT ![p].state = "RUNNING", ![p].retval = 0]
          /\ pc' = [pc EXCEPT ![a] = IF a = Startup THEN "boot_fill" ELSE "fill"]
          /\ arg' = [arg EXCEPT ![a] = p]
          /\ maker' = [q \in Slot |-> IF q = p THEN a
                                      ELSE IF maker[q] = p THEN Gone ELSE maker[q]]
    BY <1>3 DEF SpawnAlloc
  <2> PICK t : t = [table EXCEPT ![p].state = "RUNNING"]  OBVIOUS
  <2>0. t \in TableType  BY <1>1, Rows, TableUpdate
  <2>2. table' \in TableType  BY <2>0, <2>1, Rows, TableUpdate
  <2>3. pc' \in [Actor -> PC] /\ arg' \in [Actor -> Slot]  BY <1>1, <2>1, Rows DEF PC
  <2>4. maker' \in [Slot -> Slot \cup {Gone}]  BY <1>1, <1>2, <2>1
  <2> QED  BY <1>1, <1>3, <2>2, <2>3, <2>4 DEF SpawnAlloc, TypeOK, TableType, RowType
<1>4. CASE SpawnFill(a)
  <2>0. NewRow(table[arg[a]], a) \in RowType
    <3> PICK r0 : r0 = table[arg[a]]  OBVIOUS
    <3> PICK r1 : r1 = [r0 EXCEPT !.retval = 0]  OBVIOUS
    <3> PICK r2 : r2 = [r1 EXCEPT !.first_zombie = None]  OBVIOUS
    <3> PICK r3 : r3 = [r2 EXCEPT !.prev_zombie = None]  OBVIOUS
    <3> PICK r4 : r4 = [r3 EXCEPT !.next_zombie = None]  OBVIOUS
    <3> PICK r5 : r5 = [r4 EXCEPT !.parent = a]  OBVIOUS
    <3>1. r0 \in RowType /\ 0 \in Int  BY <1>1, <1>2 DEF TableType
    <3>2. r1 \in RowType  BY <3>1, RowUpdate
    <3>3. r2 \in RowType  BY <3>2, Rows, RowUpdate
    <3>4. r3 \in RowType  BY <3>3, Rows, RowUpdate
    <3>5. r4 \in RowType  BY <3>4, Rows, RowUpdate
    <3>6. r5 \in RowType  BY <1>2, <3>5, RowUpdate
    <3> QED  BY <3>1, <3>6, RowUpdate DEF NewRow
  <2>1. table' \in TableType  BY <1>1, <1>2, <1>4, <2>0 DEF SpawnFill, TableType
  <2>2. pc' \in [Actor -> PC]  BY <1>1, <1>4 DEF SpawnFill, PC
  <2> QED  BY <1>1, <1>4, <2>1, <2>2 DEF SpawnFill, TypeOK, TableType, RowType
<1>5. CASE SpawnRun(a)
  <2>1. table' \in TableType  
    <3>1. table[a].children + 1 \in Int  BY <1>1, <1>2, TableFields
    <3> QED  BY <1>1, <1>2, <1>5, <3>1, TableUpdate DEF SpawnRun, CountChild
  <2>2. pc' \in [Actor -> PC]  BY <1>1, <1>5 DEF SpawnRun, PC
  <2> QED  BY <1>1, <1>5, <2>1, <2>2 DEF SpawnRun, TypeOK, TableType, RowType
<1>6. CASE \E p \in Row : JoinCheck(a, p)
  <2>1. PICK p \in Row : JoinCheck(a, p)  BY <1>6
  <2>2. pc' \in [Actor -> PC] /\ arg' \in [Actor -> Slot]
    BY <1>1, <2>1, Rows DEF JoinCheck, PC
  <2> QED  BY <1>1, <2>1, <2>2 DEF JoinCheck, TypeOK, TableType, RowType
<1>7. CASE JoinWait(a)
  <2>1. waitq' \in [Slot -> Seq(Actor)]
    <3>1. Append(waitq[arg[a]], a) \in Seq(Actor)  BY <1>1, <1>2
    <3> QED  BY <1>1, <1>7, <3>1 DEF JoinWait
  <2>2. pc' \in [Actor -> PC]  BY <1>1, <1>7 DEF JoinWait, PC
  <2> QED  BY <1>1, <1>7, <2>1, <2>2 DEF JoinWait, TypeOK, TableType, RowType
<1>8. CASE JoinReap(a)
  <2> PICK t : t = Joined(arg[a])  OBVIOUS
  <2> PICK u : u = [t EXCEPT ![a].children = @ - 1]  OBVIOUS
  <2> PICK w : w = UnlinkZombie(u, a, arg[a])  OBVIOUS
  <2>1. t \in TableType
    <3> PICK t1 : t1 = [table EXCEPT ![arg[a]].retval = -1]  OBVIOUS
    <3>1. t1 \in TableType  BY <1>1, <1>2, TableUpdate
    <3> QED  BY <1>2, <3>1, Rows, TableUpdate DEF Joined
  <2>2. u \in TableType
    <3>1. t[a].children - 1 \in Int  BY <1>2, <2>1, TableFields
    <3> QED  BY <1>2, <2>1, <3>1, TableUpdate
  <2>3. w \in TableType  BY <1>2, <2>2, UnlinkType
  <2>4. [w EXCEPT ![arg[a]].state = "FREE", ![arg[a]].retval = 0] \in TableType
    <3> PICK w1 : w1 = [w EXCEPT ![arg[a]].state = "FREE"]  OBVIOUS
    <3>1. w1 \in TableType  BY <1>2, <2>3, TableUpdate
    <3> QED  BY <1>2, <3>1, TableUpdate
  <2>5. table' \in TableType  BY <1>8, <2>1, <2>4 DEF JoinReap
  <2>6. pc' \in [Actor -> PC]  BY <1>1, <1>8 DEF JoinReap, PC
  <2> QED  BY <1>1, <1>8, <2>5, <2>6 DEF JoinReap, TypeOK, TableType, RowType
<1>9. CASE \E c \in load.codes : Finish(a, c)
  <2>1. PICK c \in load.codes : Finish(a, c)  BY <1>9
  <2>2. c \in Int  BY <1>1, ProcessAssumption
  <2>3. ExitValue(c) \in Nat  BY <2>2 DEF ExitValue
  <2>4. table' \in TableType  BY <1>1, <1>2, <2>1, <2>3, FinishGivenType DEF Finish
  <2>5. code' \in [Slot -> Nat]  BY <1>1, <2>1, <2>3 DEF Finish
  <2>6. pc' \in [Actor -> PC]  BY <1>1, <2>1 DEF Finish, PC
  <2>7. waitq' \in [Slot -> Seq(Actor)]
    <3>1. waitq[a] # <<>> => Tail(waitq[a]) \in Seq(Actor)  BY <1>1, <1>2
    <3> QED  BY <1>1, <1>2, <2>1, <3>1 DEF Finish
  <2>8. arg' \in [Actor -> Slot]  BY <1>1, <2>1, Rows DEF Finish
  <2> QED  BY <1>1, <2>1, <2>4, <2>5, <2>6, <2>7, <2>8 DEF Finish, TypeOK, TableType, RowType
<1> QED  BY <1>3, <1>4, <1>5, <1>6, <1>7, <1>8, <1>9 DEF Step

\* Whatever programs do, joins of foreign rows included, every field of the
\* process table and every thread's place stays in its range (spawn, join
\* and finish of proc/process.c).
THEOREM TypeCorrect == Spec => []TypeOK
<1>1. ASSUME TypeOK, [Next]_vars PROVE TypeOK'
  <2>1. CASE Next  BY <1>1, <2>1, StepType DEF Next
  <2>2. CASE UNCHANGED vars  BY <1>1, <2>2 DEF vars, TypeOK
  <2> QED  BY <1>1, <2>1, <2>2
<1> QED  BY <1>1, InitType, PTL DEF Spec

-----------------------------------------------------------------------------
(* Zombie lists: Zombies(t, r) is the least set of rows closed under         *)
(* first_zombie of r and next_zombie.                                        *)

LEMMA ZombiesHas ==
    ASSUME NEW t \in TableType, NEW r \in Slot
    PROVE  HasZombies(t, r, Zombies(t, r))
<1> PICK zs : zs = Zombies(t, r)  OBVIOUS
<1>1. zs = {q \in Row : \A S \in SUBSET Row : HasZombies(t, r, S) => q \in S}
  BY DEF Zombies
<1>2. t[r].first_zombie >= 0 => t[r].first_zombie \in zs
  BY <1>1, TableFields, Rows DEF HasZombies
<1>3. ASSUME NEW q \in zs, t[q].next_zombie >= 0 PROVE t[q].next_zombie \in zs
  <2>1. q \in Slot /\ t[q].next_zombie \in Row  BY <1>1, <1>3, TableFields, Rows
  <2> QED  BY <1>1, <1>3, <2>1 DEF HasZombies
<1> QED  BY <1>2, <1>3 DEF HasZombies

LEMMA ZombiesLeast ==
    ASSUME NEW t, NEW r, NEW S \in SUBSET Row, HasZombies(t, r, S)
    PROVE  Zombies(t, r) \subseteq S
BY DEF Zombies

LEMMA ZombiesNone ==
    ASSUME NEW t, NEW r, ~ (t[r].first_zombie >= 0)
    PROVE  Zombies(t, r) = {}
<1>1. HasZombies(t, r, {})  BY DEF HasZombies
<1> QED  BY <1>1, ZombiesLeast

\* The list depends on first_zombie of its owner and the links of its members.
LEMMA ZombiesSame ==
    ASSUME NEW t \in TableType, NEW u \in TableType, NEW r \in Slot,
           u[r].first_zombie = t[r].first_zombie,
           \A q \in Zombies(t, r) : u[q].next_zombie = t[q].next_zombie
    PROVE  Zombies(u, r) = Zombies(t, r)
<1> PICK zs : zs = Zombies(t, r)  OBVIOUS
<1>0. zs \subseteq Row /\ HasZombies(t, r, zs)  BY ZombiesFinite, ZombiesHas
<1>1. Zombies(u, r) \subseteq zs
  <2>1. HasZombies(u, r, zs)  BY <1>0 DEF HasZombies
  <2> QED  BY <1>0, <2>1, ZombiesLeast
<1>2. zs \subseteq Zombies(u, r)
  <2> PICK ys : ys = Zombies(u, r)  OBVIOUS
  <2>0. ys \subseteq Row /\ HasZombies(u, r, ys)  BY ZombiesFinite, ZombiesHas
  <2>1. HasZombies(t, r, ys \cap zs)  BY <1>0, <2>0 DEF HasZombies
  <2>2. zs \subseteq ys \cap zs  BY <1>0, <2>1, ZombiesLeast
  <2> QED  BY <2>2
<1> QED  BY <1>1, <1>2

LEMMA LinkedSame ==
    ASSUME NEW t \in TableType, NEW u \in TableType, NEW r \in Slot, Linked(t, r),
           u[r].first_zombie = t[r].first_zombie,
           \A q \in Zombies(t, r) : /\ u[q].next_zombie = t[q].next_zombie
                                    /\ u[q].prev_zombie = t[q].prev_zombie
    PROVE  Linked(u, r)
<1> PICK zs : zs = Zombies(t, r)  OBVIOUS
<1>1. HasZombies(t, r, zs)  BY ZombiesHas
<1>2. Zombies(u, r) = zs  BY ZombiesSame
<1> QED  BY <1>1, <1>2 DEF Linked, HasZombies

\* A member that is not the first is the next of another member.
LEMMA ZombiesBefore ==
    ASSUME NEW t \in TableType, NEW r \in Slot, Linked(t, r),
           NEW q \in Zombies(t, r), q # t[r].first_zombie
    PROVE  \E x \in Zombies(t, r) : /\ x # q
                                    /\ t[x].next_zombie = q
                                    /\ t[q].prev_zombie = x
<1> PICK zs : zs = Zombies(t, r)  OBVIOUS
<1>1. zs \subseteq Row /\ HasZombies(t, r, zs)  BY ZombiesFinite, ZombiesHas
<1>2. ~ HasZombies(t, r, zs \ {q})
  <2>1. HasZombies(t, r, zs \ {q}) => zs \subseteq zs \ {q}  BY <1>1, ZombiesLeast
  <2> QED  BY <2>1
<1>3. t[r].first_zombie >= 0 => t[r].first_zombie \in zs \ {q}
  BY <1>1 DEF HasZombies
<1>4. PICK x \in zs \ {q} : t[x].next_zombie >= 0 /\ t[x].next_zombie \notin zs \ {q}
  BY <1>2, <1>3 DEF HasZombies
<1>5. t[x].next_zombie = q  BY <1>1, <1>4 DEF HasZombies
<1>6. t[q].prev_zombie = x  BY <1>4, <1>5 DEF Linked
<1> QED  BY <1>4, <1>5, <1>6

\* u has p linked in front of the zombies that r has in t.
LinkedFront(t, u, r, p) ==
    /\ u[r].first_zombie = p
    /\ u[p].next_zombie = t[r].first_zombie
    /\ u[p].prev_zombie = None
    /\ t[r].first_zombie >= 0 => u[t[r].first_zombie].prev_zombie = p
    /\ \A q \in Zombies(t, r) :
          /\ u[q].next_zombie = t[q].next_zombie
          /\ q # t[r].first_zombie => u[q].prev_zombie = t[q].prev_zombie

LEMMA FrontAdds ==
    ASSUME NEW t \in TableType, NEW u \in TableType, NEW r \in Row, NEW p \in Row,
           p \notin Zombies(t, r), Linked(t, r), LinkedFront(t, u, r, p)
    PROVE  Zombies(u, r) = Zombies(t, r) \cup {p} /\ Linked(u, r)
<1> PICK zs : zs = Zombies(t, r)  OBVIOUS
<1>0. r \in Slot /\ p \in Slot /\ p >= 0  BY Rows
<1>1. zs \subseteq Row /\ HasZombies(t, r, zs)  BY <1>0, ZombiesFinite, ZombiesHas
<1>2. Zombies(u, r) \subseteq zs \cup {p}
  <2>1. HasZombies(u, r, zs \cup {p})  BY <1>1 DEF HasZombies, LinkedFront
  <2>2. zs \cup {p} \in SUBSET Row  BY <1>1
  <2> QED  BY <2>1, <2>2, ZombiesLeast
<1>3. zs \cup {p} \subseteq Zombies(u, r)
  <2> PICK ys : ys = Zombies(u, r)  OBVIOUS
  <2>0. ys \subseteq Row /\ HasZombies(u, r, ys)  BY <1>0, ZombiesFinite, ZombiesHas
  <2>1. p \in ys  BY <1>0, <2>0 DEF HasZombies, LinkedFront
  <2>2. HasZombies(t, r, ys \cap zs)  BY <1>1, <2>0, <2>1 DEF HasZombies, LinkedFront
  <2>3. zs \subseteq ys \cap zs  BY <1>1, <2>2, ZombiesLeast
  <2> QED  BY <2>1, <2>3
<1>4. Linked(u, r)
  <2>1. u[r].first_zombie >= 0 => u[u[r].first_zombie].prev_zombie = None
    BY DEF LinkedFront
  <2>2. ASSUME NEW q \in zs \cup {p}, u[q].next_zombie >= 0
        PROVE  u[u[q].next_zombie].prev_zombie = q
    <3>1. CASE q = p  BY <2>2, <3>1 DEF LinkedFront
    <3>2. CASE q # p
      <4> PICK n : n = t[q].next_zombie  OBVIOUS
      <4>1. q \in zs /\ u[q].next_zombie = n  BY <2>2, <3>2 DEF LinkedFront
      <4>2. n >= 0  BY <2>2, <4>1
      <4>3. n \in zs /\ t[n].prev_zombie = q  BY <1>1, <4>1, <4>2 DEF HasZombies, Linked
      <4>4. q # None  BY <1>1, <4>1, Rows
      <4>5. n # t[r].first_zombie  BY <4>2, <4>3, <4>4 DEF Linked
      <4>6. u[n].prev_zombie = q  BY <4>3, <4>5 DEF LinkedFront
      <4> QED  BY <4>1, <4>6
    <3> QED  BY <3>1, <3>2
  <2>3. \A q \in Zombies(u, r) : u[q].next_zombie >= 0 => u[u[q].next_zombie].prev_zombie = q
    BY <1>2, <2>2
  <2> QED  BY <2>1, <2>3 DEF Linked
<1> QED  BY <1>2, <1>3, <1>4

\* u has p taken out of the zombies that r has in t.
TakenOut(t, u, r, p) ==
    LET next == t[p].next_zombie
        prev == t[p].prev_zombie
        first == t[r].first_zombie
    IN  /\ IF first = p THEN u[r].first_zombie = next
           ELSE u[r].first_zombie = first /\ u[prev].next_zombie = next
        /\ next >= 0 => u[next].prev_zombie = IF first = p THEN None ELSE prev
        /\ \A q \in Zombies(t, r) :
              /\ ~ (first # p /\ q = prev) => u[q].next_zombie = t[q].next_zombie
              /\ q # next => u[q].prev_zombie = t[q].prev_zombie

LEMMA OutRemoves ==
    ASSUME NEW t \in TableType, NEW u \in TableType, NEW r \in Row,
           NEW p \in Zombies(t, r), Linked(t, r), TakenOut(t, u, r, p)
    PROVE  Zombies(u, r) = Zombies(t, r) \ {p} /\ Linked(u, r)
<1> PICK zs : zs = Zombies(t, r)  OBVIOUS
<1> PICK next : next = t[p].next_zombie  OBVIOUS
<1> PICK prev : prev = t[p].prev_zombie  OBVIOUS
<1> PICK first : first = t[r].first_zombie  OBVIOUS
<1>0. r \in Slot  BY Rows
<1>1. zs \subseteq Row /\ HasZombies(t, r, zs)  BY <1>0, ZombiesFinite, ZombiesHas
<1>2. p \in Slot /\ next \in Slot /\ first \in Slot /\ p >= 0 /\ p # None
  BY <1>0, <1>1, Rows, TableFields
<1>3. first # p => prev \in zs /\ prev # p /\ t[prev].next_zombie = p
  BY <1>0, ZombiesBefore
<1>4. first = p => prev = None  BY <1>2 DEF Linked
<1>5. next >= 0 => next \in zs /\ t[next].prev_zombie = p
  BY <1>1 DEF HasZombies, Linked
<1>6. next # p
  <2>1. CASE first = p  BY <1>2, <1>4, <1>5, <2>1
  <2>2. CASE first # p  BY <1>2, <1>3, <1>5, <2>2
  <2> QED  BY <2>1, <2>2
<1>7. next >= 0 => next # first  BY <1>2, <1>5 DEF Linked
<1>8. ASSUME NEW q \in zs, q # p, ~ (first # p /\ q = prev)
      PROVE  t[q].next_zombie # p
  <2>1. t[q].next_zombie = p => prev = q  BY <1>2, <1>8 DEF Linked
  <2>2. q # None  BY <1>1, <1>8, Rows
  <2> QED  BY <1>4, <1>8, <2>1, <2>2
<1>9. Zombies(u, r) \subseteq zs \ {p}
  <2>1. u[r].first_zombie >= 0 => u[r].first_zombie \in zs \ {p}
    BY <1>1, <1>5, <1>6 DEF HasZombies, TakenOut
  <2>2. ASSUME NEW q \in zs \ {p}, u[q].next_zombie >= 0
        PROVE  u[q].next_zombie \in zs \ {p}
    <3>1. CASE first # p /\ q = prev  BY <1>5, <1>6, <2>2, <3>1 DEF TakenOut
    <3>2. CASE ~ (first # p /\ q = prev)
      <4>1. u[q].next_zombie = t[q].next_zombie  BY <2>2, <3>2 DEF TakenOut
      <4>2. t[q].next_zombie \in zs  BY <1>1, <2>2, <4>1 DEF HasZombies
      <4> QED  BY <1>8, <2>2, <3>2, <4>1, <4>2
    <3> QED  BY <3>1, <3>2
  <2>3. HasZombies(u, r, zs \ {p})  BY <2>1, <2>2 DEF HasZombies
  <2> QED  BY <1>1, <2>3, ZombiesLeast
<1>10. zs \ {p} \subseteq Zombies(u, r)
  <2> PICK ys : ys = Zombies(u, r)  OBVIOUS
  <2>0. ys \subseteq Row /\ HasZombies(u, r, ys)  BY <1>0, ZombiesFinite, ZombiesHas
  <2>1. ASSUME first # p, prev \notin ys PROVE FALSE
    <3>1. first >= 0 => first \in (ys \cap zs) \ {p}
      BY <1>1, <2>0, <2>1 DEF HasZombies, TakenOut
    <3>2. ASSUME NEW q \in (ys \cap zs) \ {p}, t[q].next_zombie >= 0
          PROVE  t[q].next_zombie \in (ys \cap zs) \ {p}
      <4>1. q \in ys /\ q \in zs /\ q # p /\ q # prev  BY <2>1, <3>2
      <4>2. u[q].next_zombie = t[q].next_zombie  BY <4>1 DEF TakenOut
      <4>3. t[q].next_zombie \in ys /\ t[q].next_zombie \in zs
        BY <1>1, <2>0, <3>2, <4>1, <4>2 DEF HasZombies
      <4> QED  BY <1>8, <4>1, <4>3
    <3>3. HasZombies(t, r, (ys \cap zs) \ {p})  BY <3>1, <3>2 DEF HasZombies
    <3>4. zs \subseteq (ys \cap zs) \ {p}  BY <1>1, <3>3, ZombiesLeast
    <3> QED  BY <3>4
  <2>2. next >= 0 => next \in ys
    BY <2>0, <2>1 DEF HasZombies, TakenOut
  <2>3. first >= 0 => first \in (ys \cap zs) \cup {p}
    BY <1>1, <2>0 DEF HasZombies, TakenOut
  <2>4. ASSUME NEW q \in (ys \cap zs) \cup {p}, t[q].next_zombie >= 0
        PROVE  t[q].next_zombie \in (ys \cap zs) \cup {p}
    <3>1. CASE q = p  BY <1>5, <2>2, <2>4, <3>1
    <3>2. CASE q # p /\ first # p /\ q = prev  BY <1>3, <3>2
    <3>3. CASE q # p /\ ~ (first # p /\ q = prev)
      <4>1. q \in ys /\ q \in zs  BY <2>4, <3>3
      <4>2. u[q].next_zombie = t[q].next_zombie  BY <3>3, <4>1 DEF TakenOut
      <4> QED  BY <1>1, <2>0, <2>4, <4>1, <4>2 DEF HasZombies
    <3> QED  BY <3>1, <3>2, <3>3
  <2>5. HasZombies(t, r, (ys \cap zs) \cup {p})  BY <2>3, <2>4 DEF HasZombies
  <2>6. (ys \cap zs) \cup {p} \in SUBSET Row  BY <1>1
  <2>7. zs \subseteq (ys \cap zs) \cup {p}  BY <2>5, <2>6, ZombiesLeast
  <2> QED  BY <2>7
<1>11. u[r].first_zombie >= 0 => u[u[r].first_zombie].prev_zombie = None
  <2>1. CASE first = p  BY <2>1 DEF TakenOut
  <2>2. CASE first # p
    <3>1. u[r].first_zombie = first  BY <2>2 DEF TakenOut
    <3>2. first >= 0 => first \in zs /\ t[first].prev_zombie = None
      BY <1>1 DEF HasZombies, Linked
    <3>3. first >= 0 => first # next  BY <1>7
    <3>4. first >= 0 => u[first].prev_zombie = None  BY <3>2, <3>3 DEF TakenOut
    <3> QED  BY <3>1, <3>4
  <2> QED  BY <2>1, <2>2
<1>12. ASSUME NEW q \in zs \ {p}, u[q].next_zombie >= 0
       PROVE  u[u[q].next_zombie].prev_zombie = q
  <2>1. CASE first # p /\ q = prev  BY <1>12, <2>1 DEF TakenOut
  <2>2. CASE ~ (first # p /\ q = prev)
    <3> PICK n : n = t[q].next_zombie  OBVIOUS
    <3>1. u[q].next_zombie = n /\ n >= 0  BY <1>12, <2>2 DEF TakenOut
    <3>2. n \in zs /\ t[n].prev_zombie = q  BY <1>1, <1>12, <3>1 DEF HasZombies, Linked
    <3>3. n # next  BY <1>5, <1>12, <3>1, <3>2
    <3>4. u[n].prev_zombie = q  BY <3>2, <3>3 DEF TakenOut
    <3> QED  BY <3>1, <3>4
  <2> QED  BY <2>1, <2>2
<1> QED  BY <1>9, <1>10, <1>11, <1>12 DEF Linked

-----------------------------------------------------------------------------
(* Steps *)

\* What the type invariant says of the variables.
LEMMA Types ==
    ASSUME TypeOK
    PROVE  /\ table \in TableType /\ pc \in [Actor -> PC] /\ arg \in [Actor -> Slot]
           /\ waitq \in [Slot -> Seq(Actor)] /\ code \in [Slot -> Nat]
           /\ maker \in [Slot -> Slot \cup {Gone}] /\ load \in Workloads
           /\ Actor = Slot
BY DEF TypeOK, TableType, RowType, Actor

\* A step that leaves the links alone keeps the lists when it adds no owner,
\* and neither frees nor adopts a zombie.
LEMMA ListSame ==
    ASSUME TypeOK, TypeOK', ListInv,
           \A q \in Row : /\ table'[q].first_zombie = table[q].first_zombie
                          /\ table'[q].next_zombie = table[q].next_zombie
                          /\ table'[q].prev_zombie = table[q].prev_zombie,
           \A r \in Row : Owner(r)' => Owner(r),
           \A q \in Row : table[q].state = "ZOMBIE" /\ maker[q] # Startup =>
                              /\ table'[q].state = "ZOMBIE"
                              /\ table'[q].parent \in {table[q].parent, None}
                              /\ maker'[q] \in {maker[q], Gone},
           \A q, r \in Row : table'[q].state = "ZOMBIE" /\ maker'[q] = r /\ Alive(r)'
                             => table[q].state = "ZOMBIE" /\ maker[q] = r /\ Alive(r)
    PROVE  ListInv'
<1>1. table \in TableType /\ table' \in TableType
  <2>1. TypeOK' => table' \in TableType  BY DEF TypeOK, TableType, RowType
  <2> QED  BY <2>1, Types
<1>2. ASSUME NEW r \in Row PROVE Zombies(table', r) = Zombies(table, r)
  <2>1. r \in Slot /\ Zombies(table, r) \subseteq Row  BY Rows, ZombiesFinite
  <2> QED  BY <1>1, <2>1, ZombiesSame
<1>3. ASSUME NEW r \in Row, Linked(table, r) PROVE Linked(table', r)
  <2>1. r \in Slot /\ Zombies(table, r) \subseteq Row  BY Rows, ZombiesFinite
  <2> QED  BY <1>1, <1>3, <2>1, LinkedSame
<1>4. ASSUME NEW r \in Row, Owner(r)' PROVE Linked(table, r)' /\ MemberInv(r)'
  <2>1. Owner(r) /\ Linked(table, r) /\ MemberInv(r)  BY <1>4 DEF ListInv
  <2>2. Zombies(table, r) \subseteq Row  BY ZombiesFinite
  <2>3. MemberInv(r)'
    <3>1. ASSUME NEW q \in Zombies(table, r)
          PROVE  /\ table'[q].state = "ZOMBIE"
                 /\ table'[q].parent \in {r, None}
                 /\ maker'[q] # Startup
      <4>1. /\ table[q].state = "ZOMBIE" /\ table[q].parent \in {r, None}
            /\ maker[q] # Startup
        BY <2>1 DEF MemberInv
      <4>2. Gone # Startup  BY Rows
      <4> QED  BY <2>2, <4>1, <4>2
    <3> QED  BY <1>2, <3>1 DEF MemberInv
  <2> QED  BY <1>3, <2>1, <2>3
<1>5. ASSUME NEW r \in Row, Alive(r)', NEW q \in Row, table'[q].state = "ZOMBIE", maker'[q] = r
      PROVE  q \in Zombies(table, r)'
  BY <1>2, <1>5 DEF ListInv
<1>6. ASSUME NEW r \in Row, NEW s \in Row, Owner(r)', Owner(s)', r # s,
             NEW q \in Zombies(table, r)'
      PROVE  q \notin Zombies(table, s)'
  BY <1>2, <1>6 DEF ListInv
<1> QED  BY <1>4, <1>5, <1>6 DEF ListInv

\* Row p, which is free, becomes the RUNNING row that a fills in.
AllocDoes(a, p) ==
    /\ p \in Row /\ a \in Slot /\ a # p
    /\ pc[a] \in {"user", "boot"} /\ pc[p] = "none" /\ table[p].state = "FREE"
    /\ pc'[a] = IF a = Startup THEN "boot_fill" ELSE "fill"
    /\ arg'[a] = p /\ maker'[p] = a
    /\ \A b \in Slot : b # a => pc'[b] = pc[b] /\ arg'[b] = arg[b]
    /\ \A q \in Slot : q # p => maker'[q] = IF maker[q] = p THEN Gone ELSE maker[q]
    /\ \A q \in Slot : q # p => table'[q] = table[q]
    /\ table'[p].state = "RUNNING"
    /\ table'[p].parent = table[p].parent
    /\ table'[p].first_zombie = table[p].first_zombie
    /\ table'[p].next_zombie = table[p].next_zombie
    /\ table'[p].prev_zombie = table[p].prev_zombie
    /\ table'[p].children = table[p].children
    /\ waitq' = waitq /\ code' = code /\ load' = load

LEMMA AllocEffect ==
    ASSUME TypeOK, PlaceInv, LiveInv, NEW a \in Actor, SpawnAlloc(a)
    PROVE  \E p \in Row : AllocDoes(a, p)
<1>1. PICK p \in Row :
          /\ FirstFree(p)
          /\ table' = [table EXCEPT ![p].state = "RUNNING", ![p].retval = 0]
          /\ pc' = [pc EXCEPT ![a] = IF a = Startup THEN "boot_fill" ELSE "fill"]
          /\ arg' = [arg EXCEPT ![a] = p]
          /\ maker' = [q \in Slot |-> IF q = p THEN a
                                      ELSE IF maker[q] = p THEN Gone ELSE maker[q]]
  BY DEF SpawnAlloc
<1>2. table[p].state = "FREE" /\ pc[p] = "none"  BY <1>1 DEF FirstFree, LiveInv, Alive
<1>3. pc[a] \in {"user", "boot"} /\ a # p  BY <1>2 DEF SpawnAlloc
<1>4. p \in Slot /\ table \in TableType  BY Rows, Types
<1>5. /\ \A q \in Slot : q # p => table'[q] = table[q]
      /\ table'[p].state = "RUNNING"
      /\ table'[p].parent = table[p].parent
      /\ table'[p].first_zombie = table[p].first_zombie
      /\ table'[p].next_zombie = table[p].next_zombie
      /\ table'[p].prev_zombie = table[p].prev_zombie
      /\ table'[p].children = table[p].children
  BY <1>1, <1>4 DEF TableType, RowType
<1>6. /\ pc'[a] = IF a = Startup THEN "boot_fill" ELSE "fill"
      /\ arg'[a] = p /\ maker'[p] = a
      /\ \A b \in Slot : b # a => pc'[b] = pc[b] /\ arg'[b] = arg[b]
      /\ \A q \in Slot : q # p => maker'[q] = IF maker[q] = p THEN Gone ELSE maker[q]
  BY <1>1, <1>4, Types
<1> QED  BY <1>2, <1>3, <1>5, <1>6, Types DEF AllocDoes, SpawnAlloc

LEMMA AllocKeeps ==
    ASSUME IInv, TypeOK', NEW a \in Actor, SpawnAlloc(a)
    PROVE  IInv'
<1>0. /\ TypeOK /\ PlaceInv /\ FillInv /\ CountInv /\ JoinInv /\ WaitInv
      /\ LiveInv /\ RunInv /\ ZombieInv /\ FreeInv /\ ListInv
      /\ load.joins => KinInv /\ ChildrenExact
  BY DEF IInv
<1>1. PICK p \in Row : AllocDoes(a, p)  BY <1>0, AllocEffect
<1>2. Actor = Slot /\ a \in Slot /\ p \in Slot /\ p # Startup /\ p # None  BY Rows, Types, <1>0
<1>3. PlaceInv'  BY <1>0, <1>1, <1>2, Rows DEF PlaceInv, AllocDoes
<1>4. FillInv'
  <2> SUFFICES ASSUME NEW b \in Slot, Filling(b)'
               PROVE  /\ arg'[b] \in Row
                      /\ pc'[arg'[b]] = "none"
                      /\ table'[arg'[b]].state = "RUNNING"
                      /\ maker'[arg'[b]] = b
                      /\ \A q \in Slot : maker'[q] # arg'[b]
    BY <1>2 DEF FillInv
  <2>1. CASE b = a
    <3>1. \A q \in Slot : maker'[q] # p  BY <1>1, <1>2, Rows DEF AllocDoes
    <3> QED  BY <1>1, <1>2, <2>1, <3>1 DEF AllocDoes
  <2>2. CASE b # a
    <3>1. Filling(b) /\ arg'[b] = arg[b]  BY <1>1, <2>2 DEF AllocDoes, Filling
    <3>2. /\ arg[b] \in Row /\ pc[arg[b]] = "none" /\ table[arg[b]].state = "RUNNING"
          /\ maker[arg[b]] = b /\ \A q \in Slot : maker[q] # arg[b]
      BY <1>0, <1>2, <3>1 DEF FillInv
    <3>3. arg[b] # p /\ arg[b] # a /\ b # p /\ arg[b] \in Slot
      BY <1>1, <3>1, <3>2, Rows DEF AllocDoes, Filling
    <3>4. \A q \in Slot : maker'[q] # arg[b]  BY <1>1, <3>2, <3>3, Rows DEF AllocDoes
    <3> QED  BY <1>1, <3>1, <3>2, <3>3, <3>4 DEF AllocDoes
  <2> QED  BY <2>1, <2>2
<1>5. CountInv'
  <2> SUFFICES ASSUME NEW b \in Slot, Counting(b)'
               PROVE  /\ table'[arg'[b]].parent = b
                      /\ table'[arg'[b]].prev_zombie = None
                      /\ table'[arg'[b]].next_zombie = None
                      /\ table'[arg'[b]].children = 0
    BY <1>2 DEF CountInv
  <2>1. b # a  BY <1>1 DEF AllocDoes, Counting
  <2>2. Counting(b) /\ Filling(b) /\ arg'[b] = arg[b]
    BY <1>1, <2>1 DEF AllocDoes, Counting, Filling
  <2>3. arg[b] \in Row /\ table[arg[b]].state = "RUNNING"
    BY <1>0, <1>2, <2>2 DEF FillInv
  <2>4. table'[arg[b]] = table[arg[b]]  BY <1>1, <2>3, Rows DEF AllocDoes
  <2> QED  BY <1>0, <1>2, <2>2, <2>4 DEF CountInv
<1>6. JoinInv'
  <2> SUFFICES ASSUME NEW b \in Slot, Joining(b)'
               PROVE  /\ Joining(b) /\ arg'[b] = arg[b]
                      /\ table'[arg[b]] = table[arg[b]] /\ maker'[arg[b]] = maker[arg[b]]
    BY <1>0, <1>1, <1>2 DEF JoinInv, AllocDoes
  <2>1. b # a  BY <1>1 DEF AllocDoes, Joining
  <2>2. Joining(b) /\ arg'[b] = arg[b]  BY <1>1, <2>1 DEF AllocDoes, Joining
  <2>3. arg[b] \in Row /\ maker[arg[b]] = b /\ table[arg[b]].state # "FREE"
    BY <1>0, <1>2, <2>2 DEF JoinInv
  <2>4. arg[b] # p /\ b # p /\ arg[b] \in Slot
    BY <1>1, <2>2, <2>3, Rows DEF AllocDoes, Joining
  <2> QED  BY <1>1, <2>2, <2>3, <2>4 DEF AllocDoes
<1>7. WaitInv'
  <2>1. ASSUME NEW b \in Slot PROVE pc[b] = "asleep" <=> pc'[b] = "asleep"
    BY <1>1 DEF AllocDoes
  <2>2. ASSUME NEW b \in Slot, pc[b] = "asleep" PROVE arg'[b] = arg[b]
    BY <1>1, <2>2 DEF AllocDoes
  <2>3. ASSUME NEW q \in Slot, waitq'[q] # <<>>
        PROVE  \E b \in Slot : waitq'[q] = <<b>> /\ pc'[b] = "asleep" /\ arg'[b] = q
    <3>1. PICK b \in Slot : waitq[q] = <<b>> /\ pc[b] = "asleep" /\ arg[b] = q
      BY <1>0, <1>1, <1>2, <2>3 DEF WaitInv, AllocDoes
    <3> QED  BY <1>1, <2>1, <2>2, <3>1 DEF AllocDoes
  <2>4. ASSUME NEW b \in Slot, pc'[b] = "asleep"
        PROVE  waitq'[arg'[b]] = <<b>> /\ table'[arg'[b]].state = "RUNNING"
    <3>1. waitq[arg[b]] = <<b>> /\ table[arg[b]].state = "RUNNING" /\ arg'[b] = arg[b]
      BY <1>0, <1>2, <2>1, <2>2, <2>4 DEF WaitInv
    <3>2. arg[b] \in Slot /\ arg[b] # p  BY <1>0, <1>1, <1>2, <3>1, Types DEF AllocDoes
    <3> QED  BY <1>1, <3>1, <3>2 DEF AllocDoes
  <2> QED  BY <1>2, <2>3, <2>4 DEF WaitInv
<1>8. LiveInv'
  <2> SUFFICES ASSUME NEW q \in Row, Alive(q)'
               PROVE  /\ Alive(q) /\ table'[q] = table[q] /\ maker'[q] \in {maker[q], Gone}
    BY <1>0 DEF LiveInv
  <2>1. q # p /\ Alive(q)  BY <1>1, Rows DEF AllocDoes, Alive
  <2> QED  BY <1>1, <2>1, Rows DEF AllocDoes
<1>9. RunInv'
  <2> SUFFICES ASSUME NEW q \in Row, table'[q].state = "RUNNING"
               PROVE  Alive(q)' \/ BeingFilled(q)'
    BY DEF RunInv
  <2>1. CASE q = p  BY <1>1, <1>2, <2>1 DEF AllocDoes, BeingFilled
  <2>2. CASE q # p
    <3>1. Alive(q) \/ BeingFilled(q)  BY <1>0, <1>1, <2>2, Rows DEF AllocDoes, RunInv
    <3>2. Alive(q) => Alive(q)'  BY <1>1, <2>2, Rows DEF AllocDoes, Alive
    <3>3. BeingFilled(q) => BeingFilled(q)'  BY <1>1, <1>2 DEF AllocDoes, BeingFilled
    <3> QED  BY <3>1, <3>2, <3>3
  <2> QED  BY <2>1, <2>2
<1>10. ZombieInv'
  <2> SUFFICES ASSUME NEW q \in Row, table'[q].state = "ZOMBIE"
               PROVE  table'[q] = table[q] /\ code' = code
    BY <1>0 DEF ZombieInv
  <2> QED  BY <1>1, Rows DEF AllocDoes
<1>11. FreeInv'
  <2> SUFFICES ASSUME NEW q \in Row, NEW r \in Row, table'[q].state = "FREE",
                      maker'[q] = r, table'[q].parent = r
               PROVE  ~ Alive(r)'
    BY DEF FreeInv
  <2>1. q # p /\ maker[q] = r /\ table'[q] = table[q]  BY <1>1, Rows DEF AllocDoes
  <2>2. ~ Alive(r)  BY <1>0, <2>1 DEF FreeInv
  <2> QED  BY <1>1, <2>2, Rows DEF AllocDoes, Alive
<1>12. ListInv'
  <2>1. ASSUME NEW r \in Row, Owner(r)' PROVE Owner(r)
    <3>1. Alive(r)' => Alive(r)  BY <1>1, Rows DEF AllocDoes, Alive
    <3>2. ASSUME NEW b \in Slot, Counting(b)', arg'[b] = r PROVE Counting(b) /\ arg[b] = r
      BY <1>1, <3>2 DEF AllocDoes, Counting
    <3>3. ASSUME NEW z \in Row, Alive(z)', table'[z].parent = r
          PROVE  Alive(z) /\ table[z].parent = r
      BY <1>1, <3>3, Rows DEF AllocDoes, Alive
    <3> QED  BY <1>2, <2>1, <3>1, <3>2, <3>3 DEF Owner
  <2>2. ASSUME NEW q \in Row
        PROVE  /\ table'[q].first_zombie = table[q].first_zombie
               /\ table'[q].next_zombie = table[q].next_zombie
               /\ table'[q].prev_zombie = table[q].prev_zombie
    BY <1>1, Rows DEF AllocDoes
  <2>3. ASSUME NEW q \in Row, table[q].state = "ZOMBIE"
        PROVE  /\ table'[q].state = "ZOMBIE"
               /\ table'[q].parent \in {table[q].parent, None}
               /\ maker'[q] \in {maker[q], Gone}
    BY <1>1, <2>3, Rows DEF AllocDoes
  <2>4. ASSUME NEW q \in Row, NEW r \in Row, table'[q].state = "ZOMBIE", maker'[q] = r, Alive(r)'
        PROVE  table[q].state = "ZOMBIE" /\ maker[q] = r /\ Alive(r)
    BY <1>1, <2>4, Rows DEF AllocDoes, Alive
  <2> QED  BY <1>0, <2>1, <2>2, <2>3, <2>4, ListSame
<1>13. ASSUME load'.joins PROVE KinInv' /\ ChildrenExact'
  <2>0. KinInv /\ ChildrenExact  BY <1>0, <1>1, <1>13 DEF AllocDoes
  <2>1. ASSUME NEW q \in Row, table'[q].state # "FREE"
        PROVE  maker'[q] # Gone /\ (maker'[q] \in Row => pc'[maker'[q]] # "none")
    <3>1. CASE q = p  BY <1>1, <1>2, <3>1, Rows DEF AllocDoes, Alive
    <3>2. CASE q # p
      <4>1. table[q].state # "FREE"  BY <1>1, <2>1, <3>2, Rows DEF AllocDoes
      <4>2. maker[q] # Gone /\ (maker[q] \in Row => Alive(maker[q]))
        BY <2>0, <4>1 DEF KinInv
      <4>3. maker[q] # p  BY <1>1, <4>2 DEF AllocDoes, Alive
      <4>4. maker'[q] = maker[q]  BY <1>1, <3>2, <4>3, Rows DEF AllocDoes
      <4> QED  BY <1>1, <4>2, <4>4, Rows DEF AllocDoes, Alive
    <3> QED  BY <3>1, <3>2
  <2>2. ASSUME NEW q \in Row, table'[q].state = "ZOMBIE"
        PROVE  table'[q].children = 0 /\ table'[q].parent = maker'[q]
    <3>1. q # p /\ table'[q] = table[q]  BY <1>1, <2>2, Rows DEF AllocDoes
    <3>2. /\ maker[q] \in Row => Alive(maker[q])
          /\ table[q].children = 0 /\ table[q].parent = maker[q]
      BY <2>0, <2>2, <3>1 DEF KinInv
    <3>3. maker[q] # p  BY <1>1, <3>2 DEF AllocDoes, Alive
    <3> QED  BY <1>1, <3>1, <3>2, <3>3, Rows DEF AllocDoes
  <2>3. ASSUME NEW r \in Row, Alive(r)'
        PROVE  table'[r].children = Cardinality(Spawned(r)')
    <3>1. r # p /\ Alive(r) /\ table'[r] = table[r]  BY <1>1, <2>3, Rows DEF AllocDoes, Alive
    <3>2. ASSUME NEW q \in Row PROVE q \in Spawned(r) <=> q \in Spawned(r)'
      <4>1. CASE q = p
        <5>1. q \notin Spawned(r)  BY <1>1, <4>1 DEF AllocDoes, Spawned
        <5>2. q \in Spawned(r)' => a = r  BY <1>1, <4>1 DEF AllocDoes, Spawned
        <5>3. a = r => pc'[r] = "fill" /\ arg'[r] = p  BY <1>1, Rows DEF AllocDoes
        <5>4. a = r => q \notin Spawned(r)'  BY <4>1, <5>3 DEF Spawned
        <5> QED  BY <5>1, <5>2, <5>4
      <4>2. CASE q # p
        <5>1. maker'[q] = r <=> maker[q] = r  BY <1>1, <3>1, <4>2, Rows DEF AllocDoes
        <5>2. table'[q] = table[q]  BY <1>1, <4>2, Rows DEF AllocDoes
        <5>3. (pc'[r] \in {"fill", "count"} /\ arg'[r] = q) <=> (pc[r] \in {"fill", "count"} /\ arg[r] = q)
          BY <1>1, <4>2, Rows DEF AllocDoes
        <5> QED  BY <5>1, <5>2, <5>3 DEF Spawned
      <4> QED  BY <4>1, <4>2
    <3>3. Spawned(r)' = Spawned(r)
      <4>1. Spawned(r) \subseteq Row /\ Spawned(r)' \subseteq Row  BY DEF Spawned
      <4> QED  BY <3>2, <4>1
    <3> QED  BY <2>0, <3>1, <3>3 DEF ChildrenExact, Alive
  <2> QED  BY <2>1, <2>2, <2>3 DEF KinInv, ChildrenExact, Alive
<1> QED  BY <1>3, <1>4, <1>5, <1>6, <1>7, <1>8, <1>9, <1>10, <1>11, <1>12, <1>13 DEF IInv

\* a fills in row p, for which nobody was spawned and in which nobody runs.
FillDoes(a, p) ==
    /\ p = arg[a] /\ p \in Row /\ a \in Slot /\ a # p
    /\ pc[a] \in {"fill", "boot_fill"} /\ pc[p] = "none" /\ maker[p] = a
    /\ table[p].state = "RUNNING" /\ table'[p].state = "RUNNING"
    /\ pc'[a] = IF a = Startup THEN "boot_count" ELSE "count"
    /\ \A b \in Slot : b # a => pc'[b] = pc[b]
    /\ \A q \in Slot : q # p => table'[q] = table[q]
    /\ table'[p].parent = a /\ table'[p].children = 0
    /\ table'[p].first_zombie = None
    /\ table'[p].next_zombie = None
    /\ table'[p].prev_zombie = None
    /\ arg' = arg /\ waitq' = waitq /\ code' = code /\ maker' = maker /\ load' = load

LEMMA FillEffect ==
    ASSUME TypeOK, PlaceInv, FillInv, NEW a \in Actor, SpawnFill(a)
    PROVE  FillDoes(a, arg[a])
<1> PICK p : p = arg[a]  OBVIOUS
<1>1. /\ p \in Row /\ pc[p] = "none" /\ table[p].state = "RUNNING" /\ maker[p] = a
      /\ pc[a] \in {"fill", "boot_fill"}
  BY DEF FillInv, Filling, SpawnFill
<1>2. p \in Slot /\ a \in Slot /\ a # p /\ table \in TableType  BY <1>1, Rows, Types
<1>3. table' = [table EXCEPT ![p] = NewRow(table[p], a)]  BY DEF SpawnFill
<1>4. /\ NewRow(table[p], a).state = table[p].state
      /\ NewRow(table[p], a).parent = a /\ NewRow(table[p], a).children = 0
      /\ NewRow(table[p], a).first_zombie = None
      /\ NewRow(table[p], a).next_zombie = None
      /\ NewRow(table[p], a).prev_zombie = None
  <2>1. table[p] \in RowType  BY <1>2 DEF TableType
  <2> QED  BY <2>1 DEF NewRow, RowType
<1>5. table'[p] = NewRow(table[p], a) /\ \A q \in Slot : q # p => table'[q] = table[q]
  BY <1>2, <1>3 DEF TableType
<1>6. /\ pc'[a] = IF a = Startup THEN "boot_count" ELSE "count"
      /\ \A b \in Slot : b # a => pc'[b] = pc[b]
  BY <1>2, Types DEF SpawnFill
<1> QED  BY <1>1, <1>2, <1>4, <1>5, <1>6 DEF SpawnFill, FillDoes

LEMMA FillKeeps ==
    ASSUME IInv, TypeOK', NEW a \in Actor, SpawnFill(a)
    PROVE  IInv'
<1>0. /\ TypeOK /\ PlaceInv /\ FillInv /\ CountInv /\ JoinInv /\ WaitInv
      /\ LiveInv /\ RunInv /\ ZombieInv /\ FreeInv /\ ListInv
      /\ load.joins => KinInv /\ ChildrenExact
  BY DEF IInv
<1> PICK p : p = arg[a]  OBVIOUS
<1>1. FillDoes(a, p)  BY <1>0, FillEffect
<1>2. Actor = Slot /\ a \in Slot /\ p \in Row /\ p \in Slot /\ p # Startup /\ p # None
  BY <1>0, <1>1, Rows, Types DEF FillDoes
<1>3. PlaceInv'  BY <1>0, <1>1, <1>2, Rows DEF PlaceInv, FillDoes
<1>4. ASSUME NEW b \in Slot
      PROVE  /\ Filling(b)' <=> Filling(b)
             /\ Joining(b)' <=> Joining(b)
             /\ Alive(b)' <=> Alive(b)
             /\ pc'[b] = "asleep" <=> pc[b] = "asleep"
             /\ pc'[b] \in {"fill", "count"} <=> pc[b] \in {"fill", "count"}
  <2>1. CASE b = a
    <3>1. a = Startup => pc[a] # "fill"  BY <1>0 DEF PlaceInv
    <3>2. a # Startup => pc[a] # "boot_fill"  BY <1>0, <1>2, Rows DEF PlaceInv
    <3> QED  BY <1>1, <2>1, <3>1, <3>2 DEF FillDoes, Filling, Joining, Alive
  <2>2. CASE b # a  BY <1>1, <2>2 DEF FillDoes, Filling, Joining, Alive
  <2> QED  BY <2>1, <2>2
<1>5. \A q \in Slot : table'[q].state = table[q].state  BY <1>1 DEF FillDoes
<1>6. FillInv'
  <2> SUFFICES ASSUME NEW b \in Slot, Filling(b)
               PROVE  /\ arg[b] \in Row
                      /\ pc'[arg[b]] = "none"
                      /\ table'[arg[b]].state = "RUNNING"
                      /\ maker[arg[b]] = b
                      /\ \A q \in Slot : maker[q] # arg[b]
    BY <1>1, <1>2, <1>4 DEF FillInv, FillDoes
  <2>1. /\ arg[b] \in Row /\ pc[arg[b]] = "none" /\ table[arg[b]].state = "RUNNING"
        /\ maker[arg[b]] = b /\ \A q \in Slot : maker[q] # arg[b]
    BY <1>0, <1>2 DEF FillInv
  <2> QED  BY <1>4, <1>5, <2>1, Rows DEF Alive
<1>7. CountInv'
  <2> SUFFICES ASSUME NEW b \in Slot, Counting(b)'
               PROVE  /\ table'[arg[b]].parent = b
                      /\ table'[arg[b]].prev_zombie = None
                      /\ table'[arg[b]].next_zombie = None
                      /\ table'[arg[b]].children = 0
    BY <1>1, <1>2 DEF CountInv, FillDoes
  <2>1. CASE b = a  BY <1>1, <2>1 DEF FillDoes
  <2>2. CASE b # a
    <3>1. Counting(b) /\ Filling(b)  BY <1>1, <2>2 DEF FillDoes, Counting, Filling
    <3>2. arg[b] \in Row /\ maker[arg[b]] = b  BY <1>0, <1>2, <3>1 DEF FillInv
    <3>3. table'[arg[b]] = table[arg[b]]  BY <1>1, <2>2, <3>2, Rows DEF FillDoes
    <3> QED  BY <1>0, <1>2, <3>1, <3>3 DEF CountInv
  <2> QED  BY <2>1, <2>2
<1>8. JoinInv'
  <2> SUFFICES ASSUME NEW b \in Slot, Joining(b) PROVE table'[arg[b]] = table[arg[b]]
    BY <1>0, <1>1, <1>2, <1>4 DEF JoinInv, FillDoes
  <2>1. arg[b] \in Row /\ maker[arg[b]] = b  BY <1>0, <1>2 DEF JoinInv
  <2>2. b # a  BY <1>1 DEF FillDoes, Joining
  <2> QED  BY <1>1, <2>1, <2>2, Rows DEF FillDoes
<1>9. WaitInv'
  <2>1. arg' = arg /\ waitq' = waitq  BY <1>1 DEF FillDoes
  <2>2. \A b \in Slot : arg[b] \in Slot  BY <1>0, <1>2, Types
  <2> QED  BY <1>0, <1>2, <1>4, <1>5, <2>1, <2>2 DEF WaitInv
<1>10. LiveInv'
  <2> SUFFICES ASSUME NEW q \in Row, Alive(q)'
               PROVE  Alive(q) /\ table'[q] = table[q] /\ maker' = maker
    BY <1>0 DEF LiveInv
  <2> QED  BY <1>1, <1>4, Rows DEF FillDoes, Alive
<1>11. RunInv'
  <2> SUFFICES ASSUME NEW q \in Row, table[q].state = "RUNNING"
               PROVE  Alive(q)' \/ BeingFilled(q)'
    BY <1>5, Rows DEF RunInv
  <2>1. Alive(q) \/ BeingFilled(q)  BY <1>0 DEF RunInv
  <2>2. BeingFilled(q) => BeingFilled(q)'
    BY <1>1, <1>2, <1>4 DEF FillDoes, BeingFilled, Filling
  <2> QED  BY <1>4, <2>1, <2>2, Rows
<1>12. ZombieInv'
  <2> SUFFICES ASSUME NEW q \in Row, table'[q].state = "ZOMBIE"
               PROVE  table'[q] = table[q] /\ code' = code
    BY <1>0 DEF ZombieInv
  <2> QED  BY <1>1, Rows DEF FillDoes
<1>13. FreeInv'
  <2> SUFFICES ASSUME NEW q \in Row, table'[q].state = "FREE"
               PROVE  table'[q] = table[q] /\ maker' = maker
    BY <1>0, <1>4, Rows DEF FreeInv
  <2> QED  BY <1>1, Rows DEF FillDoes
<1>14. ListInv'
  <2>1. table \in TableType /\ table' \in TableType
    <3>1. TypeOK' => table' \in TableType  BY DEF TypeOK, TableType, RowType
    <3> QED  BY <1>0, <3>1, Types
  <2>2. ASSUME NEW r \in Row, r # p, Owner(r)' PROVE Owner(r)
    <3>1. ASSUME NEW b \in Slot, Counting(b)', arg'[b] = r PROVE Counting(b) /\ arg[b] = r
      BY <1>1, <2>2, <3>1 DEF FillDoes, Counting
    <3>2. ASSUME NEW z \in Row, Alive(z)', table'[z].parent = r
          PROVE  Alive(z) /\ table[z].parent = r
      BY <1>1, <1>4, <3>2, Rows DEF FillDoes, Alive
    <3> QED  BY <1>2, <1>4, <2>2, <3>1, <3>2, Rows DEF Owner
  <2>3. ASSUME NEW r \in Row, r # p, Owner(r)
        PROVE  /\ Linked(table, r) /\ MemberInv(r)
               /\ \A q \in Zombies(table, r) : table'[q] = table[q]
               /\ Zombies(table', r) = Zombies(table, r) /\ Linked(table', r)
    <3>1. Linked(table, r) /\ MemberInv(r)  BY <1>0, <2>3 DEF ListInv
    <3>2. ASSUME NEW q \in Zombies(table, r) PROVE table'[q] = table[q]
      <4>1. q \in Slot /\ table[q].state = "ZOMBIE"  BY <3>1, ZombiesFinite, Rows DEF MemberInv
      <4> QED  BY <1>1, <4>1 DEF FillDoes
    <3>3. r \in Slot /\ table'[r] = table[r]  BY <1>1, <2>3, Rows DEF FillDoes
    <3> QED  BY <2>1, <3>1, <3>2, <3>3, ZombiesSame, LinkedSame
  <2>4. Zombies(table', p) = {} /\ Linked(table', p)
    <3>1. ~ (table'[p].first_zombie >= 0)  BY <1>1, Rows DEF FillDoes
    <3>2. Zombies(table', p) = {}  BY <3>1, ZombiesNone
    <3> QED  BY <3>1, <3>2 DEF Linked
  <2>5. ASSUME NEW r \in Row, Owner(r)' PROVE Linked(table, r)' /\ MemberInv(r)'
    <3>1. CASE r = p  BY <2>4, <3>1 DEF MemberInv
    <3>2. CASE r # p
      <4>1. Owner(r)  BY <2>2, <2>5, <3>2
      <4>2. maker' = maker  BY <1>1 DEF FillDoes
      <4> QED  BY <2>3, <3>2, <4>1, <4>2 DEF MemberInv
    <3> QED  BY <3>1, <3>2
  <2>6. ASSUME NEW r \in Row, Alive(r)', NEW q \in Row, table'[q].state = "ZOMBIE", maker'[q] = r
        PROVE  q \in Zombies(table', r)
    <3>1. Alive(r) /\ r # p  BY <1>1, <1>4, <2>6, Rows DEF FillDoes, Alive
    <3>2. Owner(r)  BY <3>1 DEF Owner
    <3>3. q \in Zombies(table, r)
      BY <1>0, <1>1, <1>5, <2>6, <3>1, Rows DEF ListInv, FillDoes
    <3> QED  BY <2>3, <3>1, <3>2, <3>3
  <2>7. ASSUME NEW r \in Row, NEW s \in Row, Owner(r)', Owner(s)', r # s,
               NEW q \in Zombies(table', r)
        PROVE  q \notin Zombies(table', s)
    <3>1. CASE r = p \/ s = p  BY <2>4, <2>7, <3>1
    <3>2. CASE r # p /\ s # p
      <4>1. Owner(r) /\ Owner(s)  BY <2>2, <2>7, <3>2
      <4>2. /\ Zombies(table', r) = Zombies(table, r)
            /\ Zombies(table', s) = Zombies(table, s)
        BY <2>3, <3>2, <4>1
      <4> QED  BY <1>0, <2>7, <4>1, <4>2 DEF ListInv
    <3> QED  BY <3>1, <3>2
  <2> QED  BY <2>5, <2>6, <2>7 DEF ListInv
<1>15. ASSUME load'.joins PROVE KinInv' /\ ChildrenExact'
  <2>0. KinInv /\ ChildrenExact /\ maker' = maker /\ arg' = arg
    BY <1>0, <1>1, <1>15 DEF FillDoes
  <2>1. ASSUME NEW q \in Row, table'[q].state # "FREE"
        PROVE  maker'[q] # Gone /\ (maker'[q] \in Row => pc'[maker'[q]] # "none")
    BY <1>4, <1>5, <2>0, <2>1, Rows DEF KinInv, Alive
  <2>2. ASSUME NEW q \in Row, table'[q].state = "ZOMBIE"
        PROVE  table'[q].children = 0 /\ table'[q].parent = maker'[q]
    <3>1. table'[q] = table[q]  BY <1>1, <2>2, Rows DEF FillDoes
    <3> QED  BY <2>0, <2>2, <3>1 DEF KinInv
  <2>3. ASSUME NEW r \in Row, Alive(r)'
        PROVE  table'[r].children = Cardinality(Spawned(r)')
    <3>1. Alive(r) /\ table'[r] = table[r]  BY <1>1, <1>4, <2>3, Rows DEF FillDoes, Alive
    <3>2. Spawned(r)' = Spawned(r)
      BY <1>4, <1>5, <2>0, Rows DEF Spawned
    <3> QED  BY <2>0, <3>1, <3>2 DEF ChildrenExact, Alive
  <2> QED  BY <2>1, <2>2, <2>3 DEF KinInv, ChildrenExact, Alive
<1> QED  BY <1>3, <1>6, <1>7, <1>8, <1>9, <1>10, <1>11, <1>12, <1>13, <1>14, <1>15 DEF IInv

\* a counts its child p and lets it run.
RunDoes(a, p) ==
    /\ p = arg[a] /\ p \in Row /\ a \in Slot /\ a # p
    /\ Counting(a) /\ pc[p] = "none"
    /\ a \in Row => pc[a] = "count"
    /\ pc'[a] = IF a = Startup THEN "boot_join" ELSE "user"
    /\ pc'[p] = "user"
    /\ \A b \in Slot : b # a /\ b # p => pc'[b] = pc[b]
    /\ \A q \in Slot : q # a => table'[q] = table[q]
    /\ \A q \in Slot : /\ table'[q].state = table[q].state
                       /\ table'[q].parent = table[q].parent
                       /\ table'[q].retval = table[q].retval
                       /\ table'[q].first_zombie = table[q].first_zombie
                       /\ table'[q].next_zombie = table[q].next_zombie
                       /\ table'[q].prev_zombie = table[q].prev_zombie
    /\ a \in Row => table'[a].children = table[a].children + 1
    /\ arg' = arg /\ waitq' = waitq /\ code' = code /\ maker' = maker /\ load' = load

LEMMA RunEffect ==
    ASSUME TypeOK, PlaceInv, FillInv, NEW a \in Actor, SpawnRun(a)
    PROVE  RunDoes(a, arg[a])
<1> PICK p : p = arg[a]  OBVIOUS
<1>1. p \in Row /\ pc[p] = "none" /\ Counting(a)
  BY DEF FillInv, Filling, Counting, SpawnRun
<1>2. p \in Slot /\ a \in Slot /\ a # p /\ table \in TableType
  BY <1>1, Rows, Types DEF Counting
<1>3. table' = IF a \in Row THEN [table EXCEPT ![a].children = @ + 1] ELSE table
  BY <1>2, Rows DEF SpawnRun, CountChild
<1>4. table[a] \in RowType  BY <1>2 DEF TableType
<1>5. /\ \A q \in Slot : q # a => table'[q] = table[q]
      /\ table'[a].state = table[a].state
      /\ table'[a].parent = table[a].parent
      /\ table'[a].retval = table[a].retval
      /\ table'[a].first_zombie = table[a].first_zombie
      /\ table'[a].next_zombie = table[a].next_zombie
      /\ table'[a].prev_zombie = table[a].prev_zombie
      /\ a \in Row => table'[a].children = table[a].children + 1
  BY <1>2, <1>3, <1>4 DEF TableType, RowType
<1>6. /\ pc'[a] = IF a = Startup THEN "boot_join" ELSE "user"
      /\ pc'[p] = "user"
      /\ \A b \in Slot : b # a /\ b # p => pc'[b] = pc[b]
  BY <1>2, Types DEF SpawnRun
<1>7. a \in Row => pc[a] = "count"  BY <1>1 DEF PlaceInv, Counting
<1> QED  BY <1>1, <1>2, <1>5, <1>6, <1>7 DEF SpawnRun, RunDoes

LEMMA RunKeeps ==
    ASSUME IInv, TypeOK', NEW a \in Actor, SpawnRun(a)
    PROVE  IInv'
<1>0. /\ TypeOK /\ PlaceInv /\ FillInv /\ CountInv /\ JoinInv /\ WaitInv
      /\ LiveInv /\ RunInv /\ ZombieInv /\ FreeInv /\ ListInv
      /\ load.joins => KinInv /\ ChildrenExact
  BY DEF IInv
<1> PICK p : p = arg[a]  OBVIOUS
<1>1. RunDoes(a, p)  BY <1>0, RunEffect
<1>2. Actor = Slot /\ a \in Slot /\ p \in Row /\ p \in Slot /\ p # Startup /\ p # None
  BY <1>0, <1>1, Rows, Types DEF RunDoes
<1>3. /\ table[p].state = "RUNNING" /\ maker[p] = a /\ \A q \in Slot : maker[q] # p
      /\ table[p].parent = a /\ table[p].prev_zombie = None
      /\ table[p].next_zombie = None /\ table[p].children = 0
  <2>1. Counting(a) /\ Filling(a)  BY <1>1 DEF RunDoes, Counting, Filling
  <2> QED  BY <1>0, <1>2, <2>1 DEF FillInv, CountInv
<1>4. PlaceInv'
  <2>1. a = Startup \/ a \in Row  BY <1>2, Rows
  <2> QED  BY <1>0, <1>1, <1>2, <2>1, Rows DEF PlaceInv, RunDoes
<1>5. ASSUME NEW b \in Slot
      PROVE  /\ Filling(b)' => Filling(b) /\ b # a
             /\ Alive(b) => Alive(b)'
             /\ Alive(b)' => Alive(b) \/ b = p
             /\ pc'[b] = "asleep" <=> pc[b] = "asleep"
  BY <1>1 DEF RunDoes, Filling, Counting, Alive
<1>6. FillInv'
  <2> SUFFICES ASSUME NEW b \in Slot, Filling(b)'
               PROVE  /\ arg[b] \in Row
                      /\ pc'[arg[b]] = "none"
                      /\ table'[arg[b]].state = "RUNNING"
                      /\ maker[arg[b]] = b
                      /\ \A q \in Slot : maker[q] # arg[b]
    BY <1>1, <1>2 DEF FillInv, RunDoes
  <2>1. /\ arg[b] \in Row /\ pc[arg[b]] = "none" /\ table[arg[b]].state = "RUNNING"
        /\ maker[arg[b]] = b /\ \A q \in Slot : maker[q] # arg[b]
    BY <1>0, <1>2, <1>5 DEF FillInv
  <2>2. arg[b] # p /\ arg[b] # a  BY <1>1, <1>3, <1>5, <2>1 DEF RunDoes, Counting
  <2> QED  BY <1>1, <2>1, <2>2, Rows DEF RunDoes
<1>7. CountInv'
  <2> SUFFICES ASSUME NEW b \in Slot, Counting(b)'
               PROVE  Counting(b) /\ arg' = arg /\ table'[arg[b]] = table[arg[b]]
    BY <1>0, <1>2 DEF CountInv
  <2>1. Filling(b)' /\ Counting(b)  BY <1>1 DEF RunDoes, Counting, Filling
  <2>2. arg[b] \in Row /\ pc[arg[b]] = "none"  BY <1>0, <1>2, <1>5, <2>1 DEF FillInv
  <2>3. arg[b] # a  BY <1>1, <2>2 DEF RunDoes, Counting
  <2> QED  BY <1>1, <2>1, <2>2, <2>3, Rows DEF RunDoes
<1>8. JoinInv'
  <2> SUFFICES ASSUME NEW b \in Slot, Joining(b)'
               PROVE  /\ arg[b] \in Row
                      /\ maker[arg[b]] = b
                      /\ table[arg[b]].parent = b
                      /\ table[arg[b]].state # "FREE"
                      /\ table[arg[b]].state = "ZOMBIE" => table[arg[b]].retval = code[arg[b]]
                      /\ b = Startup => /\ table[arg[b]].prev_zombie = None
                                        /\ table[arg[b]].next_zombie = None
    BY <1>1, <1>2, Rows DEF JoinInv, RunDoes
  <2>1. CASE b = a  BY <1>2, <1>3, <2>1
  <2>2. CASE b # a
    <3>1. Joining(b)  BY <1>1, <2>2 DEF RunDoes, Joining
    <3> QED  BY <1>0, <1>2, <3>1 DEF JoinInv
  <2> QED  BY <2>1, <2>2
<1>9. WaitInv'
  <2>1. arg' = arg /\ waitq' = waitq  BY <1>1 DEF RunDoes
  <2>2. \A b \in Slot : arg[b] \in Slot  BY <1>0, <1>2, Types
  <2>3. \A q \in Slot : table'[q].state = table[q].state  BY <1>1 DEF RunDoes
  <2> QED  BY <1>0, <1>2, <1>5, <2>1, <2>2, <2>3 DEF WaitInv
<1>10. LiveInv'
  <2> SUFFICES ASSUME NEW q \in Row, Alive(q)'
               PROVE  /\ table[q].state = "RUNNING"
                      /\ table[q].parent # q
                      /\ table[q].prev_zombie = None
                      /\ table[q].next_zombie = None
                      /\ maker[q] \in {Gone, table[q].parent}
    BY <1>1, Rows DEF LiveInv, RunDoes
  <2>1. CASE q = p  BY <1>1, <1>3, <2>1 DEF RunDoes
  <2>2. CASE q # p  BY <1>0, <1>5, <2>2, Rows DEF LiveInv
  <2> QED  BY <2>1, <2>2
<1>11. RunInv'
  <2> SUFFICES ASSUME NEW q \in Row, table[q].state = "RUNNING"
               PROVE  Alive(q)' \/ BeingFilled(q)'
    BY <1>1, Rows DEF RunInv, RunDoes
  <2>1. Alive(q) \/ BeingFilled(q)  BY <1>0 DEF RunInv
  <2>2. ASSUME BeingFilled(q), q # p PROVE BeingFilled(q)'
    <3>1. PICK b \in Slot : arg[b] = q /\ Filling(b)
      BY <1>2, <2>2 DEF BeingFilled, Filling
    <3>2. b # a /\ b # p  BY <1>1, <2>2, <3>1 DEF RunDoes, Filling
    <3> QED  BY <1>1, <1>2, <3>1, <3>2 DEF RunDoes, Filling, BeingFilled
  <2>3. Alive(p)'  BY <1>1 DEF RunDoes, Alive
  <2> QED  BY <1>5, <2>1, <2>2, <2>3, Rows
<1>12. ZombieInv'  BY <1>0, <1>1, Rows DEF ZombieInv, RunDoes
<1>13. FreeInv'
  <2> SUFFICES ASSUME NEW q \in Row, NEW r \in Row, table[q].state = "FREE",
                      maker[q] = r, table[q].parent = r
               PROVE  ~ Alive(r)'
    BY <1>1, Rows DEF FreeInv, RunDoes
  <2>1. ~ Alive(r)  BY <1>0 DEF FreeInv
  <2>2. r # p  BY <1>3, Rows
  <2> QED  BY <1>5, <2>1, <2>2, Rows
<1>14. ListInv'
  <2>1. ASSUME NEW r \in Row, Owner(r)' PROVE Owner(r)
    <3>1. Owner(p)  BY <1>1, <1>2 DEF Owner, RunDoes
    <3>2. a \in Row => Owner(a)  BY <1>1 DEF Owner, RunDoes, Alive, Counting
    <3>3. ASSUME NEW b \in Slot, Counting(b)', arg'[b] = r PROVE Counting(b) /\ arg[b] = r
      BY <1>1, <3>3 DEF RunDoes, Counting
    <3>4. ASSUME NEW z \in Row, Alive(z)', table'[z].parent = r
          PROVE  (Alive(z) /\ table[z].parent = r) \/ r = a
      BY <1>1, <1>3, <1>5, <3>4, Rows DEF RunDoes
    <3> QED  BY <1>2, <1>5, <2>1, <3>1, <3>2, <3>3, <3>4, Rows DEF Owner
  <2>2. ASSUME NEW q \in Row
        PROVE  /\ table'[q].first_zombie = table[q].first_zombie
               /\ table'[q].next_zombie = table[q].next_zombie
               /\ table'[q].prev_zombie = table[q].prev_zombie
               /\ table'[q].state = table[q].state
               /\ table'[q].parent = table[q].parent
               /\ maker'[q] = maker[q] /\ maker[q] # p
    BY <1>1, <1>3, Rows DEF RunDoes
  <2>3. ASSUME NEW q \in Row, NEW r \in Row, table'[q].state = "ZOMBIE", maker'[q] = r, Alive(r)'
        PROVE  table[q].state = "ZOMBIE" /\ maker[q] = r /\ Alive(r)
    BY <1>5, <2>2, <2>3, Rows
  <2> QED  BY <1>0, <2>1, <2>2, <2>3, ListSame
<1>15. ASSUME load'.joins PROVE KinInv' /\ ChildrenExact'
  <2>0. KinInv /\ ChildrenExact /\ maker' = maker /\ arg' = arg
    BY <1>0, <1>1, <1>15 DEF RunDoes
  <2>1. ASSUME NEW q \in Row, table'[q].state # "FREE"
        PROVE  maker'[q] # Gone /\ (maker'[q] \in Row => pc'[maker'[q]] # "none")
    BY <1>1, <1>5, <2>0, <2>1, Rows DEF KinInv, Alive, RunDoes
  <2>2. ASSUME NEW q \in Row, table'[q].state = "ZOMBIE"
        PROVE  table'[q].children = 0 /\ table'[q].parent = maker'[q]
    <3>1. table[q].state = "ZOMBIE"  BY <1>1, <2>2, Rows DEF RunDoes
    <3>2. q # a  BY <1>0, <1>1, <2>2, <3>1 DEF LiveInv, Alive, RunDoes, Counting
    <3>3. table'[q] = table[q]  BY <1>1, <3>2, Rows DEF RunDoes
    <3> QED  BY <2>0, <3>1, <3>3 DEF KinInv
  <2>3. ASSUME NEW r \in Row, Alive(r)'
        PROVE  table'[r].children = Cardinality(Spawned(r)')
    <3>1. CASE r = p
      <4>1. Spawned(r)' = {}  BY <1>3, <2>0, <3>1, Rows DEF Spawned
      <4>2. table'[r].children = 0  BY <1>1, <1>2, <1>3, <3>1 DEF RunDoes
      <4> QED  BY <4>1, <4>2, FS_EmptySet
    <3>2. CASE r = a
      <4> PICK U : U = Spawned(a)  OBVIOUS
      <4>1. pc[a] = "count" /\ pc'[a] = "user" /\ a \in Row /\ a # Startup
        BY <1>1, <3>2, Rows DEF RunDoes
      <4>2. p \notin U  BY <4>1 DEF Spawned
      <4>3. Spawned(a)' = U \cup {p}
        <5>1. ASSUME NEW q \in Row PROVE q \in Spawned(a)' <=> maker[q] = a /\ table[q].state # "FREE"
          BY <1>1, <2>0, <4>1, Rows DEF Spawned, RunDoes
        <5>2. ASSUME NEW q \in Row, q # p PROVE q \in U <=> maker[q] = a /\ table[q].state # "FREE"
          BY <5>2 DEF Spawned
        <5>3. Spawned(a)' \subseteq Row /\ U \subseteq Row  BY DEF Spawned
        <5> QED  BY <1>2, <1>3, <5>1, <5>2, <5>3
      <4>4. IsFiniteSet(U)  BY Rows, FS_Subset DEF Spawned
      <4>5. Cardinality(U \cup {p}) = Cardinality(U) + 1  BY <4>2, <4>4, FS_AddElement
      <4>6. table[a].children = Cardinality(U)
        BY <2>0, <4>1 DEF ChildrenExact
      <4>7. table'[a].children = table[a].children + 1  BY <1>1, <4>1 DEF RunDoes
      <4> QED  BY <3>2, <4>3, <4>5, <4>6, <4>7
    <3>3. CASE r # p /\ r # a
      <4>1. Alive(r) /\ table'[r] = table[r] /\ pc'[r] = pc[r]
        BY <1>1, <1>5, <2>3, <3>3, Rows DEF RunDoes
      <4>2. Spawned(r)' = Spawned(r)
        BY <1>1, <2>0, <4>1, Rows DEF Spawned, RunDoes
      <4> QED  BY <2>0, <4>1, <4>2 DEF ChildrenExact, Alive
    <3> QED  BY <3>1, <3>2, <3>3
  <2> QED  BY <2>1, <2>2, <2>3 DEF KinInv, ChildrenExact, Alive
<1> QED  BY <1>4, <1>6, <1>7, <1>8, <1>9, <1>10, <1>11, <1>12, <1>13, <1>14, <1>15 DEF IInv

\* A step by which a process only goes on in user code or process_join.
LEMMA QuietKeeps ==
    ASSUME IInv, TypeOK', table' = table, maker' = maker, code' = code, load' = load,
           \A b \in Slot :
              \/ pc'[b] = pc[b] /\ arg'[b] = arg[b]
              \/ /\ pc[b] \in {"user", "join", "asleep", "boot_join"}
                 /\ pc'[b] \in {"user", "join", "asleep", "boot_join"}
    PROVE  /\ FillInv' /\ CountInv' /\ LiveInv' /\ RunInv' /\ ZombieInv' /\ FreeInv'
           /\ ListInv' /\ (load'.joins => KinInv' /\ ChildrenExact')
<1>0. /\ TypeOK /\ FillInv /\ CountInv /\ LiveInv /\ RunInv /\ ZombieInv /\ FreeInv
      /\ ListInv /\ (load.joins => KinInv /\ ChildrenExact)
      /\ Actor = Slot
  BY Types DEF IInv
<1>1. ASSUME NEW b \in Slot
      PROVE  /\ Alive(b)' <=> Alive(b)
             /\ Filling(b)' <=> Filling(b)
             /\ Counting(b)' <=> Counting(b)
             /\ Filling(b) => arg'[b] = arg[b]
             /\ pc'[b] \in {"fill", "count"} <=> pc[b] \in {"fill", "count"}
  BY DEF Alive, Filling, Counting
<1>2. FillInv'
  <2> SUFFICES ASSUME NEW b \in Slot, Filling(b)'
               PROVE  /\ arg'[b] \in Row /\ pc'[arg'[b]] = "none"
                      /\ table'[arg'[b]].state = "RUNNING" /\ maker'[arg'[b]] = b
                      /\ \A q \in Slot : maker'[q] # arg'[b]
    BY <1>0 DEF FillInv
  <2>1. /\ arg[b] \in Row /\ pc[arg[b]] = "none" /\ table[arg[b]].state = "RUNNING"
        /\ maker[arg[b]] = b /\ \A q \in Slot : maker[q] # arg[b]
    BY <1>0, <1>1 DEF FillInv
  <2> QED  BY <1>1, <2>1, Rows DEF Alive
<1>3. CountInv'
  <2> SUFFICES ASSUME NEW b \in Slot, Counting(b)' PROVE Counting(b) /\ arg'[b] = arg[b]
    BY <1>0 DEF CountInv
  <2>1. Filling(b)'  BY DEF Counting, Filling
  <2> QED  BY <1>1, <2>1
<1>4. LiveInv'  BY <1>0, <1>1, Rows DEF LiveInv
<1>5. ASSUME NEW q \in Row, BeingFilled(q) PROVE BeingFilled(q)'
  <2>1. PICK b \in Slot : arg[b] = q /\ Filling(b)
    BY <1>0, <1>5 DEF BeingFilled, Filling
  <2>2. Filling(b)' /\ arg'[b] = q  BY <1>1, <2>1
  <2> QED  BY <1>0, <2>2 DEF BeingFilled, Filling
<1>6. RunInv'  BY <1>0, <1>1, <1>5, Rows DEF RunInv
<1>7. ZombieInv'  BY <1>0 DEF ZombieInv
<1>8. FreeInv'  BY <1>0, <1>1, Rows DEF FreeInv
<1>9. ListInv'
  <2>1. ASSUME NEW r \in Row, Owner(r)' PROVE Owner(r)
    <3>1. ASSUME NEW b \in Slot, Counting(b)', arg'[b] = r PROVE Counting(b) /\ arg[b] = r
      <4>1. Filling(b)  BY <1>1, <3>1 DEF Counting, Filling
      <4> QED  BY <1>1, <3>1, <4>1
    <3> QED  BY <1>0, <1>1, <2>1, <3>1, Rows DEF Owner
  <2>2. ASSUME NEW r \in Row, Alive(r)' PROVE Alive(r)  BY <1>1, <2>2, Rows
  <2> QED  BY <1>0, <2>1, <2>2, ListSame
<1>10. ASSUME load'.joins PROVE KinInv' /\ ChildrenExact'
  <2>0. KinInv /\ ChildrenExact  BY <1>0, <1>10
  <2>1. KinInv'
    <3>1. ASSUME NEW q \in Row, table'[q].state # "FREE"
          PROVE  maker'[q] # Gone /\ (maker'[q] \in Row => pc'[maker'[q]] # "none")
      BY <1>1, <2>0, <3>1, Rows DEF KinInv, Alive
    <3> QED  BY <2>0, <3>1 DEF KinInv, Alive
  <2>2. ASSUME NEW r \in Row PROVE Spawned(r)' = Spawned(r)
    <3>1. pc'[r] \in {"fill", "count"} <=> pc[r] \in {"fill", "count"}  BY <1>1, Rows
    <3>2. pc[r] \in {"fill", "count"} => arg'[r] = arg[r]  BY <1>1, Rows DEF Filling
    <3> QED  BY <3>1, <3>2 DEF Spawned
  <2>3. ChildrenExact'  BY <1>1, <2>0, <2>2, Rows DEF ChildrenExact, Alive
  <2> QED  BY <2>1, <2>3
<1> QED  BY <1>2, <1>3, <1>4, <1>6, <1>7, <1>8, <1>9, <1>10

LEMMA CheckKeeps ==
    ASSUME JoinsOwnOnly, IInv, TypeOK', NEW a \in Actor, NEW p \in Row, JoinCheck(a, p)
    PROVE  IInv'
<1>0. /\ TypeOK /\ PlaceInv /\ JoinInv /\ WaitInv /\ ZombieInv /\ FreeInv
      /\ Actor = Slot /\ a \in Slot /\ pc \in [Slot -> PC] /\ arg \in [Slot -> Slot]
  BY Types DEF IInv
<1>1. /\ \/ pc[a] = "user" /\ maker[p] = a
         \/ pc[a] = "boot_join" /\ p = arg[a]
      /\ table[p].parent = a
      /\ table' = table /\ maker' = maker /\ code' = code /\ load' = load /\ waitq' = waitq
      /\ pc'[a] = "join" /\ arg'[a] = p
      /\ \A b \in Slot : b # a => pc'[b] = pc[b] /\ arg'[b] = arg[b]
  BY <1>0 DEF JoinCheck, MayJoin
<1>2. /\ FillInv' /\ CountInv' /\ LiveInv' /\ RunInv' /\ ZombieInv' /\ FreeInv'
      /\ ListInv' /\ (load'.joins => KinInv' /\ ChildrenExact')
  BY <1>1, QuietKeeps
<1>3. PlaceInv'  BY <1>0, <1>1, Rows DEF PlaceInv
<1>4. JoinInv'
  <2> SUFFICES ASSUME NEW b \in Slot, Joining(b)'
               PROVE  /\ arg'[b] \in Row
                      /\ maker[arg'[b]] = b
                      /\ table[arg'[b]].parent = b
                      /\ table[arg'[b]].state # "FREE"
                      /\ table[arg'[b]].state = "ZOMBIE" => table[arg'[b]].retval = code[arg'[b]]
                      /\ b = Startup => /\ table[arg'[b]].prev_zombie = None
                                        /\ table[arg'[b]].next_zombie = None
    BY <1>0, <1>1 DEF JoinInv
  <2>1. CASE b # a
    <3>1. Joining(b) /\ arg'[b] = arg[b]  BY <1>1, <2>1 DEF Joining
    <3> QED  BY <1>0, <3>1 DEF JoinInv
  <2>2. CASE b = a /\ pc[a] = "boot_join"
    <3>1. Joining(b) /\ arg'[b] = arg[b]  BY <1>1, <2>2 DEF Joining
    <3> QED  BY <1>0, <3>1 DEF JoinInv
  <2>3. CASE b = a /\ pc[a] = "user"
    <3>1. a # Startup /\ a \in Row /\ a # None  BY <1>0, <2>3, Rows DEF PlaceInv
    <3>2. table[p].state # "FREE"  BY <1>0, <1>1, <2>3, <3>1 DEF FreeInv, Alive
    <3>3. table[p].state = "ZOMBIE" => table[p].retval = code[p]
      BY <1>0, <1>1, <3>1 DEF ZombieInv
    <3> QED  BY <1>1, <2>3, <3>1, <3>2, <3>3
  <2> QED  BY <1>1, <2>1, <2>2, <2>3
<1>5. WaitInv'
  <2>1. ASSUME NEW b \in Slot
        PROVE  /\ pc'[b] = "asleep" <=> pc[b] = "asleep"
               /\ pc[b] = "asleep" => arg'[b] = arg[b]
    BY <1>1
  <2> QED  BY <1>0, <1>1, <2>1 DEF WaitInv
<1> QED  BY <1>2, <1>3, <1>4, <1>5 DEF IInv

LEMMA WaitKeeps ==
    ASSUME IInv, TypeOK', NEW a \in Actor, JoinWait(a)
    PROVE  IInv'
<1>0. /\ TypeOK /\ PlaceInv /\ JoinInv /\ WaitInv
      /\ Actor = Slot /\ a \in Slot /\ pc \in [Slot -> PC]
      /\ waitq \in [Slot -> Seq(Slot)] /\ arg \in [Slot -> Slot] /\ table \in TableType
  BY Types DEF IInv
<1> PICK p : p = arg[a]  OBVIOUS
<1>1. /\ pc[a] = "join" /\ table[p].state # "ZOMBIE" /\ p \in Slot
      /\ table' = table /\ maker' = maker /\ code' = code /\ load' = load /\ arg' = arg
      /\ pc'[a] = "asleep"
      /\ \A b \in Slot : b # a => pc'[b] = pc[b]
      /\ waitq'[p] = Append(waitq[p], a)
      /\ \A q \in Slot : q # p => waitq'[q] = waitq[q]
  BY <1>0 DEF JoinWait, MustWait
<1>2. p \in Row /\ maker[p] = a /\ table[p].state = "RUNNING"
  <2>1. Joining(a)  BY <1>1 DEF Joining
  <2>2. p \in Row /\ maker[p] = a /\ table[p].state # "FREE"  BY <1>0, <2>1 DEF JoinInv
  <2>3. table[p].state \in {"FREE", "RUNNING", "ZOMBIE"}  BY <1>0, <1>1, TableFields
  <2> QED  BY <1>1, <2>2, <2>3
<1>3. waitq[p] = <<>>
  <2> SUFFICES ASSUME waitq[p] # <<>> PROVE FALSE  OBVIOUS
  <2>1. PICK b \in Slot : pc[b] = "asleep" /\ arg[b] = p  BY <1>0, <1>1 DEF WaitInv
  <2>2. Joining(b)  BY <2>1 DEF Joining
  <2>3. maker[p] = b  BY <1>0, <2>1, <2>2 DEF JoinInv
  <2> QED  BY <1>1, <1>2, <2>1, <2>3
<1>4. waitq'[p] = <<a>>  BY <1>1, <1>3
<1>5. /\ FillInv' /\ CountInv' /\ LiveInv' /\ RunInv' /\ ZombieInv' /\ FreeInv'
      /\ ListInv' /\ (load'.joins => KinInv' /\ ChildrenExact')
  BY <1>1, QuietKeeps
<1>6. PlaceInv'  BY <1>0, <1>1, Rows DEF PlaceInv
<1>7. JoinInv'
  <2>1. ASSUME NEW b \in Slot, Joining(b)' PROVE Joining(b)  BY <1>1, <2>1 DEF Joining
  <2> QED  BY <1>0, <1>1, <2>1 DEF JoinInv
<1>8. WaitInv'
  <2>1. ASSUME NEW q \in Slot, waitq'[q] # <<>>
        PROVE  \E b \in Slot : waitq'[q] = <<b>> /\ pc'[b] = "asleep" /\ arg'[b] = q
    <3>1. CASE q = p  BY <1>0, <1>1, <1>4, <3>1
    <3>2. CASE q # p
      <4>1. PICK b \in Slot : waitq[q] = <<b>> /\ pc[b] = "asleep" /\ arg[b] = q
        BY <1>0, <1>1, <2>1, <3>2 DEF WaitInv
      <4> QED  BY <1>1, <3>2, <4>1
    <3> QED  BY <3>1, <3>2
  <2>2. ASSUME NEW b \in Slot, pc'[b] = "asleep"
        PROVE  waitq'[arg'[b]] = <<b>> /\ table'[arg'[b]].state = "RUNNING"
    <3>1. CASE b = a  BY <1>1, <1>2, <1>4, <3>1
    <3>2. CASE b # a
      <4>1. /\ pc[b] = "asleep" /\ waitq[arg[b]] = <<b>> /\ table[arg[b]].state = "RUNNING"
            /\ arg[b] \in Slot
        BY <1>0, <1>1, <2>2, <3>2 DEF WaitInv
      <4>2. arg[b] # p
        <5>1. maker[arg[b]] = b  BY <1>0, <4>1 DEF JoinInv, Joining
        <5> QED  BY <1>2, <3>2, <5>1
      <4> QED  BY <1>1, <4>1, <4>2
    <3> QED  BY <3>1, <3>2
  <2> QED  BY <1>0, <2>1, <2>2 DEF WaitInv
<1> QED  BY <1>5, <1>6, <1>7, <1>8 DEF IInv

\* What UnlinkZombie does, field by field.
UnlinkDoes(t, u, a, p) ==
    \A q \in Slot :
        /\ u[q].state = t[q].state /\ u[q].retval = t[q].retval
        /\ u[q].parent = t[q].parent /\ u[q].children = t[q].children
        /\ u[q].first_zombie = IF q = a /\ t[a].first_zombie = p THEN t[p].next_zombie
                               ELSE t[q].first_zombie
        /\ u[q].next_zombie = IF q = t[p].prev_zombie /\ t[a].first_zombie # p
                              THEN t[p].next_zombie ELSE t[q].next_zombie
        /\ u[q].prev_zombie = IF t[p].next_zombie >= 0 /\ q = t[p].next_zombie
                              THEN IF t[a].first_zombie = p THEN None ELSE t[p].prev_zombie
                              ELSE t[q].prev_zombie

LEMMA UnlinkFields ==
    ASSUME NEW t \in TableType, NEW a \in Slot, NEW p \in Slot
    PROVE  UnlinkDoes(t, UnlinkZombie(t, a, p), a, p)
<1> PICK u : u = UnlinkZombie(t, a, p)  OBVIOUS
<1> PICK prev : prev = t[p].prev_zombie  OBVIOUS
<1> PICK next : next = t[p].next_zombie  OBVIOUS
<1> PICK u1 : u1 = [t EXCEPT ![a].first_zombie = next]  OBVIOUS
<1> PICK u2 : u2 = [t EXCEPT ![prev].next_zombie = next]  OBVIOUS
<1>1. prev \in Slot /\ next \in Slot  BY TableFields
<1>2. u1 \in TableType /\ u2 \in TableType  BY <1>1, TableUpdate
<1>3. ASSUME NEW q \in Slot
      PROVE  /\ u1[q].state = t[q].state /\ u1[q].retval = t[q].retval
             /\ u1[q].parent = t[q].parent /\ u1[q].children = t[q].children
             /\ u1[q].first_zombie = IF q = a THEN next ELSE t[q].first_zombie
             /\ u1[q].next_zombie = t[q].next_zombie
             /\ u1[q].prev_zombie = t[q].prev_zombie
  <2>1. t[q] \in RowType  BY DEF TableType
  <2> QED  BY <2>1 DEF TableType, RowType
<1>4. ASSUME NEW q \in Slot
      PROVE  /\ u2[q].state = t[q].state /\ u2[q].retval = t[q].retval
             /\ u2[q].parent = t[q].parent /\ u2[q].children = t[q].children
             /\ u2[q].first_zombie = t[q].first_zombie
             /\ u2[q].next_zombie = IF q = prev THEN next ELSE t[q].next_zombie
             /\ u2[q].prev_zombie = t[q].prev_zombie
  <2>1. t[q] \in RowType  BY DEF TableType
  <2> QED  BY <1>1, <2>1 DEF TableType, RowType
<1>6. CASE t[a].first_zombie = p
  <2>1. u = IF next >= 0 THEN [u1 EXCEPT ![next].prev_zombie = None] ELSE u1
    BY <1>6 DEF UnlinkZombie
  <2>2. CASE next >= 0
    <3>1. u = [u1 EXCEPT ![next].prev_zombie = None]  BY <2>1, <2>2
    <3>2. ASSUME NEW q \in Slot
          PROVE  /\ u[q].state = u1[q].state /\ u[q].retval = u1[q].retval
                 /\ u[q].parent = u1[q].parent /\ u[q].children = u1[q].children
                 /\ u[q].first_zombie = u1[q].first_zombie
                 /\ u[q].next_zombie = u1[q].next_zombie
                 /\ u[q].prev_zombie = IF q = next THEN None ELSE u1[q].prev_zombie
      <4>1. u1[q] \in RowType  BY <1>2 DEF TableType
      <4> QED  BY <1>1, <1>2, <3>1, <4>1 DEF TableType, RowType
    <3> QED  BY <1>3, <1>6, <2>2, <3>2 DEF UnlinkDoes
  <2>3. CASE ~ (next >= 0)  BY <1>3, <1>6, <2>1, <2>3 DEF UnlinkDoes
  <2> QED  BY <2>2, <2>3
<1>7. CASE t[a].first_zombie # p
  <2>1. u = IF next >= 0 THEN [u2 EXCEPT ![next].prev_zombie = prev] ELSE u2
    BY <1>7 DEF UnlinkZombie
  <2>2. CASE next >= 0
    <3>1. u = [u2 EXCEPT ![next].prev_zombie = prev]  BY <2>1, <2>2
    <3>2. ASSUME NEW q \in Slot
          PROVE  /\ u[q].state = u2[q].state /\ u[q].retval = u2[q].retval
                 /\ u[q].parent = u2[q].parent /\ u[q].children = u2[q].children
                 /\ u[q].first_zombie = u2[q].first_zombie
                 /\ u[q].next_zombie = u2[q].next_zombie
                 /\ u[q].prev_zombie = IF q = next THEN prev ELSE u2[q].prev_zombie
      <4>1. u2[q] \in RowType  BY <1>2 DEF TableType
      <4> QED  BY <1>1, <1>2, <3>1, <4>1 DEF TableType, RowType
    <3> QED  BY <1>4, <1>7, <2>2, <3>2 DEF UnlinkDoes
  <2>3. CASE ~ (next >= 0)  BY <1>4, <1>7, <2>1, <2>3 DEF UnlinkDoes
  <2> QED  BY <2>2, <2>3
<1> QED  BY <1>6, <1>7

\* a has joined the zombie p: p is marked joined, or unlinked and freed.
ReapDoes(a, p) ==
    /\ p = arg[a] /\ p \in Row /\ a \in Slot /\ a # p /\ maker[p] = a
    /\ pc[a] = "join" /\ table[p].state = "ZOMBIE"
    /\ a \in Row => p \in Zombies(table, a) /\ Linked(table, a) /\ MemberInv(a)
    /\ pc'[a] = IF a = Startup THEN "halt" ELSE "user"
    /\ \A b \in Slot : b # a => pc'[b] = pc[b]
    /\ table'[p].parent = None
    /\ \A q \in Slot : q # p => /\ table'[q].state = table[q].state
                                /\ table'[q].parent = table[q].parent
                                /\ table'[q].retval = table[q].retval
    /\ \A q \in Row : q # a => /\ table'[q].first_zombie = table[q].first_zombie
                               /\ table'[q].children = table[q].children
    /\ \A q \in Row : (a \in Row => q \notin Zombies(table, a)) =>
                          /\ table'[q].next_zombie = table[q].next_zombie
                          /\ table'[q].prev_zombie = table[q].prev_zombie
    /\ \/ /\ table'[p].state = "ZOMBIE" /\ table[p].children # 0
          /\ \A q \in Row : /\ table'[q].first_zombie = table[q].first_zombie
                            /\ table'[q].next_zombie = table[q].next_zombie
                            /\ table'[q].prev_zombie = table[q].prev_zombie
       \/ /\ table'[p].state = "FREE"
          /\ a \in Row => /\ TakenOut(table, table', a, p)
                          /\ table'[a].children = table[a].children - 1
    /\ arg' = arg /\ waitq' = waitq /\ code' = code /\ maker' = maker /\ load' = load

LEMMA ReapEffect ==
    ASSUME IInv, NEW a \in Actor, JoinReap(a)
    PROVE  ReapDoes(a, arg[a])
<1>0. /\ TypeOK /\ PlaceInv /\ JoinInv /\ LiveInv /\ ListInv
      /\ Actor = Slot /\ a \in Slot /\ pc \in [Slot -> PC] /\ table \in TableType
  BY Types DEF IInv
<1> PICK p : p = arg[a]  OBVIOUS
<1>1. pc[a] = "join" /\ table[p].state = "ZOMBIE"  BY DEF JoinReap, MustWait
<1>2. /\ p \in Row /\ p \in Slot /\ maker[p] = a
      /\ a = Startup => table[p].prev_zombie = None /\ table[p].next_zombie = None
  BY <1>0, <1>1, Rows DEF JoinInv, Joining
<1>3. a # p  BY <1>0, <1>1, <1>2 DEF LiveInv, Alive
<1>4. a \in Row => p \in Zombies(table, a) /\ Linked(table, a) /\ MemberInv(a)
  <2>1. a \in Row => Alive(a) /\ Owner(a)  BY <1>1 DEF Alive, Owner
  <2> QED  BY <1>0, <1>1, <1>2, <2>1 DEF ListInv
<1>5. /\ pc'[a] = IF a = Startup THEN "halt" ELSE "user"
      /\ \A b \in Slot : b # a => pc'[b] = pc[b]
  BY <1>0 DEF JoinReap
<1> PICK t : t = Joined(p)  OBVIOUS
<1>6. t \in TableType
  <2> PICK t1 : t1 = [table EXCEPT ![p].retval = -1]  OBVIOUS
  <2>1. t1 \in TableType  BY <1>0, <1>2, TableUpdate
  <2> QED  BY <1>2, <2>1, Rows, TableUpdate DEF Joined
<1>7. /\ \A q \in Slot : q # p => t[q] = table[q]
      /\ t[p].state = table[p].state /\ t[p].parent = None
      /\ t[p].children = table[p].children
      /\ t[p].first_zombie = table[p].first_zombie
      /\ t[p].next_zombie = table[p].next_zombie
      /\ t[p].prev_zombie = table[p].prev_zombie
  <2>1. table[p] \in RowType  BY <1>0, <1>2 DEF TableType
  <2> QED  BY <1>0, <1>2, <2>1 DEF Joined, TableType, RowType
<1>8. CASE table[p].children # 0
  <2>1. table' = t  BY <1>7, <1>8 DEF JoinReap
  <2>2. \A q \in Row : /\ table'[q].first_zombie = table[q].first_zombie
                       /\ table'[q].next_zombie = table[q].next_zombie
                       /\ table'[q].prev_zombie = table[q].prev_zombie
                       /\ table'[q].children = table[q].children
    BY <1>7, <2>1, Rows
  <2> QED  BY <1>1, <1>2, <1>3, <1>4, <1>5, <1>7, <1>8, <1>0, <2>1, <2>2 DEF JoinReap, ReapDoes
<1>9. CASE table[p].children = 0
  <2> PICK t2 : t2 = [t EXCEPT ![a].children = @ - 1]  OBVIOUS
  <2> PICK u : u = UnlinkZombie(t2, a, p)  OBVIOUS
  <2> PICK next : next = table[p].next_zombie  OBVIOUS
  <2> PICK prev : prev = table[p].prev_zombie  OBVIOUS
  <2>1. table' = [u EXCEPT ![p].state = "FREE", ![p].retval = 0]
    BY <1>7, <1>9 DEF JoinReap
  <2>2. t2 \in TableType /\ u \in TableType
    <3>1. t[a].children \in Int  BY <1>0, <1>6, TableFields
    <3>2. t[a].children - 1 \in Int  BY <3>1
    <3>3. t2 \in TableType  BY <1>0, <1>6, <3>2, TableUpdate
    <3> QED  BY <1>0, <1>2, <3>3, UnlinkType
  <2>3. ASSUME NEW q \in Slot
        PROVE  /\ t2[q].state = t[q].state /\ t2[q].retval = t[q].retval
               /\ t2[q].parent = t[q].parent
               /\ t2[q].first_zombie = t[q].first_zombie
               /\ t2[q].next_zombie = t[q].next_zombie
               /\ t2[q].prev_zombie = t[q].prev_zombie
               /\ t2[q].children = IF q = a THEN t[a].children - 1 ELSE t[q].children
    <3>1. t[q] \in RowType  BY <1>6 DEF TableType
    <3> QED  BY <1>0, <1>6, <3>1 DEF TableType, RowType
  <2>4. next = t2[p].next_zombie /\ prev = t2[p].prev_zombie
        /\ t2[a].first_zombie = table[a].first_zombie
    BY <1>0, <1>2, <1>3, <1>7, <2>3
  <2>5. ASSUME NEW q \in Slot
        PROVE  /\ u[q].state = t2[q].state /\ u[q].retval = t2[q].retval
               /\ u[q].parent = t2[q].parent /\ u[q].children = t2[q].children
               /\ u[q].first_zombie = IF q = a /\ table[a].first_zombie = p THEN next
                                      ELSE t2[q].first_zombie
               /\ u[q].next_zombie = IF q = prev /\ table[a].first_zombie # p THEN next
                                     ELSE t2[q].next_zombie
               /\ u[q].prev_zombie = IF next >= 0 /\ q = next
                                     THEN IF table[a].first_zombie = p THEN None ELSE prev
                                     ELSE t2[q].prev_zombie
    <3>1. \A x \in Slot :
              /\ u[x].state = t2[x].state /\ u[x].retval = t2[x].retval
              /\ u[x].parent = t2[x].parent /\ u[x].children = t2[x].children
              /\ u[x].first_zombie = IF x = a /\ t2[a].first_zombie = p THEN next
                                     ELSE t2[x].first_zombie
              /\ u[x].next_zombie = IF x = prev /\ t2[a].first_zombie # p THEN next
                                    ELSE t2[x].next_zombie
              /\ u[x].prev_zombie = IF next >= 0 /\ x = next
                                    THEN IF t2[a].first_zombie = p THEN None ELSE prev
                                    ELSE t2[x].prev_zombie
      <4>1. UnlinkDoes(t2, u, a, p)  BY <1>0, <1>2, <2>2, UnlinkFields
      <4> QED  BY <2>4, <4>1 DEF UnlinkDoes
    <3> QED  BY <2>4, <3>1
  <2>6. /\ \A q \in Slot : q # p => table'[q] = u[q]
        /\ table'[p].state = "FREE" /\ table'[p].parent = u[p].parent
        /\ table'[p].children = u[p].children
        /\ table'[p].first_zombie = u[p].first_zombie
        /\ table'[p].next_zombie = u[p].next_zombie
        /\ table'[p].prev_zombie = u[p].prev_zombie
    <3> PICK w : w = [u EXCEPT ![p].state = "FREE"]  OBVIOUS
    <3>1. u[p] \in RowType /\ w \in TableType
      <4>1. u \in TableType /\ p \in Slot  BY ONLY <1>2, <2>2
      <4>2. u[p] \in RowType  BY ONLY <4>1 DEF TableType
      <4>3. [u EXCEPT ![p].state = "FREE"] \in TableType  BY ONLY <4>1, TableUpdate
      <4> QED  BY ONLY <4>2, <4>3, w = [u EXCEPT ![p].state = "FREE"]
    <3>2. w[p] \in RowType  BY <1>2, <3>1 DEF TableType
    <3>3. /\ \A q \in Slot : q # p => w[q] = u[q]
          /\ w[p].state = "FREE" /\ w[p].parent = u[p].parent
          /\ w[p].children = u[p].children
          /\ w[p].first_zombie = u[p].first_zombie
          /\ w[p].next_zombie = u[p].next_zombie
          /\ w[p].prev_zombie = u[p].prev_zombie
      <4>1. \A q \in Slot : q # p => w[q] = u[q]  BY <1>2, <2>2, <3>1 DEF TableType
      <4>2. w[p] = [u[p] EXCEPT !.state = "FREE"]  BY <1>2, <2>2, <3>1 DEF TableType
      <4> QED  BY ONLY <3>1, <4>1, <4>2 DEF RowType
    <3>4. table' = [w EXCEPT ![p].retval = 0]  BY <2>1
    <3>5. /\ \A q \in Slot : q # p => table'[q] = w[q]
          /\ table'[p].state = w[p].state /\ table'[p].parent = w[p].parent
          /\ table'[p].children = w[p].children
          /\ table'[p].first_zombie = w[p].first_zombie
          /\ table'[p].next_zombie = w[p].next_zombie
          /\ table'[p].prev_zombie = w[p].prev_zombie
      <4>1. \A q \in Slot : q # p => table'[q] = w[q]  BY <1>2, <3>1, <3>4 DEF TableType
      <4>2. table'[p] = [w[p] EXCEPT !.retval = 0]  BY <1>2, <3>1, <3>4 DEF TableType
      <4>3. /\ table'[p].state = w[p].state /\ table'[p].parent = w[p].parent
            /\ table'[p].children = w[p].children
            /\ table'[p].first_zombie = w[p].first_zombie
            /\ table'[p].next_zombie = w[p].next_zombie
            /\ table'[p].prev_zombie = w[p].prev_zombie
        <5> PICK row : row = w[p]  OBVIOUS
        <5> PICK new : new = table'[p]  OBVIOUS
        <5>1. row \in RowType /\ new = [row EXCEPT !.retval = 0]  BY <3>2, <4>2
        <5>2. /\ new.state = row.state /\ new.parent = row.parent
              /\ new.children = row.children
              /\ new.first_zombie = row.first_zombie
              /\ new.next_zombie = row.next_zombie
              /\ new.prev_zombie = row.prev_zombie
          BY ONLY <5>1 DEF RowType
        <5> QED  BY <5>2
      <4> QED  BY ONLY <4>1, <4>3
    <3>6. \A q \in Slot : q # p => table'[q] = u[q]  BY ONLY <3>3, <3>5
    <3>7. /\ table'[p].state = "FREE" /\ table'[p].parent = u[p].parent
          /\ table'[p].children = u[p].children
          /\ table'[p].first_zombie = u[p].first_zombie
          /\ table'[p].next_zombie = u[p].next_zombie
          /\ table'[p].prev_zombie = u[p].prev_zombie
      BY ONLY <3>3, <3>5
    <3> QED  BY ONLY <3>6, <3>7
  <2>7. table'[p].state = "FREE" /\ table'[p].parent = None
    <3>1. u[p].parent = t2[p].parent  BY <1>2, <2>5
    <3>2. t2[p].parent = t[p].parent  BY <1>2, <2>3
    <3> QED  BY <1>7, <2>6, <3>1, <3>2
  <2>8. ASSUME NEW q \in Slot, q # p
        PROVE  /\ table'[q].state = table[q].state
               /\ table'[q].parent = table[q].parent
               /\ table'[q].retval = table[q].retval
    <3>1. table'[q] = u[q] /\ t[q] = table[q]  BY <1>7, <2>6, <2>8
    <3>2. u[q].state = t2[q].state /\ u[q].parent = t2[q].parent /\ u[q].retval = t2[q].retval
      BY <2>5
    <3>3. t2[q].state = t[q].state /\ t2[q].parent = t[q].parent /\ t2[q].retval = t[q].retval
      BY <2>3
    <3> QED  BY <3>1, <3>2, <3>3
  <2>9. ASSUME NEW q \in Slot
        PROVE  /\ table'[q].children = IF q = a THEN table[a].children - 1
                                       ELSE table[q].children
               /\ table'[q].first_zombie = IF q = a /\ table[a].first_zombie = p THEN next
                                           ELSE table[q].first_zombie
               /\ table'[q].next_zombie = IF q = prev /\ table[a].first_zombie # p THEN next
                                          ELSE table[q].next_zombie
               /\ table'[q].prev_zombie = IF next >= 0 /\ q = next
                                          THEN IF table[a].first_zombie = p THEN None ELSE prev
                                          ELSE table[q].prev_zombie
    <3>1. /\ t[q].children = table[q].children /\ t[a].children = table[a].children
          /\ t[q].first_zombie = table[q].first_zombie
          /\ t[q].next_zombie = table[q].next_zombie
          /\ t[q].prev_zombie = table[q].prev_zombie
      BY <1>0, <1>3, <1>7
    <3>2. /\ table'[q].children = u[q].children
          /\ table'[q].first_zombie = u[q].first_zombie
          /\ table'[q].next_zombie = u[q].next_zombie
          /\ table'[q].prev_zombie = u[q].prev_zombie
      BY <2>6
    <3>3. /\ t2[q].first_zombie = t[q].first_zombie
          /\ t2[q].next_zombie = t[q].next_zombie
          /\ t2[q].prev_zombie = t[q].prev_zombie
          /\ t2[q].children = IF q = a THEN t[a].children - 1 ELSE t[q].children
      BY <2>3
    <3>4. /\ u[q].children = t2[q].children
          /\ u[q].first_zombie = IF q = a /\ table[a].first_zombie = p THEN next
                                 ELSE t2[q].first_zombie
          /\ u[q].next_zombie = IF q = prev /\ table[a].first_zombie # p THEN next
                                ELSE t2[q].next_zombie
          /\ u[q].prev_zombie = IF next >= 0 /\ q = next
                                THEN IF table[a].first_zombie = p THEN None ELSE prev
                                ELSE t2[q].prev_zombie
      BY <2>5
    <3> QED  BY ONLY <3>1, <3>2, <3>3, <3>4
  <2>10. a \in Row => TakenOut(table, table', a, p) /\ table'[a].children = table[a].children - 1
    <3> SUFFICES ASSUME a \in Row
                 PROVE  TakenOut(table, table', a, p) /\ table'[a].children = table[a].children - 1
      OBVIOUS
    <3> PICK zs : zs = Zombies(table, a)  OBVIOUS
    <3>0. zs \subseteq Row /\ zs \subseteq Slot  BY ZombiesFinite, Rows
    <3>1. table[a].first_zombie # p => prev \in zs  BY <1>0, <1>4, ZombiesBefore
    <3>2. next \in Slot  BY <1>0, <1>2, TableFields
    <3>3. IF table[a].first_zombie = p THEN table'[a].first_zombie = next
          ELSE table'[a].first_zombie = table[a].first_zombie /\ table'[prev].next_zombie = next
      BY <1>0, <2>9, <3>0, <3>1
    <3>4. next >= 0 => table'[next].prev_zombie = IF table[a].first_zombie = p THEN None ELSE prev
      BY <2>9, <3>2
    <3>5. ASSUME NEW q \in zs
          PROVE  /\ ~ (table[a].first_zombie # p /\ q = prev) => table'[q].next_zombie = table[q].next_zombie
                 /\ q # next => table'[q].prev_zombie = table[q].prev_zombie
      BY <2>9, <3>0
    <3> QED  BY <1>0, <2>9, <3>3, <3>4, <3>5 DEF TakenOut
  <2>11. ASSUME NEW q \in Row, a \in Row => q \notin Zombies(table, a)
         PROVE  /\ table'[q].next_zombie = table[q].next_zombie
                /\ table'[q].prev_zombie = table[q].prev_zombie
    <3>0. q \in Slot /\ q # None  BY Rows
    <3>1. CASE a \in Row
      <4>1. table[a].first_zombie # p => prev \in Zombies(table, a)
        BY <1>0, <1>4, <3>1, ZombiesBefore
      <4>2. next >= 0 => next \in Zombies(table, a)
        BY <1>0, <1>4, <3>1, ZombiesHas DEF HasZombies
      <4> QED  BY <2>9, <2>11, <3>0, <3>1, <4>1, <4>2
    <3>2. CASE a \notin Row
      <4>1. prev = None /\ next = None  BY <1>0, <1>2, <3>2, Rows
      <4> QED  BY <2>9, <3>0, <4>1, Rows
    <3> QED  BY <3>1, <3>2
  <2>12. ASSUME NEW q \in Row, q # a
         PROVE  /\ table'[q].first_zombie = table[q].first_zombie
                /\ table'[q].children = table[q].children
    BY <2>9, <2>12, Rows
  <2> QED
    BY <1>0, <1>1, <1>2, <1>3, <1>4, <1>5, <2>7, <2>8, <2>10, <2>11, <2>12
       DEF JoinReap, ReapDoes
<1> QED  BY <1>8, <1>9

LEMMA ReapKeeps ==
    ASSUME IInv, TypeOK', NEW a \in Actor, JoinReap(a)
    PROVE  IInv'
<1>0. /\ TypeOK /\ PlaceInv /\ FillInv /\ CountInv /\ JoinInv /\ WaitInv
      /\ LiveInv /\ RunInv /\ ZombieInv /\ FreeInv /\ ListInv
      /\ load.joins => KinInv /\ ChildrenExact
  BY DEF IInv
<1> PICK p : p = arg[a]  OBVIOUS
<1>1. ReapDoes(a, p)  BY ReapEffect
<1>2. Actor = Slot /\ a \in Slot /\ p \in Row /\ p \in Slot /\ a # p /\ maker[p] = a
  BY <1>0, <1>1, Rows, Types DEF ReapDoes
<1>3. arg' = arg /\ waitq' = waitq /\ code' = code /\ maker' = maker /\ load' = load
  BY <1>1 DEF ReapDoes
<1>4. ASSUME NEW b \in Slot
      PROVE  /\ Filling(b)' <=> Filling(b)
             /\ Counting(b)' <=> Counting(b)
             /\ Joining(b)' => Joining(b) /\ b # a
             /\ Alive(b)' <=> Alive(b)
             /\ pc'[b] = "asleep" <=> pc[b] = "asleep"
             /\ pc'[b] \in {"fill", "count"} <=> pc[b] \in {"fill", "count"}
  BY <1>1 DEF ReapDoes, Filling, Counting, Joining, Alive
<1>5. ASSUME NEW q \in Row, table[q].state = "RUNNING" \/ maker[q] = Startup
      PROVE  /\ table'[q].next_zombie = table[q].next_zombie
             /\ table'[q].prev_zombie = table[q].prev_zombie
  <2>1. a \in Row => q \notin Zombies(table, a)  BY <1>1, <1>5 DEF ReapDoes, MemberInv
  <2> QED  BY <1>1, <2>1 DEF ReapDoes
<1>6. ASSUME NEW q \in Slot
      PROVE  /\ q # p => /\ table'[q].state = table[q].state
                         /\ table'[q].parent = table[q].parent
                         /\ table'[q].retval = table[q].retval
             /\ table[q].state = "RUNNING" => q # p
             /\ table'[q].state = "RUNNING" <=> table[q].state = "RUNNING"
  BY <1>1 DEF ReapDoes
<1>7. PlaceInv'
  <2>1. a = Startup \/ a \in Row  BY <1>2, Rows
  <2> QED  BY <1>0, <1>1, <1>2, <2>1, Rows DEF PlaceInv, ReapDoes
<1>8. FillInv'
  <2> SUFFICES ASSUME NEW b \in Slot, Filling(b)
               PROVE  /\ arg[b] \in Row
                      /\ pc'[arg[b]] = "none"
                      /\ table'[arg[b]].state = "RUNNING"
                      /\ maker[arg[b]] = b
                      /\ \A q \in Slot : maker[q] # arg[b]
    BY <1>2, <1>3, <1>4 DEF FillInv
  <2>1. /\ arg[b] \in Row /\ pc[arg[b]] = "none" /\ table[arg[b]].state = "RUNNING"
        /\ maker[arg[b]] = b /\ \A q \in Slot : maker[q] # arg[b]
    BY <1>0, <1>2 DEF FillInv
  <2> QED  BY <1>4, <1>6, <2>1, Rows DEF Alive
<1>9. CountInv'
  <2> SUFFICES ASSUME NEW b \in Slot, Counting(b)
               PROVE  /\ table'[arg[b]].parent = table[arg[b]].parent
                      /\ table'[arg[b]].prev_zombie = table[arg[b]].prev_zombie
                      /\ table'[arg[b]].next_zombie = table[arg[b]].next_zombie
                      /\ table'[arg[b]].children = table[arg[b]].children
    BY <1>0, <1>2, <1>3, <1>4 DEF CountInv
  <2>1. arg[b] \in Row /\ pc[arg[b]] = "none" /\ table[arg[b]].state = "RUNNING"
    BY <1>0, <1>2 DEF FillInv, Filling, Counting
  <2>2. arg[b] # a  BY <1>1, <2>1 DEF ReapDoes
  <2>3. table'[arg[b]].children = table[arg[b]].children  BY <1>1, <2>1, <2>2 DEF ReapDoes
  <2> QED  BY <1>5, <1>6, <2>1, <2>3, Rows
<1>10. JoinInv'
  <2> SUFFICES ASSUME NEW b \in Slot, Joining(b), b # a
               PROVE  /\ table'[arg[b]].parent = table[arg[b]].parent
                      /\ table'[arg[b]].state = table[arg[b]].state
                      /\ table'[arg[b]].retval = table[arg[b]].retval
                      /\ b = Startup =>
                            /\ table'[arg[b]].prev_zombie = table[arg[b]].prev_zombie
                            /\ table'[arg[b]].next_zombie = table[arg[b]].next_zombie
    BY <1>0, <1>2, <1>3, <1>4 DEF JoinInv
  <2>1. arg[b] \in Row /\ maker[arg[b]] = b  BY <1>0, <1>2 DEF JoinInv
  <2>2. arg[b] # p  BY <1>2, <2>1
  <2> QED  BY <1>5, <1>6, <2>1, <2>2, Rows
<1>11. WaitInv'
  <2>1. \A b \in Slot : arg[b] \in Slot  BY <1>0, <1>2, Types
  <2> QED  BY <1>0, <1>2, <1>3, <1>4, <1>6, <2>1 DEF WaitInv
<1>12. LiveInv'
  <2> SUFFICES ASSUME NEW q \in Row, Alive(q)
               PROVE  /\ table'[q].state = table[q].state
                      /\ table'[q].parent = table[q].parent
                      /\ table'[q].prev_zombie = table[q].prev_zombie
                      /\ table'[q].next_zombie = table[q].next_zombie
    BY <1>0, <1>3, <1>4, Rows DEF LiveInv
  <2>1. table[q].state = "RUNNING"  BY <1>0 DEF LiveInv
  <2> QED  BY <1>5, <1>6, <2>1, Rows
<1>13. RunInv'
  <2> SUFFICES ASSUME NEW q \in Row, table[q].state = "RUNNING"
               PROVE  Alive(q)' \/ BeingFilled(q)'
    BY <1>6, Rows DEF RunInv
  <2>1. Alive(q) \/ BeingFilled(q)  BY <1>0 DEF RunInv
  <2>2. BeingFilled(q) => BeingFilled(q)'
    BY <1>2, <1>3, <1>4 DEF BeingFilled, Filling
  <2> QED  BY <1>4, <2>1, <2>2, Rows
<1>14. ZombieInv'
  <2> SUFFICES ASSUME NEW q \in Row, table'[q].state = "ZOMBIE"
               PROVE  /\ table'[q].first_zombie = None
                      /\ table'[q].parent # None => table'[q].retval = code[q]
    BY <1>3 DEF ZombieInv
  <2>1. table[q].state = "ZOMBIE"  BY <1>1, <1>6, Rows DEF ReapDoes
  <2>2. q # a  BY <1>0, <1>1, <2>1 DEF LiveInv, Alive, ReapDoes
  <2>3. table'[q].first_zombie = None  BY <1>0, <1>1, <2>1, <2>2 DEF ReapDoes, ZombieInv
  <2>4. CASE q = p  BY <1>1, <2>3, <2>4 DEF ReapDoes
  <2>5. CASE q # p  BY <1>0, <1>6, <2>1, <2>3, <2>5, Rows DEF ZombieInv
  <2> QED  BY <2>4, <2>5
<1>15. FreeInv'
  <2> SUFFICES ASSUME NEW q \in Row, NEW r \in Row, table'[q].state = "FREE",
                      maker[q] = r, table'[q].parent = r
               PROVE  ~ Alive(r)'
    BY <1>3 DEF FreeInv
  <2>1. q # p  BY <1>1, Rows DEF ReapDoes
  <2>2. table[q].state = "FREE" /\ table[q].parent = r  BY <1>6, <2>1, Rows
  <2> QED  BY <1>0, <1>4, <2>2, Rows DEF FreeInv
<1>16. ASSUME NEW r \in Row, Owner(r)' PROVE Owner(r)
  <2>1. ASSUME NEW z \in Row, Alive(z)', table'[z].parent = r
        PROVE  Alive(z) /\ table[z].parent = r
    <3>1. Alive(z) /\ table[z].state = "RUNNING"  BY <1>0, <1>4, <2>1, Rows DEF LiveInv
    <3> QED  BY <1>6, <2>1, <3>1, Rows
  <2> QED  BY <1>2, <1>3, <1>4, <1>16, <2>1, Rows DEF Owner
<1>17. ASSUME NEW q \in Row, table'[q].state = "ZOMBIE" PROVE table[q].state = "ZOMBIE"
  BY <1>1, <1>6, <1>17, Rows DEF ReapDoes
<1>18. ListInv'
  <2>1. CASE table'[p].state = "ZOMBIE" \/ a = Startup
    <3>1. ASSUME NEW q \in Row
          PROVE  /\ table'[q].first_zombie = table[q].first_zombie
                 /\ table'[q].next_zombie = table[q].next_zombie
                 /\ table'[q].prev_zombie = table[q].prev_zombie
      <4>1. CASE table'[p].state = "ZOMBIE"  BY <1>1, <4>1 DEF ReapDoes
      <4>2. CASE a = Startup  BY <1>1, <4>2, Rows DEF ReapDoes
      <4> QED  BY <2>1, <4>1, <4>2
    <3>2. ASSUME NEW q \in Row, table[q].state = "ZOMBIE", maker[q] # Startup
          PROVE  /\ table'[q].state = "ZOMBIE"
                 /\ table'[q].parent \in {table[q].parent, None}
      BY <1>1, <1>2, <1>6, <2>1, <3>2, Rows DEF ReapDoes
    <3>3. ASSUME NEW r \in Row, Alive(r)' PROVE Alive(r)  BY <1>4, <3>3, Rows
    <3> QED  BY <1>0, <1>3, <1>16, <1>17, <3>1, <3>2, <3>3, ListSame
  <2>2. CASE table'[p].state # "ZOMBIE" /\ a # Startup
    <3>0. table \in TableType /\ table' \in TableType
      <4>1. TypeOK' => table' \in TableType  BY DEF TypeOK, TableType, RowType
      <4> QED  BY <1>0, <4>1, Types
    <3> PICK zs : zs = Zombies(table, a)  OBVIOUS
    <3>1. a \in Row /\ Alive(a) /\ Owner(a)
      BY <1>1, <1>2, <2>2, Rows DEF ReapDoes, Alive, Owner
    <3>2. /\ p \in zs /\ Linked(table, a) /\ MemberInv(a) /\ TakenOut(table, table', a, p)
          /\ table'[p].state = "FREE"
      BY <1>1, <2>2, <3>1 DEF ReapDoes
    <3>3. Zombies(table', a) = zs \ {p} /\ Linked(table', a)
      BY <3>0, <3>1, <3>2, OutRemoves
    <3>4. ASSUME NEW r \in Row, Owner(r), r # a
          PROVE  /\ Zombies(table', r) = Zombies(table, r) /\ Linked(table', r)
                 /\ MemberInv(r) /\ p \notin Zombies(table, r)
      <4>1. Linked(table, r) /\ MemberInv(r) /\ \A q \in Zombies(table, r) : q \notin zs
        BY <1>0, <3>1, <3>4 DEF ListInv
      <4>2. Zombies(table, r) \subseteq Row /\ r \in Slot  BY ZombiesFinite, Rows
      <4>3. ASSUME NEW q \in Zombies(table, r)
            PROVE  /\ table'[q].next_zombie = table[q].next_zombie
                   /\ table'[q].prev_zombie = table[q].prev_zombie
        BY <1>1, <4>1, <4>2 DEF ReapDoes
      <4>4. table'[r].first_zombie = table[r].first_zombie  BY <1>1, <3>4 DEF ReapDoes
      <4>5. Zombies(table', r) = Zombies(table, r)  BY <3>0, <4>2, <4>3, <4>4, ZombiesSame
      <4>6. Linked(table', r)  BY <3>0, <4>1, <4>2, <4>3, <4>4, LinkedSame
      <4> QED  BY <3>2, <4>1, <4>5, <4>6
    <3>5. ASSUME NEW r \in Row, Owner(r)
          PROVE  /\ Linked(table', r) /\ MemberInv(r)
                 /\ Zombies(table', r) = Zombies(table, r) \ {p}
      <4>1. CASE r = a  BY <3>2, <3>3, <4>1
      <4>2. CASE r # a  BY <3>4, <3>5, <4>2
      <4> QED  BY <4>1, <4>2
    <3>6. ASSUME NEW r \in Row, Owner(r)' PROVE Linked(table, r)' /\ MemberInv(r)'
      <4>1. /\ Linked(table', r) /\ MemberInv(r)
            /\ Zombies(table', r) = Zombies(table, r) \ {p}
        BY <1>16, <3>5, <3>6
      <4>2. ASSUME NEW q \in Zombies(table', r)
            PROVE  /\ table'[q].state = "ZOMBIE" /\ table'[q].parent \in {r, None}
                   /\ maker'[q] # Startup
        <5>1. q \in Zombies(table, r) /\ q # p /\ q \in Slot  BY <4>1, ZombiesFinite, Rows
        <5> QED  BY <1>3, <1>6, <4>1, <5>1 DEF MemberInv
      <4> QED  BY <4>1, <4>2 DEF MemberInv
    <3>7. ASSUME NEW r \in Row, Alive(r)', NEW q \in Row, table'[q].state = "ZOMBIE", maker'[q] = r
          PROVE  q \in Zombies(table', r)
      <4>1. Alive(r) /\ Owner(r)  BY <1>4, <3>7, Rows DEF Owner
      <4>2. q \in Zombies(table, r)  BY <1>0, <1>3, <1>17, <3>7, <4>1 DEF ListInv
      <4>3. q # p  BY <3>2, <3>7
      <4> QED  BY <3>5, <4>1, <4>2, <4>3
    <3>8. ASSUME NEW r \in Row, NEW s \in Row, Owner(r)', Owner(s)', r # s,
                 NEW q \in Zombies(table', r)
          PROVE  q \notin Zombies(table', s)
      <4>1. Owner(r) /\ Owner(s)  BY <1>16, <3>8
      <4>2. q \in Zombies(table, r)  BY <3>5, <3>8, <4>1
      <4>3. q \notin Zombies(table, s)  BY <1>0, <3>8, <4>1, <4>2 DEF ListInv
      <4> QED  BY <3>5, <4>1, <4>3
    <3> QED  BY <3>6, <3>7, <3>8 DEF ListInv
  <2> QED  BY <2>1, <2>2
<1>19. ASSUME load'.joins PROVE KinInv' /\ ChildrenExact'
  <2>0. KinInv /\ ChildrenExact  BY <1>0, <1>3, <1>19
  <2>1. table[p].children = 0 /\ table'[p].state = "FREE"
    BY <1>1, <2>0 DEF KinInv, ReapDoes
  <2>2. ASSUME NEW q \in Row, table'[q].state # "FREE"
        PROVE  maker'[q] # Gone /\ (maker'[q] \in Row => pc'[maker'[q]] # "none")
    <3>1. q # p /\ table[q].state # "FREE"  BY <1>6, <2>1, <2>2, Rows
    <3> QED  BY <1>3, <1>4, <2>0, <3>1, Rows DEF KinInv, Alive
  <2>3. ASSUME NEW q \in Row, table'[q].state = "ZOMBIE"
        PROVE  table'[q].children = 0 /\ table'[q].parent = maker'[q]
    <3>1. q # p /\ table[q].state = "ZOMBIE" /\ table'[q].parent = table[q].parent
      BY <1>6, <2>1, <2>3, Rows
    <3>2. q # a  BY <1>0, <1>1, <3>1 DEF LiveInv, Alive, ReapDoes
    <3>3. table'[q].children = table[q].children  BY <1>1, <3>2 DEF ReapDoes
    <3> QED  BY <1>3, <2>0, <3>1, <3>3 DEF KinInv
  <2>4. ASSUME NEW r \in Row, NEW q \in Row, q # p
        PROVE  q \in Spawned(r)' <=> q \in Spawned(r)
    BY <1>3, <1>4, <1>6, <2>4, Rows DEF Spawned
  <2>5. ASSUME NEW r \in Row PROVE Spawned(r)' = Spawned(r) \ {p}
    <3>1. p \notin Spawned(r)'  BY <2>1 DEF Spawned
    <3>2. Spawned(r) \subseteq Row /\ Spawned(r)' \subseteq Row  BY DEF Spawned
    <3> QED  BY <2>4, <3>1, <3>2
  <2>6. ASSUME NEW r \in Row, Alive(r)'
        PROVE  table'[r].children = Cardinality(Spawned(r)')
    <3> PICK U : U = Spawned(r)  OBVIOUS
    <3>1. Alive(r) /\ table[r].children = Cardinality(U)
      BY <1>4, <2>0, <2>6, Rows DEF ChildrenExact, Alive
    <3>2. CASE r = a
      <4>1. p \in U  BY <1>1, <1>2, <3>2 DEF Spawned, ReapDoes
      <4>2. IsFiniteSet(U)  BY Rows, FS_Subset DEF Spawned
      <4>3. Cardinality(U \ {p}) = Cardinality(U) - 1  BY <4>1, <4>2, FS_RemoveElement
      <4>4. table'[r].children = table[r].children - 1  BY <1>1, <2>1, <3>2 DEF ReapDoes
      <4> QED  BY <2>5, <3>1, <4>3, <4>4
    <3>3. CASE r # a
      <4>1. p \notin U  BY <1>2, <3>3 DEF Spawned
      <4>2. table'[r].children = table[r].children  BY <1>1, <3>3 DEF ReapDoes
      <4>3. U \ {p} = U  BY <4>1
      <4> QED  BY <2>5, <3>1, <4>2, <4>3
    <3> QED  BY <3>2, <3>3
  <2> QED  BY <2>2, <2>3, <2>6 DEF KinInv, ChildrenExact, Alive
<1> QED
  BY <1>7, <1>8, <1>9, <1>10, <1>11, <1>12, <1>13, <1>14, <1>15, <1>18, <1>19 DEF IInv

\* What FreeZombies does, field by field, when p is not its own zombie.
FreeDoes(t, u, zs, p) ==
    /\ \A q \in Slot : /\ q \in zs => u[q].state = "FREE" /\ u[q].parent = None
                       /\ q \notin zs /\ q # p => u[q] = t[q]
                       /\ q # p => u[q].first_zombie = t[q].first_zombie
                       /\ u[q].next_zombie = t[q].next_zombie
                       /\ u[q].prev_zombie = t[q].prev_zombie
    /\ u[p].state = t[p].state /\ u[p].parent = t[p].parent
    /\ u[p].retval = t[p].retval /\ u[p].first_zombie = None
    /\ u[p].children = t[p].children - Cardinality(zs)

LEMMA FreeFields ==
    ASSUME NEW t \in TableType, NEW p \in Slot, p \notin Zombies(t, p)
    PROVE  FreeDoes(t, FreeZombies(t, p), Zombies(t, p), p)
<1> PICK zs : zs = Zombies(t, p)  OBVIOUS
<1> PICK u : u = FreeZombies(t, p)  OBVIOUS
<1>1. u = [q \in Slot |->
            IF q \in zs
            THEN [t[q] EXCEPT !.state = "FREE", !.retval = -1, !.parent = None]
            ELSE IF q = p
            THEN [t[p] EXCEPT !.first_zombie = None, !.children = @ - Cardinality(zs)]
            ELSE t[q]]
  BY DEF FreeZombies
<1>2. ASSUME NEW q \in Slot, q \in zs
      PROVE  /\ u[q].state = "FREE" /\ u[q].parent = None
             /\ u[q].first_zombie = t[q].first_zombie
             /\ u[q].next_zombie = t[q].next_zombie
             /\ u[q].prev_zombie = t[q].prev_zombie
  <2>1. u[q] = [t[q] EXCEPT !.state = "FREE", !.retval = -1, !.parent = None]
    BY <1>1, <1>2
  <2>2. t[q] \in RowType  BY DEF TableType
  <2> QED  BY <2>1, <2>2 DEF RowType
<1>3. /\ u[p].state = t[p].state /\ u[p].parent = t[p].parent
      /\ u[p].retval = t[p].retval /\ u[p].first_zombie = None
      /\ u[p].children = t[p].children - Cardinality(zs)
      /\ u[p].next_zombie = t[p].next_zombie
      /\ u[p].prev_zombie = t[p].prev_zombie
  <2>1. u[p] = [t[p] EXCEPT !.first_zombie = None, !.children = @ - Cardinality(zs)]
    BY <1>1
  <2>2. t[p] \in RowType  BY DEF TableType
  <2> QED  BY <2>1, <2>2 DEF RowType
<1>4. ASSUME NEW q \in Slot, q \notin zs, q # p PROVE u[q] = t[q]  BY <1>1, <1>4
<1> QED  BY <1>2, <1>3, <1>4 DEF FreeDoes

\* What LinkZombie does, field by field.
LinkDoes(t, u, r, p) ==
    \A q \in Slot :
        /\ u[q].state = IF q = p THEN "ZOMBIE" ELSE t[q].state
        /\ u[q].retval = t[q].retval /\ u[q].parent = t[q].parent
        /\ u[q].children = t[q].children
        /\ u[q].first_zombie = IF q = r THEN p ELSE t[q].first_zombie
        /\ u[q].next_zombie = IF q = p THEN t[r].first_zombie ELSE t[q].next_zombie
        /\ u[q].prev_zombie = IF t[r].first_zombie >= 0 /\ q = t[r].first_zombie
                              THEN p ELSE t[q].prev_zombie

LEMMA LinkFields ==
    ASSUME NEW t \in TableType, NEW r \in Slot, NEW p \in Slot, r # p
    PROVE  LinkDoes(t, LinkZombie(t, r, p), r, p)
<1> PICK u : u = LinkZombie(t, r, p)  OBVIOUS
<1> PICK first : first = t[r].first_zombie  OBVIOUS
<1> PICK w1 : w1 = [t EXCEPT ![p].state = "ZOMBIE"]  OBVIOUS
<1> PICK w2 : w2 = [w1 EXCEPT ![p].next_zombie = first]  OBVIOUS
<1> PICK w3 : w3 = [w2 EXCEPT ![r].first_zombie = p]  OBVIOUS
<1>1. first \in Slot  BY TableFields
<1>2. w1 \in TableType  BY TableUpdate
<1>3. w2 \in TableType  BY <1>1, <1>2, TableUpdate
<1>4. w3 \in TableType  BY <1>3, TableUpdate
<1>5. ASSUME NEW q \in Slot
      PROVE  /\ w1[q].state = IF q = p THEN "ZOMBIE" ELSE t[q].state
             /\ w1[q].retval = t[q].retval /\ w1[q].parent = t[q].parent
             /\ w1[q].children = t[q].children
             /\ w1[q].first_zombie = t[q].first_zombie
             /\ w1[q].next_zombie = t[q].next_zombie
             /\ w1[q].prev_zombie = t[q].prev_zombie
  <2>1. t[q] \in RowType  BY DEF TableType
  <2> QED  BY <2>1 DEF TableType, RowType
<1>6. ASSUME NEW q \in Slot
      PROVE  /\ w2[q].state = w1[q].state
             /\ w2[q].retval = w1[q].retval /\ w2[q].parent = w1[q].parent
             /\ w2[q].children = w1[q].children
             /\ w2[q].first_zombie = w1[q].first_zombie
             /\ w2[q].next_zombie = IF q = p THEN first ELSE w1[q].next_zombie
             /\ w2[q].prev_zombie = w1[q].prev_zombie
  <2>1. w1[q] \in RowType  BY <1>2 DEF TableType
  <2> QED  BY <1>2, <2>1 DEF TableType, RowType
<1>7. ASSUME NEW q \in Slot
      PROVE  /\ w3[q].state = w2[q].state
             /\ w3[q].retval = w2[q].retval /\ w3[q].parent = w2[q].parent
             /\ w3[q].children = w2[q].children
             /\ w3[q].first_zombie = IF q = r THEN p ELSE w2[q].first_zombie
             /\ w3[q].next_zombie = w2[q].next_zombie
             /\ w3[q].prev_zombie = w2[q].prev_zombie
  <2>1. w2[q] \in RowType  BY <1>3 DEF TableType
  <2> QED  BY <1>3, <2>1 DEF TableType, RowType
<1>8. ASSUME NEW q \in Slot
      PROVE  /\ u[q].state = w3[q].state
             /\ u[q].retval = w3[q].retval /\ u[q].parent = w3[q].parent
             /\ u[q].children = w3[q].children
             /\ u[q].first_zombie = w3[q].first_zombie
             /\ u[q].next_zombie = w3[q].next_zombie
             /\ u[q].prev_zombie = IF first >= 0 /\ q = first THEN p ELSE w3[q].prev_zombie
  <2>1. w3[q] \in RowType  BY <1>4 DEF TableType
  <2>2. u = IF first >= 0 THEN [w3 EXCEPT ![first].prev_zombie = p] ELSE w3
    BY DEF LinkZombie
  <2>3. CASE first >= 0  BY <1>1, <1>4, <2>1, <2>2, <2>3 DEF TableType, RowType
  <2>4. CASE ~ (first >= 0)  BY <2>2, <2>4
  <2> QED  BY <2>3, <2>4
<1>9. ASSUME NEW q \in Slot
      PROVE  /\ u[q].state = IF q = p THEN "ZOMBIE" ELSE t[q].state
             /\ u[q].retval = t[q].retval /\ u[q].parent = t[q].parent
             /\ u[q].children = t[q].children
             /\ u[q].first_zombie = IF q = r THEN p ELSE t[q].first_zombie
             /\ u[q].next_zombie = IF q = p THEN first ELSE t[q].next_zombie
             /\ u[q].prev_zombie = IF first >= 0 /\ q = first THEN p ELSE t[q].prev_zombie
  <2>1. u[q].state = IF q = p THEN "ZOMBIE" ELSE t[q].state
    BY ONLY <1>5, <1>6, <1>7, <1>8, q \in Slot
  <2>2. /\ u[q].retval = t[q].retval /\ u[q].parent = t[q].parent
        /\ u[q].children = t[q].children
    BY ONLY <1>5, <1>6, <1>7, <1>8, q \in Slot
  <2>3. u[q].first_zombie = IF q = r THEN p ELSE t[q].first_zombie
    BY ONLY <1>5, <1>6, <1>7, <1>8, q \in Slot
  <2>4. u[q].next_zombie = IF q = p THEN first ELSE t[q].next_zombie
    BY ONLY <1>5, <1>6, <1>7, <1>8, q \in Slot
  <2>5. u[q].prev_zombie = IF first >= 0 /\ q = first THEN p ELSE t[q].prev_zombie
    BY ONLY <1>5, <1>6, <1>7, <1>8, q \in Slot
  <2> QED  BY <2>1, <2>2, <2>3, <2>4, <2>5
<1> QED  BY <1>9 DEF LinkDoes

\* What finish_given_process does to a joined zombie without zombies.
JoinedDoes(t, u, r) ==
    /\ \A q \in Slot : q # r => u[q] = t[q]
    /\ u[r].state = "ZOMBIE" /\ u[r].parent = t[r].parent
    /\ u[r].first_zombie = None
    /\ u[r].next_zombie = t[r].next_zombie
    /\ u[r].prev_zombie = t[r].prev_zombie

LEMMA JoinedFields ==
    ASSUME NEW t \in TableType, NEW r \in Slot, t[r].first_zombie = None
    PROVE  JoinedDoes(t, FinishJoined(t, r), r) /\ FinishJoined(t, r) \in TableType
<1> PICK w : w = [t EXCEPT ![r].retval = 0]  OBVIOUS
<1> PICK x : x = FreeZombies(w, r)  OBVIOUS
<1> PICK u : u = FinishJoined(t, r)  OBVIOUS
<1>1. w \in TableType  BY TableUpdate
<1>2. /\ \A q \in Slot : q # r => w[q] = t[q]
      /\ w[r].parent = t[r].parent /\ w[r].first_zombie = None
      /\ w[r].next_zombie = t[r].next_zombie
      /\ w[r].prev_zombie = t[r].prev_zombie
  <2>1. t[r] \in RowType  BY DEF TableType
  <2> QED  BY <2>1 DEF TableType, RowType
<1>3. Zombies(w, r) = {}  BY <1>2, ZombiesNone, Rows
<1>4. FreeDoes(w, x, {}, r)  BY <1>1, <1>3, FreeFields
<1>5. x \in TableType  BY <1>1, FreeZombiesType
<1>6. u = [x EXCEPT ![r].state = "ZOMBIE"]  BY DEF FinishJoined
<1>7. u \in TableType
  <2>1. [x EXCEPT ![r].state = "ZOMBIE"] \in TableType  BY <1>5, TableUpdate
  <2> QED  BY <1>6, <2>1
<1>8. /\ \A q \in Slot : q # r => u[q] = x[q]
      /\ u[r].state = "ZOMBIE" /\ u[r].parent = x[r].parent
      /\ u[r].first_zombie = x[r].first_zombie
      /\ u[r].next_zombie = x[r].next_zombie
      /\ u[r].prev_zombie = x[r].prev_zombie
  <2>1. x[r] \in RowType  BY <1>5 DEF TableType
  <2> QED  BY <1>5, <1>6, <2>1 DEF TableType, RowType
<1>9. /\ \A q \in Slot : q # r => x[q] = w[q]
      /\ x[r].parent = w[r].parent /\ x[r].first_zombie = None
      /\ x[r].next_zombie = w[r].next_zombie
      /\ x[r].prev_zombie = w[r].prev_zombie
  BY <1>4 DEF FreeDoes
<1> QED  BY <1>2, <1>7, <1>8, <1>9 DEF JoinedDoes

\* What the exit of p does to the table: its zombies zs are freed, and p
\* itself is freed when its parent r is a zombie, linked to r, or left alone.
FinishTable(p, r, zs, v) ==
    /\ \A q \in zs : table'[q].state = "FREE" /\ table'[q].parent = None
    /\ \A q \in Row : q \notin zs /\ q # p =>
          /\ table'[q].state = table[q].state
          /\ table'[q].parent = table[q].parent
          /\ \/ table'[q].retval = table[q].retval
             \/ table[q].retval < 0 /\ table[q].state = "ZOMBIE"
          /\ table'[q].children = table[q].children \/ (q = r /\ table[q].state = "ZOMBIE")
    /\ \A q \in Row : q # p => table'[q].next_zombie = table[q].next_zombie
    /\ \A q \in Row : q # p /\ q # r => table'[q].first_zombie = table[q].first_zombie
    /\ table'[p].parent = r /\ table'[p].retval = v
    /\ table'[p].first_zombie = None /\ table'[p].prev_zombie = None
    /\ table'[p].children = table[p].children - Cardinality(zs)
    /\ \/ /\ r \in Row /\ table[r].state = "ZOMBIE" /\ table'[p].state = "FREE"
          /\ table'[r].first_zombie = table[r].first_zombie
          /\ \A q \in Row : q # p => table'[q].prev_zombie = table[q].prev_zombie
       \/ /\ r \in Row /\ table'[r].state # "ZOMBIE" /\ table'[p].state = "ZOMBIE"
          /\ LinkedFront(table, table', r, p)
          /\ \A q \in Row : q # p /\ q # table[r].first_zombie
                            => table'[q].prev_zombie = table[q].prev_zombie
       \/ /\ r = None /\ table'[p].state = "ZOMBIE" /\ table'[p].next_zombie = None
          /\ \A q \in Row : q # p => table'[q].prev_zombie = table[q].prev_zombie

LEMMA FinishTableEffect ==
    ASSUME IInv, NEW p \in Row, NEW v \in Nat, pc[p] = "user",
           table' = FinishGiven(p, v)
    PROVE  FinishTable(p, table[p].parent, Zombies(table, p), v)
<1>0. TypeOK /\ LiveInv /\ ZombieInv /\ ListInv /\ table \in TableType /\ p \in Slot
  BY Types, Rows DEF IInv
<1>pr. PICK r : r = table[p].parent  OBVIOUS
<1>pz. PICK zs : zs = Zombies(table, p)  OBVIOUS
<1>p0. PICK t0 : t0 = [table EXCEPT ![p].retval = v]  OBVIOUS
<1>pt. PICK t : t = FreeZombies(t0, p)  OBVIOUS
<1>pu. PICK u : u = [t EXCEPT ![r].children = @ - 1]  OBVIOUS
<1> SUFFICES FinishTable(p, r, zs, v)  BY <1>pr, <1>pz
<1>1. /\ table[p].state = "RUNNING" /\ r # p /\ r \in Slot
      /\ table[p].prev_zombie = None /\ table[p].next_zombie = None
  BY <1>0, <1>pr, TableFields DEF LiveInv, Alive
<1>2. MemberInv(p) /\ zs \subseteq Row /\ p \notin zs
  <2>1. Owner(p)  BY DEF Owner, Alive
  <2>2. MemberInv(p)  BY <1>0, <2>1 DEF ListInv
  <2> QED  BY <1>1, <1>pz, <2>2, ZombiesFinite DEF MemberInv
<1>3. /\ t0 \in TableType
      /\ \A q \in Slot : q # p => t0[q] = table[q]
      /\ t0[p].state = table[p].state /\ t0[p].parent = r /\ t0[p].retval = v
      /\ t0[p].children = table[p].children
      /\ t0[p].first_zombie = table[p].first_zombie
      /\ t0[p].next_zombie = table[p].next_zombie
      /\ t0[p].prev_zombie = table[p].prev_zombie
  <2>1. v \in Int /\ table[p] \in RowType  BY <1>0 DEF TableType
  <2>2. t0 \in TableType  BY <1>0, <1>p0, <2>1, TableUpdate
  <2> QED  BY <1>0, <1>p0, <1>pr, <2>1, <2>2 DEF TableType, RowType
<1>4. Zombies(t0, p) = zs
  <2>1. \A q \in zs : t0[q].next_zombie = table[q].next_zombie  BY <1>2, <1>3, Rows
  <2> QED  BY <1>0, <1>3, <1>pz, <2>1, ZombiesSame
<1>5. t \in TableType /\ FreeDoes(t0, t, zs, p)
  BY <1>0, <1>2, <1>3, <1>4, <1>pt, FreeZombiesType, FreeFields
<1>6. /\ \A q \in Slot : /\ q \in zs => t[q].state = "FREE" /\ t[q].parent = None
                         /\ q \notin zs /\ q # p => t[q] = table[q]
                         /\ q # p => t[q].first_zombie = table[q].first_zombie
                         /\ t[q].next_zombie = table[q].next_zombie
                         /\ t[q].prev_zombie = table[q].prev_zombie
      /\ t[p].state = "RUNNING" /\ t[p].parent = r
      /\ t[p].retval = v /\ t[p].first_zombie = None
      /\ t[p].children = table[p].children - Cardinality(zs)
  BY <1>0, <1>1, <1>3, <1>5 DEF FreeDoes
<1>7. CASE ParentGone(t, r)
  <2>1. r \in Row /\ t[r].state = "ZOMBIE"  BY <1>1, <1>7, Rows DEF ParentGone
  <2>2. r \notin zs /\ t[r] = table[r] /\ table[r].state = "ZOMBIE"
    BY <1>1, <1>6, <2>1
  <2>3. table[r].first_zombie = None  BY <1>0, <2>1, <2>2 DEF ZombieInv
  <2>4. /\ u \in TableType
        /\ \A q \in Slot : q # r => u[q] = t[q]
        /\ u[r].state = t[r].state /\ u[r].parent = t[r].parent
        /\ u[r].retval = t[r].retval
        /\ u[r].first_zombie = t[r].first_zombie
        /\ u[r].next_zombie = t[r].next_zombie
        /\ u[r].prev_zombie = t[r].prev_zombie
    <3>1. t[r].children \in Int /\ t[r] \in RowType  BY <1>1, <1>5, TableFields DEF TableType
    <3>2. t[r].children - 1 \in Int  BY <3>1
    <3>3. u \in TableType  BY <1>1, <1>5, <1>pu, <3>2, TableUpdate
    <3> QED  BY <1>1, <1>5, <1>pu, <3>1, <3>3 DEF TableType, RowType
  <2>px. PICK x : x = IF LastOfJoined(t, r) THEN FinishJoined(u, r) ELSE u  OBVIOUS
  <2>5. /\ x \in TableType
        /\ \A q \in Slot : q # r => x[q] = t[q]
        /\ x[r].state = table[r].state /\ x[r].parent = table[r].parent
        /\ x[r].retval = table[r].retval \/ table[r].retval < 0
        /\ x[r].first_zombie = table[r].first_zombie
        /\ x[r].next_zombie = table[r].next_zombie
        /\ x[r].prev_zombie = table[r].prev_zombie
    <3>1. CASE LastOfJoined(t, r)
      <4>1. JoinedDoes(u, x, r) /\ x \in TableType
        <5>1. x = FinishJoined(u, r)  BY <2>px, <3>1
        <5>2. u[r].first_zombie = None  BY <2>2, <2>3, <2>4
        <5> QED  BY <1>1, <2>4, <5>1, <5>2, JoinedFields
      <4>2. table[r].retval < 0  BY <2>2, <3>1 DEF LastOfJoined
      <4> QED  BY <2>2, <2>3, <2>4, <4>1, <4>2 DEF JoinedDoes
    <3>2. CASE ~ LastOfJoined(t, r)  BY <2>2, <2>4, <2>px, <3>2
    <3> QED  BY <3>1, <3>2
  <2>6. table' = [x EXCEPT ![p].state = "FREE"]  BY <1>7, <1>pr, <1>p0, <1>pt, <1>pu, <2>px DEF FinishGiven
  <2>7. /\ \A q \in Slot : q # p => table'[q] = x[q]
        /\ table'[p].state = "FREE" /\ table'[p].parent = x[p].parent
        /\ table'[p].retval = x[p].retval /\ table'[p].children = x[p].children
        /\ table'[p].first_zombie = x[p].first_zombie
        /\ table'[p].next_zombie = x[p].next_zombie
        /\ table'[p].prev_zombie = x[p].prev_zombie
    <3>1. x[p] \in RowType  BY <1>0, <2>5 DEF TableType
    <3> QED  BY <1>0, <2>5, <2>6, <3>1 DEF TableType, RowType
  <2>8. ASSUME NEW q \in Row, q # p, q # r PROVE table'[q] = t[q] /\ q \in Slot
    BY <2>5, <2>7, <2>8, Rows
  <2>9. /\ table'[r].state = table[r].state /\ table'[r].parent = table[r].parent
        /\ table'[r].retval = table[r].retval \/ table[r].retval < 0
        /\ table'[r].first_zombie = table[r].first_zombie
        /\ table'[r].next_zombie = table[r].next_zombie
        /\ table'[r].prev_zombie = table[r].prev_zombie
    BY <1>1, <2>5, <2>7
  <2>10. /\ table'[p].state = "FREE" /\ table'[p].parent = r
         /\ table'[p].retval = v /\ table'[p].first_zombie = None
         /\ table'[p].prev_zombie = None
         /\ table'[p].children = table[p].children - Cardinality(zs)
    BY <1>0, <1>1, <1>6, <2>5, <2>7
  <2>11. \A q \in zs : table'[q].state = "FREE" /\ table'[q].parent = None
    BY <1>2, <1>6, <2>2, <2>8, Rows
  <2>12. ASSUME NEW q \in Row, q \notin zs, q # p
         PROVE /\ table'[q].state = table[q].state
               /\ table'[q].parent = table[q].parent
               /\ \/ table'[q].retval = table[q].retval
                  \/ table[q].retval < 0 /\ table[q].state = "ZOMBIE"
               /\ table'[q].children = table[q].children \/ (q = r /\ table[q].state = "ZOMBIE")
    <3>1. CASE q = r  BY <2>2, <2>9, <3>1
    <3>2. CASE q # r  BY <1>6, <2>8, <2>12, <3>2
    <3> QED  BY <3>1, <3>2
  <2>13. ASSUME NEW q \in Row, q # p
         PROVE  /\ table'[q].next_zombie = table[q].next_zombie
                /\ table'[q].prev_zombie = table[q].prev_zombie
                /\ table'[q].first_zombie = table[q].first_zombie
    <3>1. CASE q = r  BY <2>9, <3>1
    <3>2. CASE q # r  BY <1>6, <2>8, <2>13, <3>2
    <3> QED  BY <3>1, <3>2
  <2> QED  BY <1>1, <2>1, <2>2, <2>10, <2>11, <2>12, <2>13 DEF FinishTable
<1>8. CASE ~ ParentGone(t, r) /\ r >= 0
  <2>1. r \in Row  BY <1>1, <1>8, Rows
  <2>2. LinkDoes(t, table', r, p)
    <3>1. table' = LinkZombie(t, r, p)  BY <1>8, <1>pr, <1>p0, <1>pt DEF FinishGiven
    <3> QED  BY <1>0, <1>1, <1>5, <3>1, LinkFields
  <2>3. t[r].state # "ZOMBIE"  BY <1>8 DEF ParentGone
  <2>4. t[r].first_zombie = table[r].first_zombie  BY <1>1, <1>6
  <2>5. p # table[r].first_zombie
    <3>1. Linked(table, r) /\ MemberInv(r)
      <4>1. Owner(r)  BY <2>1, <1>pr DEF Owner, Alive
      <4> QED  BY <1>0, <2>1, <4>1 DEF ListInv
    <3>2. table[r].first_zombie >= 0 => table[r].first_zombie \in Zombies(table, r)
      BY <1>0, <1>1, ZombiesHas DEF HasZombies
    <3>3. p >= 0  BY Rows
    <3> QED  BY <1>1, <3>1, <3>2, <3>3 DEF MemberInv
  <2>6. ASSUME NEW q \in Slot, q # p
        PROVE  /\ table'[q].state = t[q].state /\ table'[q].parent = t[q].parent
               /\ table'[q].retval = t[q].retval /\ table'[q].children = t[q].children
               /\ q # r => table'[q].first_zombie = table[q].first_zombie
               /\ table'[q].next_zombie = table[q].next_zombie
               /\ q # table[r].first_zombie => table'[q].prev_zombie = table[q].prev_zombie
               /\ q = table[r].first_zombie /\ q >= 0 => table'[q].prev_zombie = p
    BY <1>6, <2>2, <2>4, <2>6 DEF LinkDoes
  <2>7. /\ table'[p].state = "ZOMBIE" /\ table'[p].parent = r
        /\ table'[p].retval = v /\ table'[p].first_zombie = None
        /\ table'[p].next_zombie = table[r].first_zombie
        /\ table'[p].prev_zombie = None
        /\ table'[p].children = table[p].children - Cardinality(zs)
    BY <1>0, <1>1, <1>6, <2>2, <2>4, <2>5 DEF LinkDoes
  <2>8. table'[r].first_zombie = p /\ table'[r].state # "ZOMBIE"
    BY <1>1, <2>2, <2>3, <2>6 DEF LinkDoes
  <2>9. LinkedFront(table, table', r, p)
    <3>1. Zombies(table, r) \subseteq Row /\ p \notin Zombies(table, r)
      <4>1. Owner(r)  BY <2>1, <1>pr DEF Owner, Alive
      <4>2. MemberInv(r)  BY <1>0, <2>1, <4>1 DEF ListInv
      <4> QED  BY <1>1, <4>2, ZombiesFinite DEF MemberInv
    <3>2. table[r].first_zombie \in Slot  BY <1>0, <1>1, TableFields
    <3>3. table[r].first_zombie >= 0 => table'[table[r].first_zombie].prev_zombie = p
      BY <2>5, <2>6, <3>2
    <3>4. ASSUME NEW q \in Zombies(table, r)
          PROVE  /\ table'[q].next_zombie = table[q].next_zombie
                 /\ q # table[r].first_zombie => table'[q].prev_zombie = table[q].prev_zombie
      BY <2>6, <3>1, Rows
    <3> QED  BY <2>7, <2>8, <3>3, <3>4 DEF LinkedFront
  <2>10. \A q \in zs : table'[q].state = "FREE" /\ table'[q].parent = None
    BY <1>2, <1>6, <2>6, Rows
  <2>11. ASSUME NEW q \in Row, q \notin zs, q # p
         PROVE /\ table'[q].state = table[q].state
               /\ table'[q].parent = table[q].parent
               /\ table'[q].retval = table[q].retval
               /\ table'[q].children = table[q].children
    BY <1>6, <2>6, <2>11, Rows
  <2>12. ASSUME NEW q \in Row, q # p
         PROVE  /\ table'[q].next_zombie = table[q].next_zombie
                /\ q # r => table'[q].first_zombie = table[q].first_zombie
                /\ q # table[r].first_zombie => table'[q].prev_zombie = table[q].prev_zombie
    BY <2>6, <2>12, Rows
  <2> QED  BY <2>1, <2>7, <2>8, <2>9, <2>10, <2>11, <2>12 DEF FinishTable
<1>9. CASE ~ ParentGone(t, r) /\ ~ (r >= 0)
  <2>1. r = None  BY <1>1, <1>9, Rows
  <2>2. table' = [t EXCEPT ![p].state = "ZOMBIE"]  BY <1>9, <1>pr, <1>p0, <1>pt DEF FinishGiven
  <2>3. /\ \A q \in Slot : q # p => table'[q] = t[q]
        /\ table'[p].state = "ZOMBIE" /\ table'[p].parent = t[p].parent
        /\ table'[p].retval = t[p].retval /\ table'[p].children = t[p].children
        /\ table'[p].first_zombie = t[p].first_zombie
        /\ table'[p].next_zombie = t[p].next_zombie
        /\ table'[p].prev_zombie = t[p].prev_zombie
    <3>1. t[p] \in RowType  BY <1>0, <1>5 DEF TableType
    <3> QED  BY <1>0, <1>5, <2>2, <3>1 DEF TableType, RowType
  <2>4. /\ table'[p].state = "ZOMBIE" /\ table'[p].parent = r
        /\ table'[p].retval = v /\ table'[p].first_zombie = None
        /\ table'[p].next_zombie = None /\ table'[p].prev_zombie = None
        /\ table'[p].children = table[p].children - Cardinality(zs)
    BY <1>0, <1>1, <1>6, <2>3
  <2>5. \A q \in zs : table'[q].state = "FREE" /\ table'[q].parent = None
    BY <1>2, <1>6, <2>3, Rows
  <2>6. ASSUME NEW q \in Row, q \notin zs, q # p PROVE table'[q] = table[q]
    BY <1>6, <2>3, <2>6, Rows
  <2>7. ASSUME NEW q \in Row, q # p
        PROVE  /\ table'[q].next_zombie = table[q].next_zombie
               /\ table'[q].prev_zombie = table[q].prev_zombie
               /\ table'[q].first_zombie = table[q].first_zombie
    BY <1>6, <2>3, <2>7, Rows
  <2> QED  BY <2>1, <2>4, <2>5, <2>6, <2>7 DEF FinishTable
<1> QED  BY <1>7, <1>8, <1>9

\* What the exit of p does to the threads: the one that sleeps on p goes on.
FinishMoves(p, v) ==
    /\ p \in Row /\ pc[p] = "user" /\ pc'[p] = "none"
    /\ \A b \in Slot : pc[b] = "asleep" /\ arg[b] = p => pc'[b] = "join"
    /\ \A b \in Slot : b # p /\ ~ (pc[b] = "asleep" /\ arg[b] = p) => pc'[b] = pc[b]
    /\ \A b \in Slot : b # p => arg'[b] = arg[b] /\ code'[b] = code[b] /\ waitq'[b] = waitq[b]
    /\ waitq'[p] = <<>> /\ code'[p] = v
    /\ maker' = maker /\ load' = load
    /\ load.joins => table[p].children = 0

LEMMA FinishMovesEffect ==
    ASSUME IInv, NEW p \in Actor, NEW c \in load.codes, Finish(p, c)
    PROVE  FinishMoves(p, ExitValue(c)) /\ ExitValue(c) \in Nat
<1>0. /\ TypeOK /\ WaitInv /\ Actor = Slot /\ p \in Slot /\ p \in Row /\ pc[p] = "user"
      /\ pc \in [Slot -> PC] /\ arg \in [Slot -> Slot] /\ code \in [Slot -> Nat]
      /\ waitq \in [Slot -> Seq(Slot)] /\ load \in Workloads
  BY Types, Rows DEF IInv, Finish
<1>1. ExitValue(c) \in Nat
  <2>1. c \in Int  BY <1>0, ProcessAssumption
  <2> QED  BY <2>1 DEF ExitValue
<1>2. /\ arg'[p] = None /\ \A b \in Slot : b # p => arg'[b] = arg[b]
      /\ code'[p] = ExitValue(c) /\ \A b \in Slot : b # p => code'[b] = code[b]
      /\ \A b \in Slot : b # p => waitq'[b] = waitq[b]
      /\ waitq'[p] = IF waitq[p] = <<>> THEN waitq[p] ELSE Tail(waitq[p])
      /\ pc'[p] = "none"
      /\ \A b \in Slot : b # p => pc'[b] = IF b \in Woken(p) THEN "join" ELSE pc[b]
  BY <1>0 DEF Finish
<1>3. CASE waitq[p] = <<>>
  <2>1. Woken(p) = {}  BY <1>3 DEF Woken
  <2>2. ASSUME NEW b \in Slot, pc[b] = "asleep", arg[b] = p PROVE FALSE
    <3>1. waitq[p] = <<b>>  BY <1>0, <2>2 DEF WaitInv
    <3>2. Len(<<b>>) = 1 /\ Len(<<>>) = 0  OBVIOUS
    <3> QED  BY ONLY <1>3, <3>1, <3>2, 1 # 0
  <2> QED  BY <1>0, <1>1, <1>2, <1>3, <2>1, <2>2 DEF Finish, FinishMoves
<1>4. CASE waitq[p] # <<>>
  <2>1. PICK a \in Slot : waitq[p] = <<a>> /\ pc[a] = "asleep" /\ arg[a] = p
    BY <1>0, <1>4 DEF WaitInv
  <2>2. Head(waitq[p]) = a /\ Tail(waitq[p]) = <<>>  BY <2>1
  <2>3. Woken(p) = {a} /\ waitq'[p] = <<>>  BY <1>2, <1>4, <2>2 DEF Woken
  <2>4. ASSUME NEW b \in Slot, pc[b] = "asleep", arg[b] = p PROVE b = a
    <3>1. waitq[p] = <<b>>  BY <1>0, <2>4 DEF WaitInv
    <3> QED  BY <2>1, <3>1
  <2>5. a # p  BY <1>0, <2>1
  <2>6. ASSUME NEW b \in Slot
        PROVE  /\ pc[b] = "asleep" /\ arg[b] = p => pc'[b] = "join"
               /\ b # p /\ ~ (pc[b] = "asleep" /\ arg[b] = p) => pc'[b] = pc[b]
    BY <1>0, <1>2, <2>1, <2>3, <2>4, <2>5
  <2> QED  BY <1>0, <1>1, <1>2, <2>3, <2>6 DEF Finish, FinishMoves
<1> QED  BY <1>3, <1>4

LEMMA FinishKeeps ==
    ASSUME IInv, TypeOK', NEW p \in Actor, NEW c \in load.codes, Finish(p, c)
    PROVE  IInv'
<1>0. /\ TypeOK /\ PlaceInv /\ FillInv /\ CountInv /\ JoinInv /\ WaitInv
      /\ LiveInv /\ RunInv /\ ZombieInv /\ FreeInv /\ ListInv
      /\ load.joins => KinInv /\ ChildrenExact
  BY DEF IInv
<1>pv. PICK v : v = ExitValue(c)  OBVIOUS
<1>pr. PICK r : r = table[p].parent  OBVIOUS
<1>pz. PICK zs : zs = Zombies(table, p)  OBVIOUS
<1>1. FinishMoves(p, v) /\ v \in Nat  BY <1>pv, FinishMovesEffect
<1>2. Actor = Slot /\ p \in Row /\ p \in Slot /\ pc[p] = "user"
  BY <1>0, <1>1, Rows, Types DEF FinishMoves
<1>3. FinishTable(p, r, zs, v)
  <2>1. table' = FinishGiven(p, v)  BY <1>pv DEF Finish
  <2> QED  BY <1>1, <1>2, <1>pr, <1>pz, <2>1, FinishTableEffect
<1>4. table \in TableType /\ table' \in TableType
  <2>1. TypeOK' => table' \in TableType  BY DEF TypeOK, TableType, RowType
  <2> QED  BY <1>0, <2>1, Types
<1>5. /\ table[p].state = "RUNNING" /\ r # p /\ r \in Slot
      /\ table[p].prev_zombie = None /\ table[p].next_zombie = None
      /\ maker[p] \in {Gone, r}
  BY <1>0, <1>2, <1>4, <1>pr, TableFields DEF LiveInv, Alive
<1>6. Owner(p) /\ (r \in Row => Owner(r))  BY <1>2, <1>pr DEF Owner, Alive
<1>7. /\ zs \subseteq Row /\ Linked(table, p)
      /\ \A q \in zs : /\ table[q].state = "ZOMBIE" /\ table[q].parent \in {p, None}
                       /\ maker[q] # Startup
  <2>1. Linked(table, p) /\ MemberInv(p)  BY <1>0, <1>2, <1>6 DEF ListInv
  <2> QED  BY <1>pz, <2>1, ZombiesFinite DEF MemberInv
\* The first zombie of r, the one row besides p whose prev_zombie may change.
<1>8. r \in Row /\ table[r].first_zombie \in Row =>
        /\ table[r].first_zombie \in Zombies(table, r)
        /\ table[table[r].first_zombie].state = "ZOMBIE"
        /\ maker[table[r].first_zombie] # Startup
  <2> SUFFICES ASSUME r \in Row, table[r].first_zombie \in Row
               PROVE  /\ table[r].first_zombie \in Zombies(table, r)
                      /\ table[table[r].first_zombie].state = "ZOMBIE"
                      /\ maker[table[r].first_zombie] # Startup
    OBVIOUS
  <2>1. MemberInv(r)  BY <1>0, <1>6 DEF ListInv
  <2>2. table[r].first_zombie >= 0  BY Rows
  <2>3. table[r].first_zombie \in Zombies(table, r)
    BY <1>4, <1>5, <2>2, ZombiesHas DEF HasZombies
  <2> QED  BY <2>1, <2>3 DEF MemberInv
<1>9. ASSUME NEW q \in Row, q # p, table[q].state = "RUNNING" \/ maker[q] = Startup
      PROVE  /\ q \notin zs
             /\ table'[q].state = table[q].state
             /\ table'[q].parent = table[q].parent
             /\ table'[q].next_zombie = table[q].next_zombie
             /\ table'[q].prev_zombie = table[q].prev_zombie
             /\ table[q].state = "RUNNING" => table'[q].children = table[q].children
  <2>1. q \notin zs  BY <1>7, <1>9
  <2>2. r \in Row => q # table[r].first_zombie  BY <1>8, <1>9
  <2>3. /\ table'[q].state = table[q].state /\ table'[q].parent = table[q].parent
        /\ table'[q].next_zombie = table[q].next_zombie
        /\ table[q].state = "RUNNING" => table'[q].children = table[q].children
    BY <1>3, <1>9, <2>1 DEF FinishTable
  <2>4. table'[q].prev_zombie = table[q].prev_zombie
    BY <1>3, <1>9, <2>2 DEF FinishTable
  <2> QED  BY <2>1, <2>3, <2>4
<1>10. ASSUME NEW b \in Slot
       PROVE  /\ Filling(b)' => Filling(b) /\ b # p /\ pc'[b] = pc[b] /\ arg'[b] = arg[b]
              /\ Filling(b) => Filling(b)' /\ arg'[b] = arg[b]
              /\ Joining(b)' => Joining(b) /\ b # p /\ arg'[b] = arg[b]
              /\ Alive(b)' <=> Alive(b) /\ b # p
  BY <1>1 DEF FinishMoves, Filling, Joining, Alive
<1>11. PlaceInv'
  <2>1. \A b \in Slot : \/ b = p /\ pc'[b] = "none"
                        \/ pc'[b] = pc[b]
                        \/ pc'[b] = "join"
    BY <1>1 DEF FinishMoves
  <2> QED  BY <1>0, <1>2, <2>1, Rows DEF PlaceInv
<1>12. FillInv'
  <2> SUFFICES ASSUME NEW b \in Slot, Filling(b)'
               PROVE  /\ arg'[b] \in Row
                      /\ pc'[arg'[b]] = "none"
                      /\ table'[arg'[b]].state = "RUNNING"
                      /\ maker'[arg'[b]] = b
                      /\ \A q \in Slot : maker'[q] # arg'[b]
    BY <1>2 DEF FillInv
  <2>1. Filling(b) /\ arg'[b] = arg[b]  BY <1>10
  <2>2. /\ arg[b] \in Row /\ pc[arg[b]] = "none" /\ table[arg[b]].state = "RUNNING"
        /\ maker[arg[b]] = b /\ \A q \in Slot : maker[q] # arg[b]
    BY <1>0, <1>2, <2>1 DEF FillInv
  <2>3. arg[b] # p /\ arg[b] \in Slot  BY <1>2, <2>2, Rows
  <2>4. pc'[arg[b]] = "none"  BY <1>10, <2>2, <2>3 DEF Alive
  <2>5. maker' = maker  BY <1>1 DEF FinishMoves
  <2> QED  BY <1>9, <2>1, <2>2, <2>3, <2>4, <2>5
<1>13. CountInv'
  <2> SUFFICES ASSUME NEW b \in Slot, Counting(b)'
               PROVE  /\ Counting(b) /\ arg'[b] = arg[b]
                      /\ table'[arg[b]].parent = table[arg[b]].parent
                      /\ table'[arg[b]].prev_zombie = table[arg[b]].prev_zombie
                      /\ table'[arg[b]].next_zombie = table[arg[b]].next_zombie
                      /\ table'[arg[b]].children = table[arg[b]].children
    BY <1>0, <1>2 DEF CountInv
  <2>1. Filling(b)'  BY DEF Filling, Counting
  <2>2. Counting(b) /\ Filling(b) /\ arg'[b] = arg[b]  BY <1>10, <2>1 DEF Counting
  <2>3. arg[b] \in Row /\ pc[arg[b]] = "none" /\ table[arg[b]].state = "RUNNING"
    BY <1>0, <1>2, <2>2 DEF FillInv
  <2>4. arg[b] # p  BY <1>2, <2>3
  <2> QED  BY <1>9, <2>2, <2>3, <2>4
<1>14. JoinInv'
  <2> SUFFICES ASSUME NEW b \in Slot, Joining(b)'
               PROVE  /\ arg'[b] \in Row
                      /\ maker'[arg'[b]] = b
                      /\ table'[arg'[b]].parent = b
                      /\ table'[arg'[b]].state # "FREE"
                      /\ table'[arg'[b]].state = "ZOMBIE" => table'[arg'[b]].retval = code'[arg'[b]]
                      /\ b = Startup => /\ table'[arg'[b]].prev_zombie = None
                                        /\ table'[arg'[b]].next_zombie = None
    BY <1>2 DEF JoinInv
  <2>px. PICK x : x = arg[b]  OBVIOUS
  <2>1. Joining(b) /\ b # p /\ arg'[b] = x  BY <1>10, <2>px
  <2>2. /\ x \in Row /\ maker[x] = b /\ table[x].parent = b /\ table[x].state # "FREE"
        /\ table[x].state = "ZOMBIE" => table[x].retval = code[x]
        /\ b = Startup => table[x].prev_zombie = None /\ table[x].next_zombie = None
    BY <1>0, <1>2, <2>1, <2>px DEF JoinInv
  <2>3. maker' = maker /\ x \in Slot  BY <1>1, <2>2, Rows DEF FinishMoves
  <2>4. CASE x = p
    <3>1. r = b  BY <1>pr, <2>2, <2>4
    <3>2. b \in Row => table[b].state = "RUNNING"
      BY <1>0, <2>1 DEF LiveInv, Alive, Joining
    <3>3. table'[p].state = "ZOMBIE"  BY <1>3, <3>1, <3>2 DEF FinishTable
    <3>4. table'[p].parent = b /\ table'[p].retval = v /\ table'[p].prev_zombie = None
      BY <1>3, <3>1 DEF FinishTable
    <3>5. code'[p] = v  BY <1>1 DEF FinishMoves
    <3>6. b = Startup => table'[p].next_zombie = None
      BY <1>3, <3>1, Rows DEF FinishTable
    <3> QED  BY <2>1, <2>2, <2>3, <2>4, <3>3, <3>4, <3>5, <3>6
  <2>5. CASE x # p
    <3>1. x \notin zs
      <4>1. b = None => b = Startup  BY DEF None, Startup
      <4> QED  BY <1>7, <2>1, <2>2, <4>1
    <3>2. table'[x].state = table[x].state /\ table'[x].parent = table[x].parent
      BY <1>3, <2>2, <2>5, <3>1 DEF FinishTable
    <3>3. code'[x] = code[x]  BY <1>1, <2>3, <2>5 DEF FinishMoves
    <3>4. table[x].state = "ZOMBIE" => table'[x].retval = code[x]
      <4>1. code[x] \in Nat /\ table[x].retval \in Int  BY <1>0, <1>4, <2>3, Types, TableFields
      <4>2. \/ table'[x].retval = table[x].retval
            \/ table[x].retval < 0
        BY <1>3, <2>2, <2>5, <3>1 DEF FinishTable
      <4> QED  BY <2>2, <4>1, <4>2
    <3>5. b = Startup => /\ table'[x].prev_zombie = None
                         /\ table'[x].next_zombie = None
      BY <1>9, <2>2, <2>5
    <3> QED  BY <2>1, <2>2, <2>3, <3>2, <3>3, <3>4, <3>5
  <2> QED  BY <2>4, <2>5
<1>15. WaitInv'
  <2>1. ASSUME NEW q \in Slot, waitq'[q] # <<>>
        PROVE  \E b \in Slot : waitq'[q] = <<b>> /\ pc'[b] = "asleep" /\ arg'[b] = q
    <3>1. q # p /\ waitq'[q] = waitq[q]  BY <1>1, <2>1 DEF FinishMoves
    <3>2. PICK b \in Slot : waitq[q] = <<b>> /\ pc[b] = "asleep" /\ arg[b] = q
      BY <1>0, <1>2, <2>1, <3>1 DEF WaitInv
    <3>3. b # p  BY <1>2, <3>2
    <3> QED  BY <1>1, <3>1, <3>2, <3>3 DEF FinishMoves
  <2>2. ASSUME NEW b \in Slot, pc'[b] = "asleep"
        PROVE  waitq'[arg'[b]] = <<b>> /\ table'[arg'[b]].state = "RUNNING"
    <3>1. b # p /\ pc[b] = "asleep" /\ arg[b] # p /\ arg'[b] = arg[b]
      BY <1>1, <2>2 DEF FinishMoves
    <3>2. /\ waitq[arg[b]] = <<b>> /\ table[arg[b]].state = "RUNNING"
          /\ arg[b] \in Row /\ arg[b] \in Slot
      BY <1>0, <1>2, <3>1, Rows DEF WaitInv, JoinInv, Joining
    <3> QED  BY <1>1, <1>9, <3>1, <3>2 DEF FinishMoves
  <2> QED  BY <1>2, <2>1, <2>2 DEF WaitInv
<1>16. LiveInv'
  <2> SUFFICES ASSUME NEW q \in Row, Alive(q)'
               PROVE  /\ Alive(q)
                      /\ table'[q].state = table[q].state
                      /\ table'[q].parent = table[q].parent
                      /\ table'[q].prev_zombie = table[q].prev_zombie
                      /\ table'[q].next_zombie = table[q].next_zombie
                      /\ maker' = maker
    BY <1>0 DEF LiveInv
  <2>1. Alive(q) /\ q # p  BY <1>10, Rows
  <2>2. table[q].state = "RUNNING"  BY <1>0, <2>1 DEF LiveInv
  <2> QED  BY <1>1, <1>9, <2>1, <2>2 DEF FinishMoves
<1>17. RunInv'
  <2> SUFFICES ASSUME NEW q \in Row, table'[q].state = "RUNNING"
               PROVE  Alive(q)' \/ BeingFilled(q)'
    BY DEF RunInv
  <2>1. q # p /\ table[q].state = "RUNNING"  BY <1>3 DEF FinishTable
  <2>2. Alive(q) \/ BeingFilled(q)  BY <1>0, <2>1 DEF RunInv
  <2>3. BeingFilled(q) => BeingFilled(q)'
    <3> SUFFICES ASSUME BeingFilled(q) PROVE BeingFilled(q)'  OBVIOUS
    <3>1. PICK b \in Slot : arg[b] = q /\ Filling(b)  BY <1>2 DEF BeingFilled, Filling
    <3>2. Filling(b)' /\ arg'[b] = q  BY <1>10, <3>1
    <3> QED  BY <1>2, <3>2 DEF BeingFilled, Filling
  <2> QED  BY <1>10, <2>1, <2>2, <2>3, Rows
<1>18. ZombieInv'
  <2> SUFFICES ASSUME NEW q \in Row, table'[q].state = "ZOMBIE"
               PROVE  /\ table'[q].first_zombie = None
                      /\ table'[q].parent # None => table'[q].retval = code'[q]
    BY DEF ZombieInv
  <2>1. CASE q = p  BY <1>1, <1>3, <2>1 DEF FinishTable, FinishMoves
  <2>2. CASE q # p
    <3>1. q \notin zs  BY <1>3 DEF FinishTable
    <3>2. /\ table[q].state = "ZOMBIE" /\ table'[q].parent = table[q].parent
          /\ table'[q].retval = table[q].retval \/ table[q].retval < 0
      BY <1>3, <2>2, <3>1 DEF FinishTable
    <3>3. table'[q].first_zombie = table[q].first_zombie
      BY <1>3, <2>2, Rows DEF FinishTable
    <3>4. table[q].first_zombie = None /\ (table[q].parent # None => table[q].retval = code[q])
      BY <1>0, <3>2 DEF ZombieInv
    <3>5. code[q] \in Nat /\ table[q].retval \in Int  BY <1>0, <1>4, Rows, Types, TableFields
    <3>6. code'[q] = code[q]  BY <1>1, <2>2, Rows DEF FinishMoves
    <3> QED  BY <3>2, <3>3, <3>4, <3>5, <3>6
  <2> QED  BY <2>1, <2>2
<1>19. FreeInv'
  <2> SUFFICES ASSUME NEW q \in Row, NEW s \in Row, table'[q].state = "FREE",
                      maker[q] = s, table'[q].parent = s
               PROVE  ~ Alive(s)'
    BY <1>1 DEF FreeInv, FinishMoves
  <2>1. CASE q = p
    <3>1. s = r /\ table[r].state = "ZOMBIE"  BY <1>3, <2>1 DEF FinishTable
    <3> QED  BY <1>0, <1>10, <3>1, Rows DEF LiveInv
  <2>2. CASE q # p
    <3>1. q \notin zs  BY <1>3, Rows DEF FinishTable
    <3>2. table[q].state = "FREE" /\ table[q].parent = s
      BY <1>3, <2>2, <3>1 DEF FinishTable
    <3> QED  BY <1>0, <1>10, <3>2, Rows DEF FreeInv
  <2> QED  BY <2>1, <2>2
<1>20. ASSUME NEW s \in Row, Owner(s)' PROVE Owner(s)
  <2>1. ASSUME NEW z \in Row, Alive(z)', table'[z].parent = s
        PROVE  Alive(z) /\ table[z].parent = s
    <3>1. Alive(z) /\ z # p /\ table[z].state = "RUNNING"
      BY <1>0, <1>10, <2>1, Rows DEF LiveInv
    <3> QED  BY <1>9, <2>1, <3>1
  <2>2. ASSUME NEW b \in Slot, Counting(b)', arg'[b] = s PROVE Counting(b) /\ arg[b] = s
    <3>1. Filling(b)'  BY <2>2 DEF Filling, Counting
    <3> QED  BY <1>10, <2>2, <3>1 DEF Counting
  <2> QED  BY <1>2, <1>10, <1>20, <2>1, <2>2, Rows DEF Owner
\* The lists of the other owners are left alone, except that p joins that of r.
<1>21. ASSUME NEW s \in Row, Owner(s), s # p
       PROVE  /\ Linked(table, s) /\ MemberInv(s) /\ p \notin Zombies(table, s)
              /\ Zombies(table, s) \subseteq Row
              /\ \A q \in Zombies(table, s) : q \notin zs
  BY <1>0, <1>2, <1>5, <1>6, <1>21, <1>pz, ZombiesFinite DEF ListInv, MemberInv
<1>22. ASSUME NEW s \in Row, Owner(s), s # p
       PROVE  /\ Linked(table', s)
              /\ Zombies(table', s) = IF s = r /\ table'[p].state = "ZOMBIE"
                                      THEN Zombies(table, s) \cup {p}
                                      ELSE Zombies(table, s)
  <2>1. /\ Linked(table, s) /\ MemberInv(s) /\ p \notin Zombies(table, s)
        /\ Zombies(table, s) \subseteq Row /\ s \in Slot
    BY <1>21, <1>22, Rows
  <2>2. CASE s = r /\ table'[p].state = "ZOMBIE"
    <3>1. LinkedFront(table, table', s, p)  BY <1>3, <2>2, Rows DEF FinishTable
    <3> QED  BY <1>2, <1>4, <2>1, <2>2, <3>1, FrontAdds
  <2>3. CASE ~ (s = r /\ table'[p].state = "ZOMBIE")
    <3>1. table'[s].first_zombie = table[s].first_zombie
      BY <1>3, <1>22, <2>3 DEF FinishTable
    <3>2. ASSUME NEW q \in Zombies(table, s)
          PROVE  /\ table'[q].next_zombie = table[q].next_zombie
                 /\ table'[q].prev_zombie = table[q].prev_zombie
      <4>1. q \in Row /\ q # p  BY <2>1
      <4>2. r \in Row /\ s # r => q # table[r].first_zombie
        BY <1>0, <1>6, <1>8, <1>22, <4>1 DEF ListInv
      <4>3. table'[q].next_zombie = table[q].next_zombie  BY <1>3, <4>1 DEF FinishTable
      <4>4. table'[q].prev_zombie = table[q].prev_zombie
        BY <1>3, <2>3, <4>1, <4>2 DEF FinishTable
      <4> QED  BY <4>3, <4>4
    <3>3. Zombies(table', s) = Zombies(table, s)  BY <1>4, <2>1, <3>1, <3>2, ZombiesSame
    <3>4. Linked(table', s)  BY <1>4, <2>1, <3>1, <3>2, LinkedSame
    <3> QED  BY <2>3, <3>3, <3>4
  <2> QED  BY <2>2, <2>3
<1>23. Zombies(table', p) = {} /\ Linked(table', p)
  <2>1. ~ (table'[p].first_zombie >= 0)  BY <1>3, Rows DEF FinishTable
  <2>2. Zombies(table', p) = {}  BY <2>1, ZombiesNone
  <2> QED  BY <2>1, <2>2 DEF Linked
<1>24. ListInv'
  <2>1. ASSUME NEW s \in Row, Owner(s)' PROVE Linked(table, s)' /\ MemberInv(s)'
    <3>1. CASE s = p  BY <1>23, <3>1 DEF MemberInv
    <3>2. CASE s # p
      <4>0. Owner(s)  BY <1>20, <2>1
      <4>1. Linked(table', s)  BY <1>22, <3>2, <4>0
      <4>2. ASSUME NEW q \in Zombies(table', s)
            PROVE  /\ table'[q].state = "ZOMBIE" /\ table'[q].parent \in {s, None}
                   /\ maker'[q] # Startup
        <5>1. maker' = maker  BY <1>1 DEF FinishMoves
        <5>2. CASE q = p
          <6>1. s = r /\ table'[p].state = "ZOMBIE"
            <7>1. p \notin Zombies(table, s)  BY <1>21, <3>2, <4>0
            <7> QED  BY <1>22, <3>2, <4>0, <4>2, <5>2, <7>1
          <6>2. table'[p].parent = r  BY <1>3 DEF FinishTable
          <6>3. maker[p] # Startup  BY <1>5, <6>1, Rows
          <6> QED  BY <5>1, <5>2, <6>1, <6>2, <6>3
        <5>3. CASE q # p
          <6>1. q \in Zombies(table, s)  BY <1>22, <3>2, <4>0, <4>2, <5>3
          <6>2. MemberInv(s) /\ q \in Row /\ q \notin zs  BY <1>21, <3>2, <4>0, <6>1
          <6>3. table'[q].state = table[q].state /\ table'[q].parent = table[q].parent
            BY <1>3, <5>3, <6>2 DEF FinishTable
          <6> QED  BY <5>1, <6>1, <6>2, <6>3 DEF MemberInv
        <5> QED  BY <5>2, <5>3
      <4> QED  BY <4>1, <4>2 DEF MemberInv
    <3> QED  BY <3>1, <3>2
  <2>2. ASSUME NEW s \in Row, Alive(s)', NEW q \in Row, table'[q].state = "ZOMBIE", maker'[q] = s
        PROVE  q \in Zombies(table', s)
    <3>1. Alive(s) /\ s # p /\ Owner(s) /\ maker[q] = s
      BY <1>1, <1>10, <2>2, Rows DEF Owner, FinishMoves
    <3>2. CASE q = p
      <4>1. s = r  BY <1>5, <3>1, <3>2, Rows
      <4> QED  BY <1>22, <2>2, <3>1, <3>2, <4>1
    <3>3. CASE q # p
      <4>1. q \notin zs  BY <1>3, <2>2 DEF FinishTable
      <4>2. table[q].state = "ZOMBIE"  BY <1>3, <2>2, <3>3, <4>1 DEF FinishTable
      <4>3. q \in Zombies(table, s)  BY <1>0, <3>1, <4>2 DEF ListInv
      <4> QED  BY <1>22, <3>1, <4>3
    <3> QED  BY <3>2, <3>3
  <2>3. ASSUME NEW s1 \in Row, NEW s2 \in Row, Owner(s1)', Owner(s2)', s1 # s2,
               NEW q \in Zombies(table', s1)
        PROVE  q \notin Zombies(table', s2)
    <3>1. CASE s1 = p \/ s2 = p  BY <1>23, <2>3, <3>1
    <3>2. CASE s1 # p /\ s2 # p
      <4>1. Owner(s1) /\ Owner(s2)  BY <1>20, <2>3
      <4>2. p \notin Zombies(table, s1) /\ p \notin Zombies(table, s2)  BY <1>21, <3>2, <4>1
      <4>3. \A x \in Zombies(table, s1) : x \notin Zombies(table, s2)
        BY <1>0, <2>3, <4>1 DEF ListInv
      <4>4. q \in Zombies(table, s1) \/ (q = p /\ s1 = r)  BY <1>22, <2>3, <3>2, <4>1
      <4>5. q \in Zombies(table', s2) => q \in Zombies(table, s2) \/ (q = p /\ s2 = r)
        BY <1>22, <3>2, <4>1
      <4> QED  BY <2>3, <4>2, <4>3, <4>4, <4>5
    <3> QED  BY <3>1, <3>2
  <2> QED  BY <2>1, <2>2, <2>3 DEF ListInv
\* A program that joins its children leaves none behind.
<1>25. ASSUME load'.joins PROVE KinInv' /\ ChildrenExact'
  <2>0. KinInv /\ ChildrenExact /\ table[p].children = 0 /\ maker' = maker
    BY <1>0, <1>1, <1>25 DEF FinishMoves
  <2>1. ASSUME NEW q \in Row, maker[q] = p PROVE table[q].state = "FREE"
    <3> PICK U : U = Spawned(p)  OBVIOUS
    <3>1. IsFiniteSet(U) /\ Cardinality(U) = 0
      <4>1. IsFiniteSet(U)  BY Rows, FS_Subset DEF Spawned
      <4> QED  BY <1>2, <2>0, <4>1 DEF ChildrenExact
    <3>2. U = {}  BY <3>1, FS_EmptySet
    <3> QED  BY <1>2, <2>1, <3>2 DEF Spawned
  <2>2. zs = {}
    <3> SUFFICES ASSUME NEW q \in zs PROVE FALSE  OBVIOUS
    <3>1. q \in Row /\ table[q].parent = maker[q] /\ table[q].state = "ZOMBIE"
      BY <1>7, <2>0 DEF KinInv
    <3>2. None = Startup  BY DEF None, Startup
    <3>3. maker[q] = p  BY <1>7, <3>1, <3>2
    <3> QED  BY <2>1, <3>1, <3>3
  <2>3. maker[p] = r /\ (r \in Row => Alive(r) /\ table[r].state = "RUNNING")
    BY <1>0, <1>2, <1>5, <2>0 DEF KinInv, LiveInv
  <2>4. table'[p].state = "ZOMBIE"  BY <1>3, <2>3 DEF FinishTable
  <2>5. ASSUME NEW q \in Row, q # p
        PROVE  /\ table'[q].state = table[q].state
               /\ table'[q].parent = table[q].parent
               /\ table'[q].children = table[q].children
    BY <1>3, <2>2, <2>3, <2>5 DEF FinishTable
  <2>6. ASSUME NEW q \in Row, table'[q].state # "FREE"
        PROVE  maker'[q] # Gone /\ (maker'[q] \in Row => pc'[maker'[q]] # "none")
    <3>1. table[q].state # "FREE"  BY <1>5, <2>5, <2>6
    <3>2. maker[q] # p  BY <2>1, <3>1
    <3> QED  BY <1>10, <2>0, <3>1, <3>2, Rows DEF KinInv, Alive
  <2>7. ASSUME NEW q \in Row, table'[q].state = "ZOMBIE"
        PROVE  table'[q].children = 0 /\ table'[q].parent = maker'[q]
    <3>1. CASE q = p
      <4>1. Cardinality(zs) = 0  BY <2>2, FS_EmptySet
      <4> QED  BY <1>3, <2>0, <2>3, <3>1, <4>1 DEF FinishTable
    <3>2. CASE q # p  BY <2>0, <2>5, <2>7, <3>2 DEF KinInv
    <3> QED  BY <3>1, <3>2
  <2>8. ASSUME NEW s \in Row, Alive(s)'
        PROVE  table'[s].children = Cardinality(Spawned(s)')
    <3>1. Alive(s) /\ s # p  BY <1>10, <2>8, Rows
    <3>2. ASSUME NEW q \in Row
          PROVE  (pc'[s] \in {"fill", "count"} /\ arg'[s] = q)
                 <=> (pc[s] \in {"fill", "count"} /\ arg[s] = q)
      BY <1>1, <3>1, Rows DEF FinishMoves
    <3>3. ASSUME NEW q \in Row PROVE table'[q].state = "FREE" <=> table[q].state = "FREE"
      BY <1>5, <2>4, <2>5
    <3>4. Spawned(s)' = Spawned(s)  BY <2>0, <3>2, <3>3 DEF Spawned
    <3> QED  BY <2>0, <2>5, <3>1, <3>4 DEF ChildrenExact, Alive
  <2> QED  BY <2>6, <2>7, <2>8 DEF KinInv, ChildrenExact, Alive
<1> QED
  BY <1>11, <1>12, <1>13, <1>14, <1>15, <1>16, <1>17, <1>18, <1>19, <1>24, <1>25 DEF IInv

-----------------------------------------------------------------------------
(* The process table is sound *)

LEMMA InitInv == Init => IInv
<1> SUFFICES ASSUME Init PROVE IInv  OBVIOUS
<1>1. TypeOK /\ Actor = Slot  BY InitType, Types
<1>2. /\ pc[Startup] = "boot" /\ \A p \in Row : pc[p] = "none"
      /\ \A p \in Slot : waitq[p] = <<>> /\ maker[p] = Gone
      /\ \A p \in Slot : pc[p] \in {"boot", "none"}
  BY <1>1, Rows DEF Init
<1>3. \A p \in Row : table[p].state = "FREE"
  <2>1. PICK other \in {0, None} :
          table = [p \in Slot |-> IF p \in Row THEN BlankRow
                                  ELSE [BlankRow EXCEPT !.first_zombie = other]]
    BY DEF Init
  <2> QED  BY <2>1, Rows DEF BlankRow
<1>4. \A p \in Row : ~ Alive(p)  BY <1>2 DEF Alive
<1>5. \A a \in Slot : ~ Filling(a) /\ ~ Counting(a) /\ ~ Joining(a)
  BY <1>2 DEF Filling, Counting, Joining
<1>6. \A r \in Row : ~ Owner(r)  BY <1>1, <1>4, <1>5 DEF Owner
<1>7. PlaceInv /\ LiveInv /\ RunInv /\ ZombieInv /\ FreeInv
  BY <1>2, <1>3, <1>4 DEF PlaceInv, LiveInv, RunInv, ZombieInv, FreeInv
<1>8. FillInv /\ CountInv /\ JoinInv  BY <1>1, <1>5 DEF FillInv, CountInv, JoinInv
<1>9. WaitInv  BY <1>1, <1>2 DEF WaitInv
<1>10. ListInv  BY <1>4, <1>6 DEF ListInv
<1>11. KinInv /\ ChildrenExact  BY <1>3, <1>4 DEF KinInv, ChildrenExact, Alive
<1> QED  BY <1>1, <1>7, <1>8, <1>9, <1>10, <1>11 DEF IInv

LEMMA StepInv ==
    ASSUME JoinsOwnOnly, IInv, [Next]_vars
    PROVE  IInv'
<1>1. CASE Next
  <2>1. PICK a \in Actor : Step(a)  BY <1>1 DEF Next
  <2>2. TypeOK'  BY <2>1, StepType DEF IInv
  <2> QED
    BY <2>1, <2>2, AllocKeeps, FillKeeps, RunKeeps, CheckKeeps, WaitKeeps, ReapKeeps,
       FinishKeeps DEF Step
<1>2. CASE UNCHANGED vars
  <2>1. /\ table' = table /\ pc' = pc /\ arg' = arg /\ waitq' = waitq /\ code' = code
        /\ maker' = maker /\ load' = load
    BY <1>2 DEF vars
  <2>2. TypeOK'  BY <2>1 DEF IInv, TypeOK
  <2>3. /\ FillInv' /\ CountInv' /\ LiveInv' /\ RunInv' /\ ZombieInv' /\ FreeInv'
        /\ ListInv' /\ (load'.joins => KinInv' /\ ChildrenExact')
    BY <2>1, <2>2, QuietKeeps
  <2>4. PlaceInv' /\ JoinInv' /\ WaitInv'
    BY <2>1 DEF IInv, PlaceInv, JoinInv, Joining, WaitInv
  <2> QED  BY <2>2, <2>3, <2>4 DEF IInv
<1> QED  BY <1>1, <1>2

LEMMA Invariance == ASSUME JoinsOwnOnly PROVE Spec => []IInv
BY InitInv, StepInv, PTL DEF Spec

\* Among programs that join their children the lists hold exactly the zombies
\* the process can join.
LEMMA ListExact ==
    ASSUME IInv, load.joins
    PROVE  ZombieListExact
<1>0. TypeOK /\ FillInv /\ ListInv /\ KinInv /\ Actor = Slot /\ table \in TableType
  BY Types DEF IInv
<1> SUFFICES ASSUME NEW p \in Row, pc[p] # "none"
             PROVE  /\ Zombies(table, p) = {q \in Spawned(p) : table[q].state = "ZOMBIE"}
                    /\ \A q \in Zombies(table, p) :
                          IF q = table[p].first_zombie THEN table[q].prev_zombie = None
                          ELSE /\ table[q].prev_zombie \in Zombies(table, p)
                               /\ table[table[q].prev_zombie].next_zombie = q
  BY DEF ZombieListExact
<1>1. p \in Slot /\ Owner(p) /\ Linked(table, p) /\ MemberInv(p)
  BY <1>0, Rows DEF Owner, Alive, ListInv
<1>2. Zombies(table, p) \subseteq Row  BY ZombiesFinite
<1>3. ASSUME NEW q \in Row, table[q].state = "ZOMBIE"
      PROVE  q \in Spawned(p) <=> maker[q] = p
  <2>1. pc[p] \in {"fill", "count"} => table[arg[p]].state = "RUNNING"
    BY <1>0, <1>1 DEF FillInv, Filling
  <2> QED  BY <1>3, <2>1 DEF Spawned
<1>4. ASSUME NEW q \in Zombies(table, p)
      PROVE  q \in Spawned(p) /\ table[q].state = "ZOMBIE"
  <2>1. /\ q \in Row /\ table[q].state = "ZOMBIE" /\ table[q].parent \in {p, None}
        /\ maker[q] # Startup
    BY <1>1, <1>2 DEF MemberInv
  <2>2. table[q].parent = maker[q] /\ None = Startup  BY <1>0, <2>1 DEF KinInv, None, Startup
  <2> QED  BY <1>3, <2>1, <2>2
<1>5. ASSUME NEW q \in Spawned(p), table[q].state = "ZOMBIE"
      PROVE  q \in Zombies(table, p)
  BY <1>0, <1>5 DEF ListInv, Alive, Spawned
<1>6. ASSUME NEW q \in Zombies(table, p)
      PROVE  IF q = table[p].first_zombie THEN table[q].prev_zombie = None
             ELSE /\ table[q].prev_zombie \in Zombies(table, p)
                  /\ table[table[q].prev_zombie].next_zombie = q
  <2>1. q >= 0  BY <1>2, Rows
  <2>2. CASE q = table[p].first_zombie  BY <1>1, <2>1, <2>2 DEF Linked
  <2>3. CASE q # table[p].first_zombie  BY <1>0, <1>1, <2>3, ZombiesBefore
  <2> QED  BY <2>2, <2>3
<1> QED  BY <1>4, <1>5, <1>6

LEMMA InvSound == IInv => TableSound
<1> SUFFICES ASSUME IInv PROVE TableSound  OBVIOUS
<1>0. /\ TypeOK /\ FillInv /\ JoinInv /\ WaitInv /\ LiveInv /\ RunInv /\ ZombieInv
      /\ Actor = Slot /\ table \in TableType /\ code \in [Slot -> Nat]
  BY Types DEF IInv
<1>1. RunningRowsAreLive
  <2>1. ASSUME NEW p \in Row, BeingFilled(p) PROVE table[p].state = "RUNNING"
    BY <1>0, <2>1 DEF BeingFilled, FillInv, Filling
  <2> QED  BY <1>0, <2>1 DEF RunningRowsAreLive, RunInv, LiveInv, Alive
<1>2. SleepersAwaitLiveChild
  BY <1>0 DEF SleepersAwaitLiveChild, WaitInv, JoinInv, Joining
<1>3. JoinedHasNoParent
  <2>1. \A p \in Row : code[p] \in Nat /\ table[p].retval \in Int  BY <1>0, Rows, TableFields
  <2> QED  BY <1>0, <2>1 DEF JoinedHasNoParent, ZombieInv
<1>4. load.joins => FamilyExact  BY ListExact DEF IInv, FamilyExact
<1> QED  BY <1>1, <1>2, <1>3, <1>4 DEF TableSound

\* When programs join only processes they spawned, the process table stays
\* sound for every size of the table, every workload and every interleaving of
\* process_spawn, process_join and process_finish: RUNNING rows are those of
\* live processes, a joiner sleeps on a child that still runs and will wake it,
\* and, among programs that join their children, child counts and zombie lists
\* are exact.
THEOREM TableCorrect == ASSUME JoinsOwnOnly PROVE Spec => []TableSound
BY Invariance, InvSound, PTL

-----------------------------------------------------------------------------
(* Steps *)

\* Only process_join of its spawner, and the exit of the process whose
\* zombie it is, take a process that can still be joined out of the table.
LEMMA FreedBy ==
    ASSUME IInv, NEW a \in Actor, Step(a),
           NEW p \in Row, NEW q \in Joinable(p), pc[p] # "none", table'[q].state = "FREE"
    PROVE  (pc[p] = "join" /\ arg[p] = q) \/ pc'[p] = "none"
<1>0. /\ TypeOK /\ PlaceInv /\ FillInv /\ LiveInv /\ ListInv /\ table \in TableType
      /\ Actor = Slot
  BY Types DEF IInv
<1>1. q \in Row /\ q \in Slot /\ p \in Slot /\ maker[q] = p /\ table[q].state # "FREE"
  BY Rows DEF Spawned, Joinable
<1>2. Alive(p) /\ Owner(p) /\ table[p].state = "RUNNING"  BY <1>0 DEF Alive, Owner, LiveInv
<1>3. CASE SpawnAlloc(a)
  <2>1. PICK r \in Row : AllocDoes(a, r)  BY <1>0, <1>3, AllocEffect
  <2> QED  BY <1>1, <2>1 DEF AllocDoes
<1>4. CASE SpawnFill(a)
  <2>1. FillDoes(a, arg[a])  BY <1>0, <1>4, FillEffect
  <2> QED  BY <1>1, <2>1 DEF FillDoes
<1>5. CASE SpawnRun(a)
  <2>1. RunDoes(a, arg[a])  BY <1>0, <1>5, RunEffect
  <2> QED  BY <1>1, <2>1 DEF RunDoes
<1>6. CASE (\E r \in Row : JoinCheck(a, r)) \/ JoinWait(a)
  <2>1. table' = table  BY <1>6 DEF JoinCheck, JoinWait
  <2> QED  BY <1>1, <2>1
<1>7. CASE JoinReap(a)
  <2>1. ReapDoes(a, arg[a])  BY <1>7, ReapEffect
  <2>2. q = arg[a]  BY <1>1, <2>1 DEF ReapDoes
  <2>3. maker[arg[a]] = a /\ pc[a] = "join"  BY <2>1 DEF ReapDoes
  <2> QED  BY <1>1, <2>2, <2>3
<1>8. CASE \E c \in load.codes : Finish(a, c)
  <2>1. PICK c \in load.codes : Finish(a, c)  BY <1>8
  <2>2. FinishMoves(a, ExitValue(c)) /\ ExitValue(c) \in Nat  BY <2>1, FinishMovesEffect
  <2>3. a \in Row /\ pc[a] = "user" /\ pc'[a] = "none"  BY <2>2 DEF FinishMoves
  <2>4. FinishTable(a, table[a].parent, Zombies(table, a), ExitValue(c))
    BY <2>1, <2>2, <2>3, FinishTableEffect DEF Finish
  <2>5. CASE q = a
    <3>1. table[a].parent = p
      <4>1. maker[a] \in {Gone, table[a].parent}  BY <1>0, <2>3 DEF LiveInv, Alive
      <4> QED  BY <1>1, <2>5, <4>1, Rows
    <3> QED  BY <1>2, <2>4, <2>5, <3>1 DEF FinishTable
  <2>6. CASE q # a
    <3>1. q \in Zombies(table, a)  BY <1>1, <2>4, <2>6 DEF FinishTable
    <3>2. Owner(a)  BY <2>3 DEF Owner, Alive
    <3>3. table[q].state = "ZOMBIE"  BY <1>0, <2>3, <3>1, <3>2 DEF ListInv, MemberInv
    <3>4. q \in Zombies(table, p)  BY <1>0, <1>1, <1>2, <3>3 DEF ListInv
    <3>5. a = p  BY <1>0, <1>2, <2>3, <3>1, <3>2, <3>4 DEF ListInv
    <3> QED  BY <2>3, <3>5
  <2> QED  BY <2>5, <2>6
<1> QED  BY <1>3, <1>4, <1>5, <1>6, <1>7, <1>8 DEF Step

\* A join ends only in the step that reads the exit value of the child.
LEMMA JoinEnds ==
    ASSUME IInv, NEW b \in Actor, Step(b),
           NEW a \in Actor, pc[a] = "join", pc'[a] \in {"user", "halt"}
    PROVE  JoinReap(a)
<1>0. /\ TypeOK /\ PlaceInv /\ FillInv /\ LiveInv /\ Actor = Slot /\ pc \in [Slot -> PC]
  BY Types DEF IInv
<1>1. CASE SpawnAlloc(b)
  <2>1. PICK r \in Row : AllocDoes(b, r)  BY <1>0, <1>1, AllocEffect
  <2> QED  BY <1>0, <2>1 DEF AllocDoes
<1>2. CASE SpawnFill(b)
  <2>1. FillDoes(b, arg[b])  BY <1>0, <1>2, FillEffect
  <2> QED  BY <1>0, <2>1 DEF FillDoes
<1>3. CASE SpawnRun(b)
  <2>1. RunDoes(b, arg[b])  BY <1>0, <1>3, RunEffect
  <2> QED  BY <1>0, <2>1 DEF RunDoes, Counting
<1>4. CASE \E r \in Row : JoinCheck(b, r)  BY <1>0, <1>4 DEF JoinCheck
<1>5. CASE JoinWait(b)  BY <1>0, <1>5 DEF JoinWait
<1>6. CASE JoinReap(b)
  <2>1. ReapDoes(b, arg[b])  BY <1>6, ReapEffect
  <2>2. a = b  BY <1>0, <2>1 DEF ReapDoes
  <2> QED  BY <1>6, <2>2
<1>7. CASE \E c \in load.codes : Finish(b, c)
  <2>1. PICK c \in load.codes : Finish(b, c)  BY <1>7
  <2>2. FinishMoves(b, ExitValue(c))  BY <2>1, FinishMovesEffect
  <2> QED  BY <1>0, <2>2 DEF FinishMoves
<1> QED  BY <1>1, <1>2, <1>3, <1>4, <1>5, <1>6, <1>7 DEF Step

\* When programs join only processes they spawned, process_join returns what
\* the child passed to exit, and only for a child of the caller, although the
\* parent field is checked before process_table_slock is taken.
THEOREM JoinCorrect == ASSUME JoinsOwnOnly PROVE Spec => JoinReturnsExitCode
<1>1. ASSUME IInv, [Next]_vars
      PROVE  [\A a \in Actor :
                pc[a] = "join" /\ pc'[a] \in {"user", "halt"} =>
                    /\ maker[arg[a]] = a
                    /\ table[arg[a]].retval = code[arg[a]]]_vars
  <2> SUFFICES ASSUME Next, NEW a \in Actor, pc[a] = "join", pc'[a] \in {"user", "halt"}
               PROVE  maker[arg[a]] = a /\ table[arg[a]].retval = code[arg[a]]
    BY <1>1
  <2>1. PICK b \in Actor : Step(b)  BY DEF Next
  <2>2. JoinReap(a)  BY <1>1, <2>1, JoinEnds
  <2>3. table[arg[a]].state = "ZOMBIE"  BY <2>2 DEF JoinReap, MustWait
  <2> QED  BY <1>1, <2>3 DEF IInv, JoinInv, Joining
<1> QED  BY <1>1, Invariance, PTL DEF Spec, JoinReturnsExitCode

\* When programs join only processes they spawned, a child that a live
\* process can still join keeps its row: no exit of another process and no
\* join by another process frees it.
THEOREM KeptCorrect == ASSUME JoinsOwnOnly PROVE Spec => UnjoinedKept
<1>1. ASSUME IInv, [Next]_vars
      PROVE  [\A p \in Row : \A q \in Joinable(p) :
                pc[p] # "none" /\ table'[q].state = "FREE" =>
                    (pc[p] = "join" /\ arg[p] = q) \/ pc'[p] = "none"]_vars
  <2> SUFFICES ASSUME Next, NEW p \in Row, NEW q \in Joinable(p), pc[p] # "none",
                      table'[q].state = "FREE"
               PROVE  (pc[p] = "join" /\ arg[p] = q) \/ pc'[p] = "none"
    BY <1>1
  <2>1. PICK a \in Actor : Step(a)  BY DEF Next
  <2> QED  BY <1>1, <2>1, FreedBy
<1> QED  BY <1>1, Invariance, PTL DEF Spec, UnjoinedKept

=============================================================================
