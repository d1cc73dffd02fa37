------------------------------- MODULE Memory -------------------------------
(* Physical pages, page tables and the TLB, and process_start, which uses    *)
(* them to load a program: kernel/kmalloc.c, vm/pagepool.c, vm/vm.c,         *)
(* vm/tlb.c, proc/elf.c, the memory part of proc/process.c, and the two      *)
(* exception handlers, for which every TLB exception is a panic.             *)
(*                                                                           *)
(* A virtual address is its page number; two neighbouring pages share a page *)
(* table entry (VPN2).  Page 0 belongs to the kernel, so 0 as a page number  *)
(* in an entry stands for a cleared valid bit.                               *)
EXTENDS Integers, Sequences, FiniteSets, FiniteSetsExt

CONSTANTS
    Cpu, Thread, Idle,  \* processors, thread IDs, the idle thread's ID
    NumPages,           \* pages of the machine, from the MemInfo device
    PageSize,           \* bytes
    KernelEnd,          \* address of KERNEL_ENDS_HERE, from the start of memory
    KmallocSizes,       \* what the drivers ask for during startup
    MaxStatic,          \* bound: what the drivers ask for stays below it
    TlbSize,            \* rows of the TLB, _tlb_get_maxindex() + 1
    TableSize,          \* PAGETABLE_ENTRIES
    StackTop, StackSize,\* top page of the stack, CONFIG_USERLAND_STACK_SIZE
    Files,              \* what vfs_open may find under a program's name
    NoFile

ASSUME MemoryAssumption ==
    /\ NumPages \in Nat \ {0} /\ TlbSize \in Nat /\ TableSize \in Nat
    /\ PageSize \in Nat \ {0} /\ PageSize % 4 = 0
    /\ KernelEnd \in 1 .. NumPages * PageSize      \* the kernel is in memory
    /\ KmallocSizes \subseteq Nat /\ MaxStatic \in Nat
    /\ StackTop \in Nat /\ StackSize \in 0 .. StackTop + 1
    /\ Idle \notin Thread

\* A program header as elf_parse_header reads it.
Header == [type : STRING, write : BOOLEAN, vpage : Nat, filesz : Nat, memsz : Nat]

ASSUME FilesAssumption ==
    \A f \in Files : /\ f.executable \in BOOLEAN /\ f.entry \in Nat
                      /\ f.headers \in Seq(Header)

VARIABLES
    free_area_start,    \* first byte kmalloc has not given away
    reserved,           \* the set bits of pagepool_free_pages
    num_free,           \* pagepool_num_free_pages
    static_end,         \* pagepool_static_end
    status,             \* "free", "live" or "dying", per thread ID
    table,              \* the thread's pagetable, or NoTable
    todo,               \* steps of process_start the thread has before it
    current,            \* scheduler_current_thread
    tlb, asid,          \* the TLB and the ASID register of each processor
    panic,              \* the kernel has stopped
    left                \* history: the pages of finished programs, per thread ID

pool == <<reserved, num_free, static_end>>
cpus == <<current, tlb, asid>>
vars == <<free_area_start, pool, status, table, todo, cpus, left, panic>>

Each(S, x) == [e \in S |-> x]

NoTable == [page |-> 0, asid |-> Idle, entries |-> <<>>]
\* What the TLB holds at power-up: nothing that any thread's ASID matches.
NoEntry == [vpn2 |-> 0, asid |-> Idle, pfn |-> Each(1..2, 0), dirty |-> Each(1..2, FALSE)]
EmptyTlb == [i \in 1..TlbSize |-> NoEntry]

Init ==
    /\ free_area_start = 0 /\ reserved = {} /\ num_free = 0 /\ static_end = 0
    /\ status = Each(Thread, "free") /\ table = Each(Thread, NoTable)
    /\ todo = Each(Thread, <<>>)
    /\ current = Each(Cpu, Idle) /\ tlb = Each(Cpu, EmptyTlb) /\ asid = Each(Cpu, Idle)
    /\ panic = FALSE /\ left = Each(Thread, {})

\* A panic switches the machine off, and nothing is left of its state.
Panic ==
    /\ free_area_start' = 0 /\ reserved' = {} /\ num_free' = 0 /\ static_end' = 0
    /\ status' = Each(Thread, "free") /\ table' = Each(Thread, NoTable)
    /\ todo' = Each(Thread, <<>>)
    /\ current' = Each(Cpu, Idle) /\ tlb' = Each(Cpu, EmptyTlb) /\ asid' = Each(Cpu, Idle)
    /\ panic' = TRUE /\ left' = Each(Thread, {})

---------------------------------------------------------------------------
(* Startup: memory that is given away for good.                              *)

\* Memory is given out by the page pool: kmalloc_disable has run.
Disabled == -1
VmRuns == free_area_start = Disabled

\* Up to the next word boundary.
WordAligned(a) == ((a + 3) \div 4) * 4

\* kmalloc_init
KmallocInit ==
    /\ free_area_start = 0
    /\ free_area_start' = WordAligned(KernelEnd)
    /\ UNCHANGED <<pool, status, table, todo, cpus, left, panic>>

FitsInMemory(bytes) == free_area_start + bytes <= NumPages * PageSize

\* The drivers found on the machine allocate before vm_init.
Kmalloc(bytes) ==
    /\ free_area_start \in 1..MaxStatic
    /\ IF FitsInMemory(bytes)
       THEN /\ free_area_start' = WordAligned(free_area_start + bytes)
            /\ UNCHANGED <<pool, status, table, todo, cpus, left, panic>>
       ELSE Panic

\* kmalloc_get_reserved_pages
ReservedPages(end) == (end \div PageSize) + (IF end % PageSize # 0 THEN 1 ELSE 0)

BitmapSizeof(bits) == ((bits + 31) \div 32) * 4

\* vm_init: the pool begins behind its own bitmap, and kmalloc ends.
VmInit ==
    /\ free_area_start > 0
    /\ IF FitsInMemory(BitmapSizeof(NumPages))
       THEN LET end == WordAligned(free_area_start + BitmapSizeof(NumPages))
                kernel == ReservedPages(end)
            IN  /\ free_area_start' = Disabled
                /\ num_free' = NumPages - kernel
                /\ static_end' = kernel
                /\ reserved' = 0 .. kernel - 1
                /\ UNCHANGED <<status, table, todo, cpus, left, panic>>
       ELSE Panic

---------------------------------------------------------------------------
(* The pool of physical pages.                                               *)

\* The page bitmap_findnset finds: the first whose bit is clear.
FirstFree == Min((0 .. NumPages - 1) \ reserved)

\* pagepool_get_phys_page, for a caller with something left to find.
GetPage ==
    /\ num_free > 0
    /\ reserved' = reserved \union {FirstFree}
    /\ num_free' = num_free - 1
    /\ UNCHANGED static_end

\* Fault: the bit is cleared, the count forgotten.
FreePage_Fault(p) ==
    /\ p >= static_end /\ p \in reserved
    /\ reserved' = reserved \ {p}
    /\ UNCHANGED <<num_free, static_end>>

\* pagepool_free_phys_page, its two assertions as guards.
FreePage(p) ==
    /\ p >= static_end /\ p \in reserved
    /\ reserved' = reserved \ {p}
    /\ num_free' = num_free + 1
    /\ UNCHANGED static_end

---------------------------------------------------------------------------
(* Page tables and the TLB.                                                  *)

Half(v) == (v % 2) + 1
EntriesFor(tb, v) == {i \in DOMAIN tb.entries : tb.entries[i].vpn2 = v \div 2}
IsMapped(tb, v) == \E i \in EntriesFor(tb, v) : tb.entries[i].pfn[Half(v)] # 0
PageOf(tb, v) == tb.entries[Min(EntriesFor(tb, v))].pfn[Half(v)]

\* vm_map panics for a page mapped twice and for a full table.
CanMap(tb, v) ==
    IF EntriesFor(tb, v) # {} THEN ~IsMapped(tb, v) ELSE Len(tb.entries) < TableSize

\* vm_map: into the entry of the neighbouring page, or into a new one.
VmMap(tb, p, v, d) ==
    [tb EXCEPT !.entries =
        IF EntriesFor(tb, v) # {}
        THEN LET i == Min(EntriesFor(tb, v))
             IN  [@ EXCEPT ![i].pfn[Half(v)] = p, ![i].dirty[Half(v)] = d]
        ELSE Append(@, [vpn2 |-> v \div 2, asid |-> tb.asid,
                        pfn |-> [Each(1..2, 0) EXCEPT ![Half(v)] = p],
                        dirty |-> [Each(1..2, FALSE) EXCEPT ![Half(v)] = d]])]

\* vm_set_dirty, for a page that is mapped.
VmSetDirty(tb, v, d) ==
    [tb EXCEPT !.entries[Min(EntriesFor(tb, v))].dirty[Half(v)] = d]

\* The physical pages a page table maps.
PagesOf(tb) ==
    {p \in 1 .. NumPages - 1 : \E i \in DOMAIN tb.entries, h \in 1..2 : tb.entries[i].pfn[h] = p}

\* tlb_fill: the entries overwrite the first rows, the other rows stay.
TlbFill(c, tb) ==
    /\ tlb' = IF tb = NoTable THEN tlb
              ELSE [tlb EXCEPT ![c] = [i \in 1..TlbSize |->
                        IF i <= Len(tb.entries) THEN tb.entries[i] ELSE @[i]]]
    /\ asid' = IF tb = NoTable THEN asid ELSE [asid EXCEPT ![c] = tb.asid]

\* The rows of a processor's TLB that translate page v for the ASID it has.
Matching(c, v) == {i \in 1..TlbSize : tlb[c][i].vpn2 = v \div 2 /\ tlb[c][i].asid = asid[c]}

\* An access can raise a TLB exception: no row, an invalid one, or a clean one.
CanFault(c, v, write) ==
    \/ Matching(c, v) = {}
    \/ \E i \in Matching(c, v) :
          \/ tlb[c][i].pfn[Half(v)] = 0
          \/ write /\ ~tlb[c][i].dirty[Half(v)]

\* An access can succeed; with two matching rows the hardware takes either.
CanAccess(c, v, write) ==
    \E i \in Matching(c, v) : /\ tlb[c][i].pfn[Half(v)] # 0
                              /\ write => tlb[c][i].dirty[Half(v)]

---------------------------------------------------------------------------
(* The program file.                                                         *)

\* The program headers that describe the writable or the read-only segment.
Loads(f, w) ==
    {i \in DOMAIN f.headers : f.headers[i].type = "load" /\ f.headers[i].write = w}

\* elf_parse_header returns 0: not a MIPS executable, a program header of an
\* unknown type or cut short, two segments of one kind, or none at all.
ElfRejects(f) ==
    \/ ~f.executable
    \/ \E i \in DOMAIN f.headers : f.headers[i].type \notin {"load", "ignored"}
    \/ \E w \in BOOLEAN : \E i, j \in Loads(f, w) : i # j
    \/ \A w \in BOOLEAN : Loads(f, w) = {}

PagesFor(bytes) == (bytes + PageSize - 1) \div PageSize

\* One half of elf_info_t; a missing segment is all zeros.
Segment(f, w) ==
    IF Loads(f, w) = {} THEN [vpage |-> 0, pages |-> 0, filled |-> 0]
    ELSE LET h == f.headers[CHOOSE i \in Loads(f, w) : TRUE]
         IN  [vpage |-> h.vpage, pages |-> PagesFor(h.memsz), filled |-> PagesFor(h.filesz)]

---------------------------------------------------------------------------
(* process_start, as the steps it takes; between two of them the thread may  *)
(* be switched out.                                                          *)

Up(op, first, n) == [i \in 1..n |-> [op |-> op, v |-> first + i - 1]]
Down(op, first, n) == [i \in 1..n |-> [op |-> op, v |-> first - i + 1]]
Do(op) == [op |-> op, v |-> 0]
One(op) == <<Do(op)>>

Start == <<Do("create"), Do("open")>>

\* Fault: the second tlb_fill is missing, the read-only bits stay unused.
LoadSteps_Fault(ro, rw) ==
    Down("map", StackTop, StackSize) \o One("fill")
    \o Up("map", ro.vpage, ro.pages) \o Up("map", rw.vpage, rw.pages)
    \o Up("zero", ro.vpage, ro.pages) \o Up("zero", rw.vpage, rw.pages)
    \o Up("zero", StackTop - StackSize + 1, StackSize)
    \o Up("copy", ro.vpage, ro.filled) \o Up("copy", rw.vpage, rw.filled)
    \o Up("protect", ro.vpage, ro.pages)

\* What is left to do once the file is parsed, in the order of the code.
LoadSteps(ro, rw) ==
    Down("map", StackTop, StackSize) \o One("fill")
    \o Up("map", ro.vpage, ro.pages) \o Up("map", rw.vpage, rw.pages)
    \o Up("zero", ro.vpage, ro.pages) \o Up("zero", rw.vpage, rw.pages)
    \o Up("zero", StackTop - StackSize + 1, StackSize)
    \o Up("copy", ro.vpage, ro.filled) \o Up("copy", rw.vpage, rw.filled)
    \o Up("protect", ro.vpage, ro.pages) \o One("fill")

\* The thread on processor c is about to take a step of process_start.
AtStep(c, t, ops) ==
    /\ current[c] = t /\ status[t] = "live" /\ todo[t] # <<>>
    /\ Head(todo[t]).op \in ops

Done(t) == todo' = [todo EXCEPT ![t] = Tail(@)]

\* vm_create_pagetable, asserted to succeed, and the new ASID.
CreatePagetable(c, t) ==
    /\ AtStep(c, t, {"create"})
    /\ \/ /\ num_free = 0
          /\ Panic
       \/ /\ GetPage
          /\ table' = [table EXCEPT ![t] = [page |-> FirstFree, asid |-> t, entries |-> <<>>]]
          /\ asid' = [asid EXCEPT ![c] = t]
          /\ Done(t)
          /\ UNCHANGED <<free_area_start, status, current, tlb, left, panic>>

\* Fault: the stack is forgotten, and a pair of pages counted as one.
FitsTlb_Fault(ro, rw) == (ro.pages + rw.pages) \div 2 <= TlbSize

\* The pages of a program must fit into the TLB, one row each if need be.
FitsTlb(ro, rw) == ro.pages + rw.pages + StackSize <= TlbSize

\* vfs_open and elf_parse_header; every failure is a failed assertion.
OpenProgram(c, t, f) ==
    /\ AtStep(c, t, {"open"})
    /\ IF f = NoFile THEN Panic
       ELSE IF ElfRejects(f) \/ f.entry = 0 THEN Panic
       ELSE LET ro == Segment(f, FALSE)
                rw == Segment(f, TRUE)
            IN  IF ~FitsTlb(ro, rw) THEN Panic
                ELSE /\ todo' = [todo EXCEPT ![t] = LoadSteps(ro, rw)]
                     /\ UNCHANGED <<free_area_start, pool, status, table, cpus, left, panic>>

\* A page for the stack or a segment, mapped writable.
MapPage(c, t) ==
    /\ AtStep(c, t, {"map"})
    /\ LET v == Head(todo[t]).v
       IN  \/ /\ num_free = 0 \/ ~CanMap(table[t], v)
              /\ Panic
           \/ /\ CanMap(table[t], v)
              /\ GetPage
              /\ table' = [table EXCEPT ![t] = VmMap(@, FirstFree, v, TRUE)]
              /\ Done(t)
              /\ UNCHANGED <<free_area_start, status, cpus, left, panic>>

FillTlb(c, t) ==
    /\ AtStep(c, t, {"fill"})
    /\ TlbFill(c, table[t])
    /\ Done(t)
    /\ UNCHANGED <<free_area_start, pool, status, table, current, left, panic>>

\* memoryset and vfs_read store through the TLB; kernel_exception_handle
\* panics.  So does a read that fails, and a segment that lies on page 0.
StorePage(c, t) ==
    /\ AtStep(c, t, {"zero", "copy"})
    /\ LET s == Head(todo[t])
       IN  \/ /\ CanFault(c, s.v, TRUE) \/ s.op = "copy"
              /\ Panic
           \/ /\ CanAccess(c, s.v, TRUE) /\ ~(s.op = "copy" /\ s.v = 0)
              /\ Done(t)
              /\ UNCHANGED <<free_area_start, pool, status, table, cpus, left, panic>>

\* Takes the write permission from a page of the read-only segment.
ProtectPage(c, t) ==
    /\ AtStep(c, t, {"protect"})
    /\ table' = [table EXCEPT ![t] = VmSetDirty(@, Head(todo[t]).v, FALSE)]
    /\ Done(t)
    /\ UNCHANGED <<free_area_start, pool, status, cpus, left, panic>>

---------------------------------------------------------------------------
(* Threads and programs.                                                     *)

\* process_spawn: thread_create takes a free row of the thread table.
Spawn(t) ==
    /\ VmRuns /\ status[t] = "free"
    /\ status' = [status EXCEPT ![t] = "live"]
    /\ todo' = [todo EXCEPT ![t] = Start]
    /\ UNCHANGED <<free_area_start, pool, table, cpus, left, panic>>

\* The thread runs its program.
InUserland(c, t) == current[c] = t /\ status[t] = "live" /\ todo[t] = <<>>

Runnable(c, t) == status[t] = "live" /\ \A d \in Cpu \ {c} : current[d] # t

\* interrupt_handle: scheduler_schedule picks a thread and leaves the old one,
\* whose row is free if it was dying; then the TLB is filled.
Switch(c, t) ==
    /\ VmRuns
    /\ t = Idle \/ (t \in Thread /\ Runnable(c, t))
    /\ current' = [current EXCEPT ![c] = t]
    /\ status' = [u \in Thread |->
            IF u = current[c] /\ status[u] = "dying" THEN "free" ELSE status[u]]
    /\ TlbFill(c, IF t = Idle THEN NoTable ELSE table[t])
    /\ UNCHANGED <<free_area_start, pool, table, todo, left, panic>>

\* user_exception_handle: an access that the TLB refuses is a panic.
UserException(c, t, v, write) ==
    /\ InUserland(c, t)
    /\ CanFault(c, v, write)
    /\ Panic

\* Fault: the pages of the program go back to the pool with the table.
DestroyPagetable_Fault(tb) ==
    LET pages == {tb.page} \union PagesOf(tb)
    IN  /\ reserved' = reserved \ pages
        /\ num_free' = num_free + Cardinality(pages)
        /\ UNCHANGED static_end

\* vm_destroy_pagetable: only the page of the table itself.
DestroyPagetable(tb) == FreePage(tb.page)

\* process_finish and thread_finish: SYSCALL_EXIT.
Finish(c, t) ==
    /\ InUserland(c, t)
    /\ DestroyPagetable(table[t])
    /\ table' = [table EXCEPT ![t] = NoTable]
    /\ status' = [status EXCEPT ![t] = "dying"]
    /\ left' = [left EXCEPT ![t] = @ \union PagesOf(table[t])]
    /\ UNCHANGED <<free_area_start, todo, cpus, panic>>

VPages == 0 .. StackTop + 1

Next ==
    \/ /\ ~panic
       /\ \/ KmallocInit
          \/ VmInit
          \/ \E b \in KmallocSizes : Kmalloc(b)
          \/ \E t \in Thread : Spawn(t)
          \/ \E c \in Cpu, t \in Thread \union {Idle} : Switch(c, t)
          \/ \E c \in Cpu, t \in Thread :
                \/ CreatePagetable(c, t)
                \/ \E f \in Files \union {NoFile} : OpenProgram(c, t, f)
                \/ MapPage(c, t)
                \/ FillTlb(c, t)
                \/ StorePage(c, t)
                \/ ProtectPage(c, t)
                \/ \E v \in VPages, w \in BOOLEAN : UserException(c, t, v, w)
                \/ Finish(c, t)
    \/ panic /\ UNCHANGED vars

Spec == Init /\ [][Next]_vars

---------------------------------------------------------------------------
Page == 0 .. NumPages - 1
Owner == Thread \union {Idle}
Entry == [vpn2 : Nat, asid : Owner, pfn : [1..2 -> Page], dirty : [1..2 -> BOOLEAN]]
Pagetable == [page : Page, asid : Owner, entries : Seq(Entry)]
Step == [op : {"create", "open", "map", "fill", "zero", "copy", "protect"}, v : Nat]

\* The types of the state; the count of free pages stays within the memory,
\* a page table fits into the TLB (the assertion in tlb_fill).
TypeOK ==
    /\ free_area_start \in Disabled .. NumPages * PageSize /\ panic \in BOOLEAN
    /\ reserved \subseteq Page
    /\ num_free \in 0..NumPages /\ static_end \in 0..NumPages
    /\ status \in [Thread -> {"free", "live", "dying"}]
    /\ table \in [Thread -> Pagetable]
    /\ \A t \in Thread : Len(table[t].entries) <= TlbSize
    /\ todo \in [Thread -> Seq(Step)]
    /\ current \in [Cpu -> Owner]
    /\ tlb \in [Cpu -> [1..TlbSize -> Entry]]
    /\ asid \in [Cpu -> Owner]
    /\ left \in [Thread -> SUBSET Page]

\* The physical page that thread t uses for its page table (i = 0), or in half
\* h of entry i of it; 0 if there is none.
PageAt(t, i, h) ==
    IF i = 0 THEN table[t].page
    ELSE IF i \in DOMAIN table[t].entries THEN table[t].entries[i].pfn[h] ELSE 0

\* The pool's count is the number of clear bits, the kernel's own memory is
\* never in the pool, and a page given out is used for one thing only, however
\* the loading, running and exiting of programs interleaves (pagepool.c).
PoolSound ==
    VmRuns =>
          /\ num_free = Cardinality(Page \ reserved)
          /\ 0 .. static_end - 1 \subseteq reserved
          /\ \A t \in Thread, i \in 0..TlbSize, h \in 1..2 : PageAt(t, i, h) # 0 =>
                /\ PageAt(t, i, h) \in reserved /\ PageAt(t, i, h) >= static_end
                /\ \A u \in Thread, j \in 0..TlbSize, k \in 1..2 :
                      PageAt(u, j, k) = PageAt(t, i, h) => u = t /\ j = i /\ (i = 0 \/ k = h)

\* A program runs with its own ASID and with every entry of its page table in
\* the TLB as the table has it now, read-only bits included, on whatever
\* processor it was resumed.  (Rows behind these may match as well, see Isolated.)
RunsInItsSpace ==
    \A c \in Cpu, t \in Thread : InUserland(c, t) =>
        /\ asid[c] = t
        /\ \A i \in DOMAIN table[t].entries : tlb[c][i] = table[t].entries[i]

\* Whatever row of the TLB matches while a thread with a page table runs, it
\* reaches a page of that program or one left by a finished program that had
\* the same thread ID: no page of another live program, of a page table, of the
\* kernel or of the free pool, and none of a finished program with another ID.
Isolated ==
    \A c \in Cpu, t \in Thread : current[c] = t /\ table[t] # NoTable =>
        \A i \in 1..TlbSize : tlb[c][i].asid = asid[c] =>
            \A h \in 1..2 : tlb[c][i].pfn[h] # 0 =>
                /\ tlb[c][i].pfn[h] \in PagesOf(table[t]) \union left[t]
                /\ tlb[c][i].pfn[h] \in reserved /\ tlb[c][i].pfn[h] >= static_end
                /\ \A u \in Thread, j \in 0..TlbSize, k \in 1..2 :
                      PageAt(u, j, k) = tlb[c][i].pfn[h] => u = t /\ j # 0
=============================================================================
