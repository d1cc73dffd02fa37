---------------------------- MODULE MemoryProofs ----------------------------
(* Proofs about Memory, for any number of pages, processors, threads and TLB *)
(* rows and any program files: the types and the assertion of tlb_fill, the  *)
(* page pool, that a program runs with its own page table in the TLB, and    *)
(* that a row of a TLB reaches only pages of the program with its ASID or of *)
(* a finished program that had the same thread ID.                           *)
EXTENDS Memory, TLAPS, FiniteSetTheorems, SequenceTheorems, WellFoundedInduction

\* The mappings process_start has still to make.
MapSteps(s) == {i \in DOMAIN s : s[i].op = "map"}

LoadOps == {"map", "fill", "zero", "copy", "protect"}

\* A thread before the page table exists, before the file is opened, and while
\* it is loaded: what it has mapped and has to map fits into the TLB, and the
\* last thing it does is to fill the TLB.
Loading(t) ==
    /\ table[t] # NoTable
    /\ \A i \in DOMAIN todo[t] : todo[t][i].op \in LoadOps
    /\ Len(table[t].entries) + Cardinality(MapSteps(todo[t])) <= TlbSize
    /\ todo[t] # <<>> => todo[t][Len(todo[t])].op = "fill"

StepsInv ==
    \A t \in Thread : status[t] = "live" =>
        \/ todo[t] = Start
        \/ todo[t] = One("open") /\ table[t] # NoTable /\ table[t].entries = <<>>
        \/ Loading(t)

\* Threads exist once the pool does; a thread that runs has a row, and runs on
\* one processor; a thread with a page table is alive and the table is its own.
ThreadInv ==
    /\ VmRuns \/ \A t \in Thread : status[t] = "free"
    /\ \A c \in Cpu : current[c] \in Thread => status[current[c]] # "free"
    /\ \A c, d \in Cpu : current[c] \in Thread /\ current[c] = current[d] => c = d
    /\ \A t \in Thread : table[t] # NoTable =>
          /\ status[t] = "live" /\ table[t].asid = t
          /\ \A i \in DOMAIN table[t].entries : table[t].entries[i].asid = t

\* A thread with a page table runs with its ASID.
AsidInv ==
    \A c \in Cpu : current[c] \in Thread /\ table[current[c]] # NoTable => asid[c] = current[c]

\* Before there is a pool no page is given out; then page 0 is the kernel's.
KernelInv == IF VmRuns THEN static_end > 0 ELSE reserved = {}

\* A page that a row of a TLB reaches stays reserved for good, is none of the
\* kernel's, and only the thread with the row's ASID has it mapped.
RowInv ==
    \A c \in Cpu, i \in 1..TlbSize, h \in 1..2 : tlb[c][i].pfn[h] # 0 =>
        /\ tlb[c][i].pfn[h] \in reserved /\ tlb[c][i].pfn[h] >= static_end
        /\ \A u \in Thread, j \in 0..TlbSize, k \in 1..2 :
              PageAt(u, j, k) = tlb[c][i].pfn[h] => u = tlb[c][i].asid /\ j # 0

IInv == /\ TypeOK /\ ThreadInv /\ StepsInv /\ AsidInv /\ KernelInv
        /\ PoolSound /\ RunsInItsSpace /\ RowInv

---------------------------------------------------------------------------
(* Numbers.                                                                  *)

LEMMA NotLess == \A x, y \in Nat : ~ (y < x) => x <= y
  OBVIOUS

\* A set of natural numbers that is not empty has a least element.
LEMMA Least == ASSUME NEW T, T \subseteq Nat, T # {} PROVE \E x \in T : \A y \in T : x <= y
<1>1. PICK R : R = OpToRel(<, Nat)
  OBVIOUS
<1>2. IsWellFoundedOn(R, Nat)
  BY <1>1, NatLessThanWellFounded
<1>3. PICK x \in T : \A y \in T : ~ (<<y, x>> \in R)
  BY <1>2, WFMin
<1>4. \A y \in T : y < x => <<y, x>> \in R
  BY <1>1 DEF OpToRel
<1>5. x \in Nat /\ \A y \in T : y \in Nat
  OBVIOUS
<1>6. \A y \in T : ~ (y < x)
  BY <1>3, <1>4
<1> QED BY <1>5, <1>6, NotLess

LEMMA MinIn == ASSUME NEW T, T \subseteq Nat, T # {} PROVE Min(T) \in T
  BY Least DEF Min

\* The memory ends on a word boundary.
LEMMA MemorySize == NumPages * PageSize \in Nat /\ (NumPages * PageSize) % 4 = 0
<1>1. PICK k \in Nat : PageSize = 4 * k
  <2>1. PageSize = 4 * (PageSize \div 4) /\ PageSize \div 4 \in Nat
    BY MemoryAssumption
  <2> QED BY <2>1
<1>2. NumPages * PageSize = 4 * (NumPages * k) /\ NumPages * k \in Nat
  BY <1>1, MemoryAssumption
<1>3. \A n \in Nat : 4 * n \in Nat /\ (4 * n) % 4 = 0
  OBVIOUS
<1> QED BY <1>2, <1>3

\* Rounding up to a word stays inside a memory that ends on a word boundary.
LEMMA WordAlignedFacts ==
    ASSUME NEW a \in Nat, a <= NumPages * PageSize
    PROVE  WordAligned(a) \in Nat /\ a <= WordAligned(a) /\ WordAligned(a) <= NumPages * PageSize
<1>1. PICK m \in Nat : m = NumPages * PageSize /\ m % 4 = 0
  BY MemorySize
<1> QED BY <1>1 DEF WordAligned

\* The pages kmalloc has used are pages of the memory.
LEMMA ReservedPagesFacts ==
    ASSUME NEW end \in 1 .. NumPages * PageSize
    PROVE  ReservedPages(end) \in 1 .. NumPages
<1>1. PICK q \in Nat, r \in 0 .. PageSize - 1 :
         q = end \div PageSize /\ r = end % PageSize /\ end = PageSize * q + r
  BY MemoryAssumption, MemorySize
<1>2. q <= NumPages /\ (r # 0 => q < NumPages)
  BY <1>1, MemoryAssumption
<1>3. q = 0 => r # 0
  BY <1>1, MemoryAssumption
<1> QED BY <1>1, <1>2, <1>3, MemoryAssumption DEF ReservedPages

LEMMA HalfFacts == ASSUME NEW v \in Nat PROVE Half(v) \in 1..2 /\ v \div 2 \in Nat
  BY DEF Half

LEMMA PagesForFacts == ASSUME NEW b \in Nat PROVE PagesFor(b) \in Nat
  BY MemoryAssumption DEF PagesFor

---------------------------------------------------------------------------
(* The pool.                                                                 *)

LEMMA PageFinite == IsFiniteSet(Page) /\ Cardinality(Page) = NumPages
<1>1. \A a, b \in Int : IsFiniteSet(a..b) /\ Cardinality(a..b) = IF a > b THEN 0 ELSE b - a + 1
  BY FS_Interval
<1> QED BY <1>1, MemoryAssumption DEF Page

\* The page that the pool gives out is a free one, and not one of the kernel's.
LEMMA FirstFreeFacts ==
    ASSUME IInv, VmRuns, num_free > 0
    PROVE  /\ FirstFree \in Page \ reserved
           /\ FirstFree >= static_end /\ FirstFree # 0
           /\ Cardinality(Page \ (reserved \cup {FirstFree})) = num_free - 1
<1>1. /\ num_free = Cardinality(Page \ reserved) /\ 0 .. static_end - 1 \subseteq reserved
      /\ static_end \in 0 .. NumPages /\ static_end > 0
  BY DEF IInv, PoolSound, KernelInv, TypeOK
<1>2. PICK S : S = Page \ reserved
  OBVIOUS
<1>3. S \subseteq Nat /\ IsFiniteSet(S)
  BY <1>2, PageFinite, FS_Subset, MemoryAssumption DEF Page
<1>4. S # {}
  BY <1>1, <1>2, FS_EmptySet
<1>5. PICK x : x = Min(S)
  OBVIOUS
<1>6. x \in S /\ FirstFree = x
  BY <1>2, <1>3, <1>4, <1>5, MinIn DEF FirstFree, Page
<1>7. Cardinality(S \ {x}) = Cardinality(S) - 1
  BY <1>3, <1>6, FS_RemoveElement
<1>8. S \ {x} = Page \ (reserved \cup {FirstFree})
  BY <1>2, <1>6
<1>9. x \in Nat /\ ~ (x \in 0 .. static_end - 1)
  BY <1>1, <1>2, <1>3, <1>6
<1> QED BY <1>1, <1>2, <1>6, <1>7, <1>8, <1>9

LEMMA FreePageCount ==
    ASSUME NEW S \in SUBSET Page, NEW p \in S
    PROVE  Cardinality(Page \ (S \ {p})) = Cardinality(Page \ S) + 1
<1>1. IsFiniteSet(Page \ S) /\ p \notin Page \ S
  BY PageFinite, FS_Subset
<1>2. Cardinality((Page \ S) \cup {p}) = Cardinality(Page \ S) + 1
  BY <1>1, FS_AddElement
<1>3. (Page \ S) \cup {p} = Page \ (S \ {p})
  OBVIOUS
<1> QED BY <1>2, <1>3

\* At most all the pages are free.
LEMMA FreeCountBound ==
    ASSUME NEW S \in SUBSET Page PROVE Cardinality(Page \ S) \in 0 .. NumPages
<1>1. IsFiniteSet(Page) /\ Page \ S \subseteq Page
  BY PageFinite
<1>2. Cardinality(Page \ S) <= Cardinality(Page) /\ IsFiniteSet(Page \ S)
  BY <1>1, FS_Subset
<1>3. Cardinality(Page \ S) \in Nat
  BY <1>2, FS_CardinalityType
<1> QED BY <1>2, <1>3, PageFinite

---------------------------------------------------------------------------
(* Page tables.                                                              *)

LEMMA EntriesForFacts ==
    ASSUME NEW tb \in Pagetable, NEW v \in Nat, EntriesFor(tb, v) # {}
    PROVE  Min(EntriesFor(tb, v)) \in EntriesFor(tb, v)
<1>1. EntriesFor(tb, v) \subseteq Nat
  BY DEF EntriesFor, Pagetable
<1> QED BY <1>1, MinIn

LEMMA MakeEntry ==
    ASSUME NEW x \in Nat, NEW a \in Owner, NEW q \in [1..2 -> Page], NEW d \in [1..2 -> BOOLEAN]
    PROVE  [vpn2 |-> x, asid |-> a, pfn |-> q, dirty |-> d] \in Entry
  BY DEF Entry

LEMMA EntryParts ==
    ASSUME NEW e \in Entry
    PROVE  e.asid \in Owner /\ e.pfn \in [1..2 -> Page] /\ e.dirty \in [1..2 -> BOOLEAN]
  BY DEF Entry

LEMMA TableParts ==
    ASSUME NEW tb \in Pagetable
    PROVE  tb.page \in Page /\ tb.asid \in Owner /\ tb.entries \in Seq(Entry)
  BY DEF Pagetable

LEMMA ChangeTable ==
    ASSUME NEW tb \in Pagetable, NEW es \in Seq(Entry), NEW new, new = [tb EXCEPT !.entries = es]
    PROVE  /\ new \in Pagetable /\ new.entries = es
           /\ new.page = tb.page /\ new.asid = tb.asid
  BY DEF Pagetable

LEMMA SetBit ==
    ASSUME NEW d \in [1..2 -> BOOLEAN], NEW m \in 1..2, NEW b \in BOOLEAN
    PROVE  [d EXCEPT ![m] = b] \in [1..2 -> BOOLEAN]
  BY Zenon

LEMMA NoBits == Each(1..2, FALSE) \in [1..2 -> BOOLEAN]
  BY Zenon DEF Each

LEMMA NoPages == Each(1..2, 0) \in [1..2 -> Page] /\ \A h \in 1..2 : Each(1..2, 0)[h] = 0
  BY MemoryAssumption DEF Each, Page

\* The entries es have page p in half m of entry n, which is e now and had
\* nothing in that half, or is new.
Changed(tb, p, n, m, e, es) ==
    \/ /\ n <= Len(tb.entries) /\ es = [tb.entries EXCEPT ![n] = e]
       /\ e.asid = tb.entries[n].asid /\ tb.entries[n].pfn[m] = 0
       /\ e.pfn = [tb.entries[n].pfn EXCEPT ![m] = p]
    \/ /\ n = Len(tb.entries) + 1 /\ es = Append(tb.entries, e)
       /\ e.asid = tb.asid /\ e.pfn = [Each(1..2, 0) EXCEPT ![m] = p]

LEMMA VmMapForm ==
    ASSUME NEW tb \in Pagetable, NEW v \in Nat, NEW p \in Page, CanMap(tb, v)
    PROVE  \E n \in 1 .. Len(tb.entries) + 1, m \in 1..2, e \in Entry, es \in Seq(Entry) :
              /\ VmMap(tb, p, v, TRUE) = [tb EXCEPT !.entries = es]
              /\ Changed(tb, p, n, m, e, es)
<1>1. PICK m \in 1..2 : m = Half(v) /\ v \div 2 \in Nat
  BY HalfFacts
<1>2. PICK os \in Seq(Entry) : os = tb.entries /\ tb.page \in Page /\ tb.asid \in Owner
  BY TableParts
<1>3. CASE EntriesFor(tb, v) # {}
  <2>1. PICK n : n = Min(EntriesFor(tb, v)) /\ n \in EntriesFor(tb, v)
    BY <1>3, EntriesForFacts
  <2>2. n \in 1 .. Len(os)
    BY <1>2, <2>1 DEF EntriesFor
  <2>3. os[n].pfn[m] = 0
    <3>1. ~ IsMapped(tb, v)
      BY <1>3 DEF CanMap
    <3> QED BY <1>1, <1>2, <2>1, <3>1 DEF IsMapped
  <2>4. PICK en \in Entry : en = os[n]
    BY <1>2, <2>2
  <2>5. PICK q \in [1..2 -> Page] : q = [en.pfn EXCEPT ![m] = p]
    BY EntryParts
  <2>6. PICK d \in [1..2 -> BOOLEAN] : d = [en.dirty EXCEPT ![m] = TRUE]
    BY EntryParts, SetBit
  <2>7a. PICK e : e = [en EXCEPT !.pfn = q, !.dirty = d]
    OBVIOUS
  <2>7. e \in Entry /\ e.pfn = q /\ e.asid = en.asid
    BY <2>7a DEF Entry
  <2>8. [os EXCEPT ![n].pfn[m] = p, ![n].dirty[m] = TRUE]
         = [os EXCEPT ![n] = [os[n] EXCEPT !.pfn = [os[n].pfn EXCEPT ![m] = p],
                                           !.dirty = [os[n].dirty EXCEPT ![m] = TRUE]]]
    BY <2>2 DEF Entry
  <2>9. PICK es : es = [os EXCEPT ![n] = e]
    OBVIOUS
  <2>10. es = [os EXCEPT ![n].pfn[m] = p, ![n].dirty[m] = TRUE]
    BY <2>4, <2>5, <2>6, <2>7a, <2>8, <2>9
  <2>11. es \in Seq(Entry)
    BY <1>2, <2>2, <2>7, <2>9
  <2>12. VmMap(tb, p, v, TRUE) = [tb EXCEPT !.entries = es]
    BY <1>1, <1>2, <1>3, <2>1, <2>10 DEF VmMap
  <2>13. n \in 1 .. Len(os) + 1 /\ n <= Len(os)
    BY <1>2, <2>2
  <2>14. Changed(tb, p, n, m, e, es)
    BY <1>2, <2>3, <2>4, <2>5, <2>7, <2>9, <2>13 DEF Changed
  <2> QED BY <1>2, <2>7, <2>11, <2>12, <2>13, <2>14
<1>4. CASE EntriesFor(tb, v) = {}
  <2>1. PICK q \in [1..2 -> Page] : q = [Each(1..2, 0) EXCEPT ![m] = p]
    BY NoPages
  <2>2. PICK d \in [1..2 -> BOOLEAN] : d = [Each(1..2, FALSE) EXCEPT ![m] = TRUE]
    BY NoBits, SetBit
  <2>3. PICK e \in Entry : e = [vpn2 |-> v \div 2, asid |-> tb.asid, pfn |-> q, dirty |-> d]
    BY <1>1, <1>2, MakeEntry
  <2>4. PICK es : es = Append(os, e)
    OBVIOUS
  <2>5. es \in Seq(Entry)
    BY <1>2, <2>4
  <2>6. VmMap(tb, p, v, TRUE) = [tb EXCEPT !.entries = es]
    BY <1>1, <1>2, <1>4, <2>1, <2>2, <2>3, <2>4 DEF VmMap
  <2>7. e.asid = tb.asid /\ e.pfn = q
    BY <2>3
  <2>8. Len(os) + 1 \in 1 .. Len(os) + 1
    <3>1. Len(os) \in Nat
      BY <1>2
    <3> QED BY <3>1
  <2>9. PICK n \in 1 .. Len(os) + 1 : n = Len(os) + 1
    BY <2>8
  <2>10. Changed(tb, p, n, m, e, es)
    BY <1>2, <2>1, <2>4, <2>7, <2>9 DEF Changed
  <2> QED BY <1>2, <2>3, <2>5, <2>6, <2>9, <2>10
<1> QED BY <1>3, <1>4

\* The page in half h of entry i, 0 if there is none.
At(es, i, h) == IF i \in DOMAIN es THEN es[i].pfn[h] ELSE 0

\* Page p is put into a half of an entry that was empty, and nothing else.
Puts(p, os, es) ==
    \E n \in Nat \ {0}, m \in 1..2 :
        /\ At(os, n, m) = 0
        /\ \A i \in Nat, h \in 1..2 :
              At(es, i, h) = IF i = n /\ h = m THEN p ELSE At(os, i, h)

\* The table new has the same pages as the table old.
SamePages(old, new) ==
    /\ new.page = old.page /\ new.asid = old.asid
    /\ DOMAIN new.entries = DOMAIN old.entries /\ Len(new.entries) = Len(old.entries)
    /\ \A i \in DOMAIN old.entries : new.entries[i].asid = old.entries[i].asid
    /\ \A i \in Nat, h \in 1..2 : At(new.entries, i, h) = At(old.entries, i, h)

\* It has page p besides.
OnePageMore(old, new, p) ==
    /\ new.page = old.page /\ new.asid = old.asid
    /\ Len(new.entries) <= Len(old.entries) + 1
    /\ \A i \in DOMAIN new.entries :
          \/ new.entries[i].asid = old.asid
          \/ i \in DOMAIN old.entries /\ new.entries[i].asid = old.entries[i].asid
    /\ Puts(p, old.entries, new.entries)

\* Mapping a page: it goes into one half of one entry, which was empty, and
\* everything else stays as it was.
LEMMA VmMapFacts ==
    ASSUME NEW tb \in Pagetable, NEW v \in Nat, NEW p \in Page, CanMap(tb, v),
           NEW new, new = VmMap(tb, p, v, TRUE)
    PROVE  new \in Pagetable /\ OnePageMore(tb, new, p)
<1>1. PICK n \in 1 .. Len(tb.entries) + 1, m \in 1..2, e \in Entry, es \in Seq(Entry) :
         VmMap(tb, p, v, TRUE) = [tb EXCEPT !.entries = es] /\ Changed(tb, p, n, m, e, es)
  BY VmMapForm
<1>2. new \in Pagetable /\ new.entries = es /\ new.page = tb.page /\ new.asid = tb.asid
  BY <1>1 DEF Pagetable
<1>3. PICK os \in Seq(Entry) : os = tb.entries
  BY TableParts
<1>4. /\ Len(os) \in Nat /\ n \in Nat \ {0} /\ DOMAIN os = 1 .. Len(os)
      /\ n <= Len(os) \/ n = Len(os) + 1
  BY <1>3
<1>5. CASE n <= Len(os)
  <2>1. /\ es = [os EXCEPT ![n] = e] /\ e.asid = os[n].asid /\ os[n].pfn[m] = 0
        /\ e.pfn = [os[n].pfn EXCEPT ![m] = p]
    BY <1>1, <1>3, <1>4, <1>5 DEF Changed
  <2>2. n \in 1 .. Len(os) /\ os[n] \in Entry
    BY <1>3, <1>4, <1>5
  <2>3. DOMAIN es = DOMAIN os /\ Len(es) = Len(os)
    BY <1>3, <2>1, <2>2
  <2>4. \A i \in DOMAIN es : es[i] = IF i = n THEN e ELSE os[i]
    BY <1>3, <2>1, <2>2
  <2>5. \A h \in 1..2 : e.pfn[h] = IF h = m THEN p ELSE os[n].pfn[h]
    BY <2>1, <2>2, EntryParts
  <2>6. /\ At(os, n, m) = 0
        /\ \A i \in Nat, h \in 1..2 :
              At(es, i, h) = IF i = n /\ h = m THEN p ELSE At(os, i, h)
    BY <1>4, <2>1, <2>2, <2>3, <2>4, <2>5 DEF At
  <2>7. \A i \in DOMAIN es : i \in DOMAIN os /\ es[i].asid = os[i].asid
    BY <2>1, <2>3, <2>4
  <2>8. Puts(p, os, es)
    BY <1>4, <2>6 DEF Puts
  <2>9. Len(es) <= Len(os) + 1
    BY <1>4, <2>3
  <2> QED BY <1>2, <1>3, <2>7, <2>8, <2>9 DEF OnePageMore
<1>6. CASE n = Len(os) + 1
  <2>1. es = Append(os, e) /\ e.asid = tb.asid /\ e.pfn = [Each(1..2, 0) EXCEPT ![m] = p]
    BY <1>1, <1>3, <1>4, <1>6 DEF Changed
  <2>2. Len(es) = Len(os) + 1 /\ DOMAIN es = 1 .. Len(os) + 1
    BY <1>3, <2>1
  <2>3. \A i \in 1 .. Len(os) + 1 : es[i] = IF i = n THEN e ELSE os[i]
    BY <1>3, <1>4, <1>6, <2>1
  <2>4. \A h \in 1..2 : e.pfn[h] = IF h = m THEN p ELSE 0
    BY <2>1, NoPages
  <2>5. At(os, n, m) = 0 /\ n \in 1 .. Len(os) + 1
    BY <1>4, <1>6 DEF At
  <2>6. \A i \in Nat, h \in 1..2 : At(es, i, h) = IF i = n /\ h = m THEN p ELSE At(os, i, h)
    BY <1>4, <1>6, <2>2, <2>3, <2>4, <2>5 DEF At
  <2>7. \A i \in DOMAIN es : \/ es[i].asid = tb.asid
                             \/ i \in DOMAIN os /\ es[i].asid = os[i].asid
    BY <1>4, <1>6, <2>1, <2>2, <2>3
  <2>8. Puts(p, os, es)
    BY <1>4, <2>5, <2>6 DEF Puts
  <2>9. Len(es) <= Len(os) + 1
    BY <1>4, <2>2
  <2> QED BY <1>2, <1>3, <2>7, <2>8, <2>9 DEF OnePageMore
<1> QED BY <1>4, <1>5, <1>6

\* Changing a dirty bit leaves the pages, the ASIDs and the size alone.
LEMMA VmSetDirtyFacts ==
    ASSUME NEW tb \in Pagetable, NEW v \in Nat, NEW new, new = VmSetDirty(tb, v, FALSE)
    PROVE  new \in Pagetable /\ SamePages(tb, new)
<1>1. PICK m \in 1..2 : m = Half(v)
  BY HalfFacts
<1>2. PICK n : n = Min(EntriesFor(tb, v))
  OBVIOUS
<1>3. PICK os \in Seq(Entry) : os = tb.entries
  BY TableParts
<1>4. PICK es : es = [os EXCEPT ![n].dirty[m] = FALSE]
  OBVIOUS
<1>5. new = [tb EXCEPT !.entries = es]
  BY <1>1, <1>2, <1>3, <1>4 DEF VmSetDirty
<1>6. CASE n \in 1 .. Len(os)
  <2>1. PICK en \in Entry : en = os[n]
    BY <1>3, <1>6
  <2>2. PICK d \in [1..2 -> BOOLEAN] : d = [en.dirty EXCEPT ![m] = FALSE]
    BY EntryParts, SetBit
  <2>3. PICK e : e = [en EXCEPT !.dirty = d]
    OBVIOUS
  <2>4. e \in Entry /\ e.asid = en.asid /\ e.pfn = en.pfn
    BY <2>3 DEF Entry
  <2>5. es = [os EXCEPT ![n] = e]
    BY <1>4, <2>1, <2>2, <2>3
  <2>6. es \in Seq(Entry) /\ Len(es) = Len(os) /\ DOMAIN es = DOMAIN os
    BY <1>3, <1>6, <2>4, <2>5
  <2>7. \A i \in DOMAIN os : es[i] = IF i = n THEN e ELSE os[i]
    BY <1>3, <1>6, <2>5
  <2>8. \A i \in DOMAIN os : es[i].asid = os[i].asid /\ es[i].pfn = os[i].pfn
    BY <2>1, <2>4, <2>7
  <2>9. \A i \in Nat, h \in 1..2 : At(es, i, h) = At(os, i, h)
    BY <2>6, <2>8 DEF At
  <2>10. new \in Pagetable /\ new.entries = es /\ new.page = tb.page /\ new.asid = tb.asid
    BY <1>5, <2>6 DEF Pagetable
  <2> QED BY <1>3, <2>6, <2>8, <2>9, <2>10 DEF SamePages
<1>7. CASE ~ (n \in 1 .. Len(os))
  <2>1. es = os
    BY <1>3, <1>4, <1>7
  <2>2. new \in Pagetable /\ new.entries = os /\ new.page = tb.page /\ new.asid = tb.asid
    BY <1>3, <1>5, <2>1 DEF Pagetable
  <2> QED BY <1>3, <2>2 DEF SamePages
<1> QED BY <1>6, <1>7

---------------------------------------------------------------------------
(* The steps of process_start.                                               *)

LoadStep == [op : LoadOps, v : Nat]

LEMMA LoadStepIsStep == ASSUME NEW s \in Seq(LoadStep) PROVE s \in Seq(Step)
<1>1. LoadStep \subseteq Step
  BY DEF LoadStep, Step, LoadOps
<1> QED BY <1>1

LEMMA MapStepsFinite ==
    ASSUME NEW s \in Seq(Step)
    PROVE  IsFiniteSet(MapSteps(s)) /\ Cardinality(MapSteps(s)) \in Nat
<1>1. Len(s) \in Nat /\ MapSteps(s) \subseteq 1 .. Len(s)
  BY DEF MapSteps
<1>2. IsFiniteSet(1 .. Len(s))
  BY <1>1, FS_Interval
<1>3. IsFiniteSet(MapSteps(s))
  BY <1>1, <1>2, FS_Subset
<1> QED BY <1>3, FS_CardinalityType

\* A step that is done is no longer counted.
LEMMA TailFacts ==
    ASSUME NEW s \in Seq(Step), s # <<>>
    PROVE  /\ Tail(s) \in Seq(Step) /\ Head(s) \in Step
           /\ \A i \in DOMAIN Tail(s) : i + 1 \in DOMAIN s /\ Tail(s)[i] = s[i + 1]
           /\ Tail(s) # <<>> => /\ Len(Tail(s)) + 1 = Len(s)
                                /\ Tail(s)[Len(Tail(s))] = s[Len(s)]
           /\ Tail(s) = <<>> => Head(s) = s[Len(s)]
           /\ Cardinality(MapSteps(Tail(s))) <= Cardinality(MapSteps(s))
           /\ Head(s).op = "map" =>
                 Cardinality(MapSteps(Tail(s))) + 1 <= Cardinality(MapSteps(s))
<1>1. /\ Tail(s) \in Seq(Step) /\ Head(s) \in Step /\ Head(s) = s[1]
      /\ Len(s) \in Nat \ {0} /\ Len(Tail(s)) = Len(s) - 1
      /\ DOMAIN Tail(s) = 1 .. Len(s) - 1 /\ DOMAIN s = 1 .. Len(s)
      /\ \A i \in 1 .. Len(s) - 1 : Tail(s)[i] = s[i + 1]
  OBVIOUS
<1>2. PICK A, B : A = MapSteps(Tail(s)) /\ B = MapSteps(s)
  OBVIOUS
<1>3. IsFiniteSet(B) /\ Cardinality(B) \in Nat /\ Cardinality(A) \in Nat /\ IsFiniteSet(A)
  BY <1>1, <1>2, MapStepsFinite
<1>4. PICK f : f = [i \in A |-> i + 1]
  OBVIOUS
<1>5. f \in Injection(A, B \ {1})
  <2>1. \A i \in A : i \in Nat \ {0} /\ i + 1 \in B \ {1}
    BY <1>1, <1>2 DEF MapSteps
  <2> QED BY <1>4, <2>1 DEF Injection, IsInjective
<1>6. IsFiniteSet(B \ {1}) /\ Cardinality(B \ {1}) = IF 1 \in B THEN Cardinality(B) - 1
                                                     ELSE Cardinality(B)
  BY <1>3, FS_RemoveElement
<1>7. Cardinality(A) <= Cardinality(B \ {1})
  BY <1>5, <1>6, FS_Injection
<1>8. Head(s).op = "map" => 1 \in B
  BY <1>1, <1>2 DEF MapSteps
<1>9. /\ \A i \in DOMAIN Tail(s) : i + 1 \in DOMAIN s /\ Tail(s)[i] = s[i + 1]
      /\ Tail(s) # <<>> => /\ Len(Tail(s)) + 1 = Len(s)
                           /\ Tail(s)[Len(Tail(s))] = s[Len(s)]
      /\ Tail(s) = <<>> => Head(s) = s[Len(s)]
  <2>1. Tail(s) # <<>> => Len(s) > 1
    BY <1>1
  <2>2. Tail(s) = <<>> => Len(s) = 1
    BY <1>1
  <2> QED BY <1>1, <2>1, <2>2
<1> QED BY <1>1, <1>2, <1>3, <1>6, <1>7, <1>8, <1>9

LEMMA UpFacts ==
    ASSUME NEW op \in LoadOps, NEW first \in Nat, NEW n \in Nat
    PROVE  /\ Up(op, first, n) \in Seq(LoadStep) /\ Len(Up(op, first, n)) = n
           /\ \A i \in 1 .. n : Up(op, first, n)[i].op = op
<1>1. \A i \in 1 .. n : [op |-> op, v |-> first + i - 1] \in LoadStep
  BY DEF LoadStep
<1>2. PICK g : g = Up(op, first, n)
  OBVIOUS
<1>3. g \in [1 .. n -> LoadStep] /\ \A i \in 1 .. n : g[i].op = op
  BY <1>1, <1>2 DEF Up
<1>4. n \in Nat
  OBVIOUS
<1>5. g \in Seq(LoadStep)
  BY <1>3, <1>4, IsASeq
<1>6. Len(g) = n
  BY <1>3, <1>4, <1>5, LenProperties
<1> QED BY <1>2, <1>3, <1>5, <1>6

LEMMA DownFacts ==
    ASSUME NEW op \in LoadOps, NEW first \in Nat, NEW n \in 0 .. first + 1
    PROVE  /\ Down(op, first, n) \in Seq(LoadStep) /\ Len(Down(op, first, n)) = n
           /\ \A i \in 1 .. n : Down(op, first, n)[i].op = op
<1>1. \A i \in 1 .. n : [op |-> op, v |-> first - i + 1] \in LoadStep
  BY DEF LoadStep
<1>2. PICK g : g = Down(op, first, n)
  OBVIOUS
<1>3. g \in [1 .. n -> LoadStep] /\ \A i \in 1 .. n : g[i].op = op
  BY <1>1, <1>2 DEF Down
<1>4. n \in Nat
  OBVIOUS
<1>5. g \in Seq(LoadStep)
  BY <1>3, <1>4, IsASeq
<1>6. Len(g) = n
  BY <1>3, <1>4, <1>5, LenProperties
<1> QED BY <1>2, <1>3, <1>5, <1>6

\* Steps that map nothing add nothing to the count.
LEMMA NoMaps ==
    ASSUME NEW s \in Seq(LoadStep), NEW e \in Seq(LoadStep),
           \A i \in 1 .. Len(e) : e[i].op # "map"
    PROVE  s \o e \in Seq(LoadStep) /\ MapSteps(s \o e) = MapSteps(s)
<1>1. /\ s \o e \in Seq(LoadStep) /\ Len(s) \in Nat /\ Len(e) \in Nat
      /\ DOMAIN (s \o e) = 1 .. Len(s) + Len(e) /\ DOMAIN s = 1 .. Len(s)
      /\ \A i \in 1 .. Len(s) + Len(e) :
            (s \o e)[i] = IF i <= Len(s) THEN s[i] ELSE e[i - Len(s)]
  OBVIOUS
<1>2. \A i \in 1 .. Len(s) + Len(e) : i > Len(s) => i - Len(s) \in 1 .. Len(e)
  BY <1>1
<1>3. \A i : i \in MapSteps(s \o e) <=> i \in MapSteps(s)
  BY <1>1, <1>2 DEF MapSteps
<1> QED BY <1>1, <1>3

SegmentType == [vpage : Nat, pages : Nat, filled : Nat]

LEMMA SegmentFacts ==
    ASSUME NEW f \in Files, NEW w \in BOOLEAN PROVE Segment(f, w) \in SegmentType
<1>1. CASE Loads(f, w) = {}
  BY <1>1 DEF Segment, SegmentType
<1>2. CASE Loads(f, w) # {}
  <2>1. PICK i : i = (CHOOSE k \in Loads(f, w) : TRUE) /\ i \in Loads(f, w)
    BY <1>2
  <2>2. f.headers[i] \in Header
    <3>1. f.headers \in Seq(Header) /\ i \in DOMAIN f.headers
      BY <2>1, FilesAssumption DEF Loads
    <3> QED BY <3>1, ElementOfSeq
  <2>3. PICK h \in Header : h = f.headers[i]
    BY <2>2
  <2>4. h.vpage \in Nat /\ PagesFor(h.memsz) \in Nat /\ PagesFor(h.filesz) \in Nat
    BY PagesForFacts DEF Header
  <2> QED BY <1>2, <2>1, <2>3, <2>4 DEF Segment, SegmentType
<1> QED BY <1>1, <1>2

\* Steps that are appended add at most one mapping each.
LEMMA MoreMaps ==
    ASSUME NEW s \in Seq(LoadStep), NEW e \in Seq(LoadStep)
    PROVE  /\ s \o e \in Seq(LoadStep)
           /\ Cardinality(MapSteps(s \o e)) <= Cardinality(MapSteps(s)) + Len(e)
<1>1. /\ s \o e \in Seq(LoadStep) /\ Len(s) \in Nat /\ Len(e) \in Nat
      /\ DOMAIN (s \o e) = 1 .. Len(s) + Len(e) /\ DOMAIN s = 1 .. Len(s)
      /\ \A i \in 1 .. Len(s) : (s \o e)[i] = s[i]
  OBVIOUS
<1>2. PICK A, B, C : /\ A = MapSteps(s) /\ B = Len(s) + 1 .. Len(s) + Len(e)
                     /\ C = MapSteps(s \o e)
  OBVIOUS
<1>3. C \subseteq A \cup B
  BY <1>1, <1>2 DEF MapSteps
<1>4. IsFiniteSet(A) /\ Cardinality(A) \in Nat
  BY <1>2, LoadStepIsStep, MapStepsFinite
<1>5. IsFiniteSet(B) /\ Cardinality(B) = Len(e)
  <2>1. PICK x \in Int, y \in Int : x = Len(s) + 1 /\ y = Len(s) + Len(e)
    BY <1>1
  <2>2. IsFiniteSet(x .. y) /\ Cardinality(x .. y) = IF x > y THEN 0 ELSE y - x + 1
    BY FS_Interval
  <2> QED BY <1>1, <1>2, <2>1, <2>2
<1>6. IsFiniteSet(A \cup B) /\ Cardinality(A \cup B) <= Cardinality(A) + Cardinality(B)
  <2>1. /\ IsFiniteSet(A \cup B) /\ IsFiniteSet(A \cap B)
        /\ Cardinality(A \cup B) = Cardinality(A) + Cardinality(B) - Cardinality(A \cap B)
    BY <1>4, <1>5, FS_Union, FS_Intersection
  <2>2. Cardinality(A \cap B) \in Nat
    BY <2>1, FS_CardinalityType
  <2> QED BY <1>1, <1>4, <1>5, <2>1, <2>2
<1>7. Cardinality(C) <= Cardinality(A \cup B) /\ Cardinality(A \cup B) \in Nat
  BY <1>3, <1>6, FS_Subset, FS_CardinalityType
<1>8. IsFiniteSet(C)
  BY <1>3, <1>6, FS_Subset
<1>9. Cardinality(C) \in Nat
  BY <1>8, FS_CardinalityType
<1> QED BY <1>1, <1>2, <1>4, <1>5, <1>6, <1>7, <1>9

LEMMA UpNoMaps ==
    ASSUME NEW op \in LoadOps, op # "map", NEW first \in Nat, NEW n \in Nat,
           NEW e, e = Up(op, first, n)
    PROVE  e \in Seq(LoadStep) /\ \A i \in 1 .. Len(e) : e[i].op # "map"
  BY UpFacts

LEMMA UpMaps ==
    ASSUME NEW first \in Nat, NEW n \in Nat, NEW e, e = Up("map", first, n)
    PROVE  e \in Seq(LoadStep) /\ Len(e) = n
<1>1. "map" \in LoadOps
  BY DEF LoadOps
<1> QED BY <1>1, UpFacts

\* What is left to do once the file is parsed: it maps at most a page for each
\* page of the stack and the segments, and ends with filling the TLB.
LEMMA LoadStepsFacts ==
    ASSUME NEW ro \in SegmentType, NEW rw \in SegmentType, NEW s, s = LoadSteps(ro, rw)
    PROVE  /\ s \in Seq(LoadStep) /\ s # <<>> /\ s[Len(s)].op = "fill"
           /\ Cardinality(MapSteps(s)) <= ro.pages + rw.pages + StackSize
<1>1. /\ ro.vpage \in Nat /\ ro.pages \in Nat /\ ro.filled \in Nat
      /\ rw.vpage \in Nat /\ rw.pages \in Nat /\ rw.filled \in Nat
      /\ StackTop \in Nat /\ StackSize \in 0 .. StackTop + 1 /\ StackTop - StackSize + 1 \in Nat
  BY MemoryAssumption DEF SegmentType
<1>0. /\ "map" \in LoadOps /\ "fill" \in LoadOps /\ "zero" \in LoadOps
      /\ "copy" \in LoadOps /\ "protect" \in LoadOps
  BY DEF LoadOps
<1>2. PICK fill \in Seq(LoadStep) : fill = One("fill") /\ Len(fill) = 1 /\ fill[1].op = "fill"
  <2>1. PICK e : e = [op |-> "fill", v |-> 0] /\ e = Do("fill")
    BY DEF Do
  <2>2. e \in LoadStep /\ e.op = "fill"
    BY <1>0, <2>1 DEF LoadStep
  <2>3. One("fill") = <<e>>
    BY <2>1 DEF One
  <2>4. <<e>> \in Seq(LoadStep) /\ Len(<<e>>) = 1 /\ <<e>>[1] = e
    BY <2>2
  <2> QED BY <2>2, <2>3, <2>4
<1>3. PICK a, b, c : /\ a = Down("map", StackTop, StackSize) /\ b = Up("map", ro.vpage, ro.pages)
                     /\ c = Up("map", rw.vpage, rw.pages)
  OBVIOUS
<1>4. /\ a \in Seq(LoadStep) /\ Len(a) = StackSize /\ b \in Seq(LoadStep) /\ Len(b) = ro.pages
      /\ c \in Seq(LoadStep) /\ Len(c) = rw.pages
  <2>1. a \in Seq(LoadStep) /\ Len(a) = StackSize
    BY <1>0, <1>1, <1>3, DownFacts
  <2>2. b \in Seq(LoadStep) /\ Len(b) = ro.pages
    <3>1. ro.vpage \in Nat /\ ro.pages \in Nat /\ b = Up("map", ro.vpage, ro.pages)
      BY <1>1, <1>3
    <3> QED BY ONLY <3>1, UpMaps
  <2>3. c \in Seq(LoadStep) /\ Len(c) = rw.pages
    BY <1>1, <1>3, UpMaps
  <2> QED BY <2>1, <2>2, <2>3
<1>5. PICK p : p = a \o fill \o b \o c
  OBVIOUS
<1>6. p \in Seq(LoadStep)
  BY <1>2, <1>4, <1>5
<1>7. Cardinality(MapSteps(p)) <= ro.pages + rw.pages + StackSize
  <2>1. Cardinality(MapSteps(a)) <= StackSize /\ Cardinality(MapSteps(a)) \in Nat
    <3>1. a = <<>> \o a /\ <<>> \in Seq(LoadStep)
      BY <1>4
    <3>2. MapSteps(<<>>) = {}
      BY DEF MapSteps
    <3>3. Cardinality(MapSteps(a)) <= Cardinality(MapSteps(<<>>)) + Len(a)
      BY <1>4, <3>1, MoreMaps
    <3>4. Cardinality(MapSteps(<<>>)) = 0
      BY <3>2, FS_EmptySet
    <3> QED BY <1>1, <1>4, <3>3, <3>4, LoadStepIsStep, MapStepsFinite
  <2>2. a \o fill \in Seq(LoadStep) /\ MapSteps(a \o fill) = MapSteps(a)
    <3>1. \A i \in 1 .. Len(fill) : fill[i].op # "map"
      BY <1>2
    <3> QED BY <1>2, <1>4, <3>1, NoMaps
  <2>3. /\ a \o fill \o b \in Seq(LoadStep)
        /\ Cardinality(MapSteps(a \o fill \o b)) <= Cardinality(MapSteps(a)) + Len(b)
    BY <1>4, <2>2, MoreMaps
  <2>4. Cardinality(MapSteps(p)) <= Cardinality(MapSteps(a \o fill \o b)) + Len(c)
    BY <1>4, <1>5, <2>3, MoreMaps
  <2>5. Cardinality(MapSteps(p)) \in Nat /\ Cardinality(MapSteps(a \o fill \o b)) \in Nat
    BY <1>6, <2>3, LoadStepIsStep, MapStepsFinite
  <2> QED BY <1>1, <1>4, <2>1, <2>3, <2>4, <2>5
<1>8. PICK e1, e2, e3, e4, e5, e6 :
         /\ e1 = Up("zero", ro.vpage, ro.pages) /\ e2 = Up("zero", rw.vpage, rw.pages)
         /\ e3 = Up("zero", StackTop - StackSize + 1, StackSize)
         /\ e4 = Up("copy", ro.vpage, ro.filled) /\ e5 = Up("copy", rw.vpage, rw.filled)
         /\ e6 = Up("protect", ro.vpage, ro.pages)
  OBVIOUS
<1>10. /\ e1 \in Seq(LoadStep) /\ \A i \in 1 .. Len(e1) : e1[i].op # "map"
       /\ e2 \in Seq(LoadStep) /\ \A i \in 1 .. Len(e2) : e2[i].op # "map"
       /\ e3 \in Seq(LoadStep) /\ \A i \in 1 .. Len(e3) : e3[i].op # "map"
       /\ e4 \in Seq(LoadStep) /\ \A i \in 1 .. Len(e4) : e4[i].op # "map"
       /\ e5 \in Seq(LoadStep) /\ \A i \in 1 .. Len(e5) : e5[i].op # "map"
       /\ e6 \in Seq(LoadStep) /\ \A i \in 1 .. Len(e6) : e6[i].op # "map"
  <2>1. e1 \in Seq(LoadStep) /\ \A i \in 1 .. Len(e1) : e1[i].op # "map"
    BY <1>0, <1>1, <1>8, UpNoMaps
  <2>2. e2 \in Seq(LoadStep) /\ \A i \in 1 .. Len(e2) : e2[i].op # "map"
    BY <1>0, <1>1, <1>8, UpNoMaps
  <2>3. e3 \in Seq(LoadStep) /\ \A i \in 1 .. Len(e3) : e3[i].op # "map"
    BY <1>0, <1>1, <1>8, UpNoMaps
  <2>4. e4 \in Seq(LoadStep) /\ \A i \in 1 .. Len(e4) : e4[i].op # "map"
    BY <1>0, <1>1, <1>8, UpNoMaps
  <2>5. e5 \in Seq(LoadStep) /\ \A i \in 1 .. Len(e5) : e5[i].op # "map"
    BY <1>0, <1>1, <1>8, UpNoMaps
  <2>6. e6 \in Seq(LoadStep) /\ \A i \in 1 .. Len(e6) : e6[i].op # "map"
    BY <1>0, <1>1, <1>8, UpNoMaps
  <2> QED BY <2>1, <2>2, <2>3, <2>4, <2>5, <2>6
<1>11. PICK q : q = p \o e1 \o e2 \o e3
  OBVIOUS
<1>12. q \in Seq(LoadStep) /\ MapSteps(q) = MapSteps(p)
  <2>1. p \o e1 \in Seq(LoadStep) /\ MapSteps(p \o e1) = MapSteps(p)
    BY <1>6, <1>10, NoMaps
  <2>2. p \o e1 \o e2 \in Seq(LoadStep) /\ MapSteps(p \o e1 \o e2) = MapSteps(p)
    BY <1>10, <2>1, NoMaps
  <2>3. p \o e1 \o e2 \o e3 \in Seq(LoadStep) /\ MapSteps(p \o e1 \o e2 \o e3) = MapSteps(p)
    BY <1>10, <2>2, NoMaps
  <2> QED BY <1>11, <2>3
<1>13. PICK r : r = q \o e4 \o e5 \o e6
  OBVIOUS
<1>14. r \in Seq(LoadStep) /\ MapSteps(r) = MapSteps(p)
  <2>1. q \o e4 \in Seq(LoadStep) /\ MapSteps(q \o e4) = MapSteps(p)
    BY <1>10, <1>12, NoMaps
  <2>2. q \o e4 \o e5 \in Seq(LoadStep) /\ MapSteps(q \o e4 \o e5) = MapSteps(p)
    BY <1>10, <2>1, NoMaps
  <2>3. q \o e4 \o e5 \o e6 \in Seq(LoadStep) /\ MapSteps(q \o e4 \o e5 \o e6) = MapSteps(p)
    BY <1>10, <2>2, NoMaps
  <2> QED BY <1>13, <2>3
<1>15. s = r \o fill
  BY <1>2, <1>3, <1>5, <1>8, <1>11, <1>13 DEF LoadSteps
<1>16. s \in Seq(LoadStep) /\ MapSteps(s) = MapSteps(p)
  <2>1. \A i \in 1 .. Len(fill) : fill[i].op # "map"
    BY <1>2
  <2> QED BY <1>2, <1>14, <1>15, <2>1, NoMaps
<1>17. s # <<>> /\ s[Len(s)].op = "fill"
  BY <1>2, <1>14, <1>15
<1> QED BY <1>7, <1>16, <1>17

---------------------------------------------------------------------------
(* What the actions do, as the invariants need to know it.                   *)

StepOps == {"create", "open", "map", "fill", "zero", "copy", "protect"}

\* Where a thread is in process_start when it takes a step of it.
LEMMA AtStepFacts ==
    ASSUME IInv, NEW c \in Cpu, NEW t \in Thread, NEW ops \in SUBSET StepOps, AtStep(c, t, ops)
    PROVE  /\ VmRuns /\ current[c] = t /\ status[t] = "live"
           /\ todo[t] \in Seq(Step) /\ todo[t] # <<>> /\ Head(todo[t]) = todo[t][1]
           /\ Head(todo[t]).op \in ops /\ Head(todo[t]).v \in Nat
           /\ ops = {"create"} => todo[t] = Start
           /\ ops = {"open"} => table[t] # NoTable /\ table[t].entries = <<>>
           /\ ops \subseteq LoadOps => Loading(t)
<1>1. current[c] = t /\ status[t] = "live" /\ todo[t] # <<>> /\ Head(todo[t]).op \in ops
  BY DEF AtStep
<1>2. VmRuns
  BY <1>1 DEF IInv, ThreadInv
<1>3. todo[t] \in Seq(Step)
  BY DEF IInv, TypeOK
<1>4. Head(todo[t]) = todo[t][1] /\ Head(todo[t]) \in Step /\ 1 \in DOMAIN todo[t]
  BY <1>1, <1>3
<1>5. Head(todo[t]).v \in Nat
  BY <1>4 DEF Step
<1>6. \/ todo[t] = Start
      \/ todo[t] = One("open") /\ table[t] # NoTable /\ table[t].entries = <<>>
      \/ Loading(t)
  BY <1>1 DEF IInv, StepsInv
<1>7. todo[t] = Start => Head(todo[t]).op = "create"
  BY DEF Start, Do
<1>8. todo[t] = One("open") => Head(todo[t]).op = "open"
  BY DEF One, Do
<1>9. Loading(t) => Head(todo[t]).op \in LoadOps
  BY <1>4 DEF Loading
<1> QED BY <1>1, <1>2, <1>3, <1>4, <1>5, <1>6, <1>7, <1>8, <1>9 DEF LoadOps

LEMMA InUserlandFacts ==
    ASSUME IInv, NEW c \in Cpu, NEW t \in Thread, InUserland(c, t)
    PROVE  VmRuns /\ current[c] = t /\ status[t] = "live" /\ todo[t] = <<>> /\ Loading(t)
<1>1. current[c] = t /\ status[t] = "live" /\ todo[t] = <<>>
  BY DEF InUserland
<1>2. VmRuns
  BY <1>1 DEF IInv, ThreadInv
<1>3. todo[t] # Start /\ todo[t] # One("open")
  BY <1>1 DEF Start, One, Do
<1> QED BY <1>1, <1>2, <1>3 DEF IInv, StepsInv

\* The pool has given page p out.
GotPage(p) ==
    /\ VmRuns /\ p \in Page \ reserved /\ p >= static_end /\ p # 0
    /\ reserved' = reserved \cup {p} /\ static_end' = static_end
    /\ num_free' \in 0 .. NumPages /\ num_free' = Cardinality(Page \ reserved')

LEMMA GetPageFacts ==
    ASSUME IInv, VmRuns, GetPage PROVE GotPage(FirstFree)
<1>1. /\ num_free > 0 /\ num_free' = num_free - 1
      /\ reserved' = reserved \cup {FirstFree} /\ static_end' = static_end
  BY DEF GetPage
<1>2. num_free \in 0 .. NumPages
  BY DEF IInv, TypeOK
<1> QED BY <1>1, <1>2, FirstFreeFacts, MemoryAssumption DEF GotPage

KmallocDoes ==
    /\ ~ VmRuns /\ free_area_start' \in 1 .. NumPages * PageSize
    /\ UNCHANGED <<reserved, num_free, static_end, status, table, todo, current, tlb, asid, left, panic>>

LEMMA KmallocInitFacts == ASSUME KmallocInit PROVE KmallocDoes
<1>1. KernelEnd \in Nat \ {0} /\ KernelEnd <= NumPages * PageSize
  BY MemoryAssumption, MemorySize
<1>2. /\ WordAligned(KernelEnd) \in Nat /\ KernelEnd <= WordAligned(KernelEnd)
      /\ WordAligned(KernelEnd) <= NumPages * PageSize
  BY <1>1, WordAlignedFacts
<1> QED BY <1>1, <1>2, MemorySize DEF KmallocInit, KmallocDoes, pool, cpus, VmRuns, Disabled

LEMMA KmallocFacts ==
    ASSUME IInv, NEW b \in KmallocSizes, Kmalloc(b), ~ Panic PROVE KmallocDoes
<1>1. b \in Nat /\ free_area_start \in 1 .. MaxStatic /\ free_area_start \in Nat
  BY MemoryAssumption DEF Kmalloc
<1>2. /\ free_area_start + b <= NumPages * PageSize
      /\ free_area_start' = WordAligned(free_area_start + b)
      /\ UNCHANGED <<pool, status, table, todo, cpus, left, panic>>
  BY DEF Kmalloc, FitsInMemory
<1>3. PICK a \in Nat : a = free_area_start + b /\ a > 0
  BY <1>1
<1>4. a <= WordAligned(a) /\ WordAligned(a) <= NumPages * PageSize /\ WordAligned(a) \in Nat
  BY <1>2, <1>3, WordAlignedFacts
<1> QED BY <1>1, <1>2, <1>3, <1>4, MemorySize DEF KmallocDoes, pool, cpus, VmRuns, Disabled

VmInitDoes ==
    /\ ~ VmRuns /\ VmRuns'
    /\ static_end' \in 1 .. NumPages /\ reserved' = 0 .. static_end' - 1
    /\ num_free' \in 0 .. NumPages /\ num_free' = Cardinality(Page \ reserved')
    /\ UNCHANGED <<status, table, todo, current, tlb, asid, left, panic>>

LEMMA VmInitFacts == ASSUME IInv, VmInit, ~ Panic PROVE VmInitDoes
<1>1. free_area_start \in Nat \ {0}
  BY MemorySize DEF VmInit, IInv, TypeOK, Disabled
<1>2. BitmapSizeof(NumPages) \in Nat
  BY MemoryAssumption DEF BitmapSizeof
<1>3. PICK a \in Nat : a = free_area_start + BitmapSizeof(NumPages) /\ a > 0
  BY <1>1, <1>2
<1>4. a <= NumPages * PageSize
  BY <1>3 DEF VmInit, FitsInMemory
<1>5. a <= WordAligned(a) /\ WordAligned(a) <= NumPages * PageSize /\ WordAligned(a) \in Nat
  BY <1>4, WordAlignedFacts
<1>6. PICK k : k = ReservedPages(WordAligned(a))
  OBVIOUS
<1>7. k \in 1 .. NumPages
  <2>1. WordAligned(a) \in 1 .. NumPages * PageSize
    BY <1>3, <1>5, MemorySize
  <2> QED BY <1>6, <2>1, ReservedPagesFacts
<1>8. /\ free_area_start' = Disabled /\ num_free' = NumPages - k /\ static_end' = k
      /\ reserved' = 0 .. k - 1
      /\ UNCHANGED <<status, table, todo, cpus, left, panic>>
  BY <1>3, <1>6 DEF VmInit
<1>9. Cardinality(Page \ reserved') = NumPages - k
  <2>1. PICK y \in Int : y = NumPages - 1
    BY MemoryAssumption
  <2>2. Page \ reserved' = k .. y
    BY <1>7, <1>8, <2>1, MemoryAssumption DEF Page
  <2>3. Cardinality(k .. y) = IF k > y THEN 0 ELSE y - k + 1
    BY <1>7, FS_Interval
  <2>4. Cardinality(Page \ reserved') = Cardinality(k .. y)
    BY ONLY <2>2, Zenon
  <2>5. k \in Nat /\ NumPages \in Nat /\ k <= NumPages
    BY <1>7, MemoryAssumption
  <2> QED BY <2>1, <2>3, <2>4, <2>5
<1> QED BY <1>1, <1>7, <1>8, <1>9, MemoryAssumption DEF VmInitDoes, cpus, VmRuns, Disabled

SpawnDoes(t) ==
    /\ VmRuns /\ status[t] = "free"
    /\ status' = [status EXCEPT ![t] = "live"] /\ todo' = [todo EXCEPT ![t] = Start]
    /\ UNCHANGED <<free_area_start, reserved, num_free, static_end, table, current, tlb, asid,
                   left, panic>>

LEMMA SpawnFacts == ASSUME NEW t \in Thread, Spawn(t) PROVE SpawnDoes(t)
  BY DEF Spawn, SpawnDoes, pool, cpus

\* The TLB of processor c has the page table tb.
Filled(c, tb) ==
    /\ asid' = [asid EXCEPT ![c] = tb.asid]
    /\ \A d \in Cpu : d # c => tlb'[d] = tlb[d]
    /\ tlb' \in [Cpu -> [1..TlbSize -> Entry]]
    /\ \A i \in 1..TlbSize :
          tlb'[c][i] = IF i \in DOMAIN tb.entries THEN tb.entries[i] ELSE tlb[c][i]

LEMMA FillFacts ==
    ASSUME TypeOK, NEW c \in Cpu, NEW tb \in Pagetable, TlbFill(c, tb), tb # NoTable
    PROVE  Filled(c, tb)
<1>1. PICK es : es = tb.entries /\ es \in Seq(Entry) /\ DOMAIN es = 1 .. Len(es) /\ Len(es) \in Nat
  BY TableParts
<1>2. tlb \in [Cpu -> [1..TlbSize -> Entry]]
  BY DEF TypeOK
<1>3. PICK row : row = [i \in 1..TlbSize |-> IF i <= Len(es) THEN es[i] ELSE tlb[c][i]]
  OBVIOUS
<1>4. tlb' = [tlb EXCEPT ![c] = row] /\ asid' = [asid EXCEPT ![c] = tb.asid]
  BY <1>1, <1>3 DEF TlbFill
<1>5. \A i \in 1..TlbSize : i <= Len(es) <=> i \in DOMAIN es
  BY <1>1, MemoryAssumption
<1>6. row \in [1..TlbSize -> Entry]
  <2>1. \A i \in 1..TlbSize : tlb[c][i] \in Entry
    BY <1>2
  <2>2. \A i \in DOMAIN es : es[i] \in Entry
    BY <1>1
  <2> QED BY <1>3, <1>5, <2>1, <2>2
<1>7. \A i \in 1..TlbSize : row[i] = IF i \in DOMAIN es THEN es[i] ELSE tlb[c][i]
  BY <1>3, <1>5
<1> QED BY <1>1, <1>2, <1>4, <1>6, <1>7 DEF Filled

SwitchDoes(c, t) ==
    /\ VmRuns
    /\ t # Idle => t \in Thread /\ status[t] = "live" /\ \A d \in Cpu \ {c} : current[d] # t
    /\ current' = [current EXCEPT ![c] = t]
    /\ status' = [u \in Thread |->
            IF u = current[c] /\ status[u] = "dying" THEN "free" ELSE status[u]]
    /\ \/ t = Idle /\ UNCHANGED <<tlb, asid>>
       \/ t \in Thread /\ table[t] = NoTable /\ UNCHANGED <<tlb, asid>>
       \/ t \in Thread /\ table[t] # NoTable /\ Filled(c, table[t])
    /\ UNCHANGED <<free_area_start, reserved, num_free, static_end, table, todo, left, panic>>

LEMMA SwitchFacts ==
    ASSUME IInv, NEW c \in Cpu, NEW t \in Owner, Switch(c, t) PROVE SwitchDoes(c, t)
<1>1. /\ VmRuns /\ (t = Idle \/ (t \in Thread /\ Runnable(c, t)))
      /\ current' = [current EXCEPT ![c] = t]
      /\ status' = [u \in Thread |->
              IF u = current[c] /\ status[u] = "dying" THEN "free" ELSE status[u]]
      /\ TlbFill(c, IF t = Idle THEN NoTable ELSE table[t])
      /\ UNCHANGED <<free_area_start, pool, table, todo, left, panic>>
  BY DEF Switch
<1>2. TypeOK
  BY DEF IInv
<1>3. CASE t = Idle
  <2>1. UNCHANGED <<tlb, asid>>
    BY <1>1, <1>3 DEF TlbFill
  <2> QED BY <1>1, <1>3, <2>1 DEF SwitchDoes, pool
<1>4. CASE t # Idle
  <2>1. t \in Thread /\ Runnable(c, t) /\ TlbFill(c, table[t]) /\ table[t] \in Pagetable
    BY <1>1, <1>2, <1>4 DEF TypeOK
  <2>2. \/ table[t] = NoTable /\ UNCHANGED <<tlb, asid>>
        \/ table[t] # NoTable /\ Filled(c, table[t])
    <3>1. CASE table[t] = NoTable
      BY <2>1, <3>1 DEF TlbFill
    <3>2. CASE table[t] # NoTable
      BY <1>2, <2>1, <3>2, FillFacts
    <3> QED BY <3>1, <3>2
  <2> QED BY <1>1, <1>4, <2>1, <2>2 DEF SwitchDoes, Runnable, pool
<1> QED BY <1>3, <1>4

\* The page table of thread t becomes tb.
NewTable(t, tb) == tb \in Pagetable /\ table' = [table EXCEPT ![t] = tb]

CreateDoes(c, t) ==
    /\ VmRuns /\ current[c] = t /\ status[t] = "live" /\ todo[t] = Start
    /\ \E p \in Page, tb \in Pagetable :
          GotPage(p) /\ NewTable(t, tb) /\ tb.page = p /\ tb.asid = t /\ tb.entries = <<>>
    /\ todo' = [todo EXCEPT ![t] = One("open")]
    /\ asid' = [asid EXCEPT ![c] = t]
    /\ UNCHANGED <<free_area_start, status, current, tlb, left, panic>>

LEMMA CreateFacts ==
    ASSUME IInv, NEW c \in Cpu, NEW t \in Thread, CreatePagetable(c, t), ~ Panic
    PROVE  CreateDoes(c, t)
<1>1. /\ AtStep(c, t, {"create"}) /\ GetPage
      /\ table' = [table EXCEPT ![t] = [page |-> FirstFree, asid |-> t, entries |-> <<>>]]
      /\ asid' = [asid EXCEPT ![c] = t] /\ Done(t)
      /\ UNCHANGED <<free_area_start, status, current, tlb, left, panic>>
  BY DEF CreatePagetable
<1>2. VmRuns /\ current[c] = t /\ status[t] = "live" /\ todo[t] = Start
  BY <1>1, AtStepFacts DEF StepOps
<1>3. GotPage(FirstFree)
  BY <1>1, <1>2, GetPageFacts
<1>4. PICK p \in Page : p = FirstFree
  BY <1>3 DEF GotPage
<1>5. PICK tb : tb = [page |-> p, asid |-> t, entries |-> <<>>]
  OBVIOUS
<1>6. tb \in Pagetable /\ tb.page = p /\ tb.asid = t /\ tb.entries = <<>>
  BY <1>5 DEF Pagetable, Owner
<1>7. Tail(Start) = One("open")
  BY DEF Start, One, Do
<1>8. todo' = [todo EXCEPT ![t] = One("open")]
  BY <1>1, <1>2, <1>7 DEF Done
<1> QED BY <1>1, <1>2, <1>3, <1>4, <1>5, <1>6, <1>8 DEF CreateDoes, NewTable

\* The steps of thread t become s.
NewSteps(t, s) == s \in Seq(Step) /\ todo' = [todo EXCEPT ![t] = s]

\* Steps that end with the filling of the TLB, and map at most n pages.
FitSteps(s, n) ==
    /\ \A i \in DOMAIN s : s[i].op \in LoadOps
    /\ Cardinality(MapSteps(s)) <= n
    /\ s # <<>> => s[Len(s)].op = "fill"

OpenDoes(c, t) ==
    /\ VmRuns /\ current[c] = t /\ status[t] = "live"
    /\ table[t] # NoTable /\ table[t].entries = <<>>
    /\ \E s \in Seq(Step) : NewSteps(t, s) /\ FitSteps(s, TlbSize) /\ s # <<>>
    /\ UNCHANGED <<free_area_start, reserved, num_free, static_end, status, table, current, tlb,
                   asid, left, panic>>

LEMMA OpenFacts ==
    ASSUME IInv, NEW c \in Cpu, NEW t \in Thread, NEW f \in Files \cup {NoFile},
           OpenProgram(c, t, f), ~ Panic
    PROVE  OpenDoes(c, t)
<1>1. f # NoFile
  BY DEF OpenProgram
<1>2. f \in Files
  BY <1>1
<1>3. PICK ro \in SegmentType, rw \in SegmentType : ro = Segment(f, FALSE) /\ rw = Segment(f, TRUE)
  BY <1>2, SegmentFacts
<1>4. PICK s : s = LoadSteps(ro, rw)
  OBVIOUS
<1>5. /\ AtStep(c, t, {"open"}) /\ FitsTlb(ro, rw)
      /\ todo' = [todo EXCEPT ![t] = s]
      /\ UNCHANGED <<free_area_start, pool, status, table, cpus, left, panic>>
  BY <1>1, <1>3, <1>4 DEF OpenProgram
<1>6. /\ VmRuns /\ current[c] = t /\ status[t] = "live"
      /\ table[t] # NoTable /\ table[t].entries = <<>>
  BY <1>5, AtStepFacts DEF StepOps
<1>7. /\ s \in Seq(LoadStep) /\ s # <<>> /\ s[Len(s)].op = "fill"
      /\ Cardinality(MapSteps(s)) <= ro.pages + rw.pages + StackSize
  BY <1>4, LoadStepsFacts
<1>8. s \in Seq(Step)
  BY <1>7, LoadStepIsStep
<1>9. \A i \in DOMAIN s : s[i].op \in LoadOps
  <2>1. \A i \in DOMAIN s : s[i] \in LoadStep
    BY <1>7
  <2> QED BY <2>1 DEF LoadStep
<1>10. Cardinality(MapSteps(s)) <= TlbSize
  <2>1. /\ ro.pages + rw.pages + StackSize \in Nat /\ TlbSize \in Nat
        /\ ro.pages + rw.pages + StackSize <= TlbSize
    BY <1>5, MemoryAssumption DEF FitsTlb, SegmentType
  <2>2. Cardinality(MapSteps(s)) \in Nat
    BY <1>8, MapStepsFinite
  <2> QED BY <1>7, <2>1, <2>2
<1>11. FitSteps(s, TlbSize) /\ NewSteps(t, s)
  BY <1>5, <1>7, <1>8, <1>9, <1>10 DEF FitSteps, NewSteps
<1> QED BY <1>5, <1>6, <1>7, <1>8, <1>11 DEF OpenDoes, pool, cpus

\* A step of the loading is done: what is left to map has got no more, or one
\* less if a page was mapped, and nothing is left only after a fill.
LoadDone(t, op) ==
    /\ Loading(t)
    /\ \E s \in Seq(Step) :
          /\ NewSteps(t, s)
          /\ \A i \in DOMAIN s : s[i].op \in LoadOps
          /\ s # <<>> => s[Len(s)].op = "fill"
          /\ s = <<>> => op = "fill"
          /\ Cardinality(MapSteps(s)) <= Cardinality(MapSteps(todo[t]))
          /\ op = "map" => Cardinality(MapSteps(s)) + 1 <= Cardinality(MapSteps(todo[t]))

LEMMA DoneFacts ==
    ASSUME IInv, NEW t \in Thread, todo[t] # <<>>, Loading(t), Done(t)
    PROVE  LoadDone(t, Head(todo[t]).op)
<1>1. PICK o \in Seq(Step) : o = todo[t] /\ o # <<>>
  BY DEF IInv, TypeOK
<1>2. PICK s : s = Tail(o)
  OBVIOUS
<1>3. /\ s \in Seq(Step)
      /\ \A i \in DOMAIN s : i + 1 \in DOMAIN o /\ s[i] = o[i + 1]
      /\ s # <<>> => s[Len(s)] = o[Len(o)]
      /\ s = <<>> => Head(o) = o[Len(o)]
      /\ Cardinality(MapSteps(s)) <= Cardinality(MapSteps(o))
      /\ Head(o).op = "map" => Cardinality(MapSteps(s)) + 1 <= Cardinality(MapSteps(o))
  BY <1>1, <1>2, TailFacts
<1>4. (\A i \in DOMAIN o : o[i].op \in LoadOps) /\ o[Len(o)].op = "fill"
  BY <1>1 DEF Loading
<1>5. /\ \A i \in DOMAIN s : s[i].op \in LoadOps
      /\ s # <<>> => s[Len(s)].op = "fill"
      /\ s = <<>> => Head(o).op = "fill"
  BY <1>3, <1>4
<1>6. NewSteps(t, s)
  BY <1>1, <1>2, <1>3 DEF NewSteps, Done
<1> QED BY <1>1, <1>3, <1>5, <1>6 DEF LoadDone

MapDoes(c, t) ==
    /\ VmRuns /\ current[c] = t /\ status[t] = "live" /\ LoadDone(t, "map")
    /\ \E p \in Page, tb \in Pagetable : GotPage(p) /\ NewTable(t, tb) /\ OnePageMore(table[t], tb, p)
    /\ UNCHANGED <<free_area_start, status, current, tlb, asid, left, panic>>

LEMMA MapFacts ==
    ASSUME IInv, NEW c \in Cpu, NEW t \in Thread, MapPage(c, t), ~ Panic PROVE MapDoes(c, t)
<1>1. PICK v : v = Head(todo[t]).v
  OBVIOUS
<1>2. /\ AtStep(c, t, {"map"}) /\ CanMap(table[t], v) /\ GetPage /\ Done(t)
      /\ table' = [table EXCEPT ![t] = VmMap(table[t], FirstFree, v, TRUE)]
      /\ UNCHANGED <<free_area_start, status, cpus, left, panic>>
  BY <1>1 DEF MapPage
<1>3. /\ VmRuns /\ current[c] = t /\ status[t] = "live" /\ v \in Nat /\ Loading(t)
      /\ todo[t] # <<>> /\ Head(todo[t]).op = "map"
  BY <1>1, <1>2, AtStepFacts DEF StepOps, LoadOps
<1>4. LoadDone(t, "map")
  BY <1>2, <1>3, DoneFacts
<1>5. GotPage(FirstFree)
  BY <1>2, <1>3, GetPageFacts
<1>6. PICK p \in Page : p = FirstFree
  BY <1>5 DEF GotPage
<1>7. PICK old \in Pagetable : old = table[t]
  BY DEF IInv, TypeOK
<1>8. PICK tb : tb = VmMap(old, p, v, TRUE)
  OBVIOUS
<1>9. CanMap(old, v)
  BY <1>2, <1>7
<1>10. tb \in Pagetable /\ OnePageMore(old, tb, p)
  BY <1>3, <1>8, <1>9, VmMapFacts
<1>11. NewTable(t, tb)
  BY <1>2, <1>6, <1>7, <1>8, <1>10 DEF NewTable
<1> QED BY <1>2, <1>3, <1>4, <1>5, <1>6, <1>7, <1>10, <1>11 DEF MapDoes, cpus

FillDoes(c, t) ==
    /\ VmRuns /\ current[c] = t /\ status[t] = "live" /\ LoadDone(t, "fill")
    /\ Filled(c, table[t])
    /\ UNCHANGED <<free_area_start, reserved, num_free, static_end, status, table, current, left, panic>>

LEMMA FillTlbFacts ==
    ASSUME IInv, NEW c \in Cpu, NEW t \in Thread, FillTlb(c, t) PROVE FillDoes(c, t)
<1>1. /\ AtStep(c, t, {"fill"}) /\ TlbFill(c, table[t]) /\ Done(t)
      /\ UNCHANGED <<free_area_start, pool, status, table, current, left, panic>>
  BY DEF FillTlb
<1>2. /\ VmRuns /\ current[c] = t /\ status[t] = "live" /\ Loading(t)
      /\ todo[t] # <<>> /\ Head(todo[t]).op = "fill"
  BY <1>1, AtStepFacts DEF StepOps, LoadOps
<1>3. LoadDone(t, "fill")
  BY <1>1, <1>2, DoneFacts
<1>4. table[t] # NoTable /\ table[t] \in Pagetable /\ TypeOK
  BY <1>2 DEF Loading, IInv, TypeOK
<1>5. Filled(c, table[t])
  BY <1>1, <1>4, FillFacts
<1> QED BY <1>1, <1>2, <1>3, <1>5 DEF FillDoes, pool

StoreDoes(c, t) ==
    /\ VmRuns /\ current[c] = t /\ status[t] = "live"
    /\ \E op \in {"zero", "copy"} : LoadDone(t, op)
    /\ UNCHANGED <<free_area_start, reserved, num_free, static_end, status, table, current, tlb,
                   asid, left, panic>>

LEMMA StoreFacts ==
    ASSUME IInv, NEW c \in Cpu, NEW t \in Thread, StorePage(c, t), ~ Panic PROVE StoreDoes(c, t)
<1>1. /\ AtStep(c, t, {"zero", "copy"}) /\ Done(t)
      /\ UNCHANGED <<free_area_start, pool, status, table, cpus, left, panic>>
  BY DEF StorePage
<1>2. /\ VmRuns /\ current[c] = t /\ status[t] = "live" /\ Loading(t)
      /\ todo[t] # <<>> /\ Head(todo[t]).op \in {"zero", "copy"}
  BY <1>1, AtStepFacts DEF StepOps, LoadOps
<1>3. LoadDone(t, Head(todo[t]).op)
  BY <1>1, <1>2, DoneFacts
<1> QED BY <1>1, <1>2, <1>3 DEF StoreDoes, pool, cpus

ProtectDoes(c, t) ==
    /\ VmRuns /\ current[c] = t /\ status[t] = "live" /\ LoadDone(t, "protect")
    /\ \E tb \in Pagetable : NewTable(t, tb) /\ SamePages(table[t], tb)
    /\ UNCHANGED <<free_area_start, reserved, num_free, static_end, status, current, tlb, asid,
                   left, panic>>

LEMMA ProtectFacts ==
    ASSUME IInv, NEW c \in Cpu, NEW t \in Thread, ProtectPage(c, t) PROVE ProtectDoes(c, t)
<1>1. PICK v : v = Head(todo[t]).v
  OBVIOUS
<1>2. /\ AtStep(c, t, {"protect"}) /\ Done(t)
      /\ table' = [table EXCEPT ![t] = VmSetDirty(table[t], v, FALSE)]
      /\ UNCHANGED <<free_area_start, pool, status, cpus, left, panic>>
  BY <1>1 DEF ProtectPage
<1>3. /\ VmRuns /\ current[c] = t /\ status[t] = "live" /\ Loading(t) /\ v \in Nat
      /\ todo[t] # <<>> /\ Head(todo[t]).op = "protect"
  BY <1>1, <1>2, AtStepFacts DEF StepOps, LoadOps
<1>4. LoadDone(t, "protect")
  BY <1>2, <1>3, DoneFacts
<1>5. PICK old \in Pagetable : old = table[t]
  BY DEF IInv, TypeOK
<1>6. PICK tb : tb = VmSetDirty(old, v, FALSE)
  OBVIOUS
<1>7. tb \in Pagetable /\ SamePages(old, tb)
  BY <1>3, <1>6, VmSetDirtyFacts
<1>8. NewTable(t, tb)
  BY <1>2, <1>5, <1>6, <1>7 DEF NewTable
<1> QED BY <1>2, <1>3, <1>4, <1>5, <1>7, <1>8 DEF ProtectDoes, pool, cpus

FinishDoes(c, t) ==
    /\ VmRuns /\ current[c] = t /\ status[t] = "live" /\ table[t] # NoTable
    /\ table[t].page >= static_end /\ table[t].page \in reserved
    /\ reserved' = reserved \ {table[t].page} /\ static_end' = static_end
    /\ num_free' \in 0 .. NumPages /\ num_free' = Cardinality(Page \ reserved')
    /\ table' = [table EXCEPT ![t] = NoTable]
    /\ status' = [status EXCEPT ![t] = "dying"]
    /\ left' = [left EXCEPT ![t] = left[t] \cup PagesOf(table[t])]
    /\ UNCHANGED <<free_area_start, todo, current, tlb, asid, panic>>

LEMMA FinishFacts ==
    ASSUME IInv, NEW c \in Cpu, NEW t \in Thread, Finish(c, t) PROVE FinishDoes(c, t)
<1>1. PICK p : p = table[t].page
  OBVIOUS
<1>2. /\ InUserland(c, t) /\ p >= static_end /\ p \in reserved
      /\ reserved' = reserved \ {p} /\ num_free' = num_free + 1 /\ static_end' = static_end
      /\ table' = [table EXCEPT ![t] = NoTable]
      /\ status' = [status EXCEPT ![t] = "dying"]
      /\ left' = [left EXCEPT ![t] = left[t] \cup PagesOf(table[t])]
      /\ UNCHANGED <<free_area_start, todo, cpus, panic>>
  BY <1>1 DEF Finish, DestroyPagetable, FreePage
<1>3. VmRuns /\ current[c] = t /\ status[t] = "live" /\ table[t] # NoTable
  BY <1>2, InUserlandFacts DEF Loading
<1>4. reserved \subseteq Page /\ num_free = Cardinality(Page \ reserved)
  BY <1>3 DEF IInv, TypeOK, PoolSound
<1>5. Cardinality(Page \ (reserved \ {p})) = Cardinality(Page \ reserved) + 1
  BY <1>2, <1>4, FreePageCount
<1>6. reserved \ {p} \in SUBSET Page
  BY <1>4
<1>7. Cardinality(Page \ (reserved \ {p})) \in 0 .. NumPages
  BY <1>6, FreeCountBound
<1>8. num_free' = Cardinality(Page \ (reserved \ {p}))
  BY <1>2, <1>4, <1>5
<1> QED BY <1>1, <1>2, <1>3, <1>7, <1>8 DEF FinishDoes, cpus

---------------------------------------------------------------------------
(* How the actions change the use of the pages.                              *)

LEMMA PageAtIs ==
    \A t \in Thread, i \in 0..TlbSize, h \in 1..2 :
        /\ PageAt(t, i, h) = IF i = 0 THEN table[t].page ELSE At(table[t].entries, i, h)
        /\ PageAt(t, i, h)' = IF i = 0 THEN table'[t].page ELSE At(table'[t].entries, i, h)
  BY DEF PageAt, At

UsesKept ==
    \A u \in Thread, i \in 0..TlbSize, h \in 1..2 : PageAt(u, i, h)' = PageAt(u, i, h)

LEMMA SameUses == ASSUME table' = table PROVE UsesKept
  BY PageAtIs DEF UsesKept

\* Thread t has a table of its own on page p and nothing else, or with p = 0
\* nothing at all.
UsesOnly(t, p) ==
    \A u \in Thread, i \in 0..TlbSize, h \in 1..2 :
        PageAt(u, i, h)' = IF u = t THEN (IF i = 0 THEN p ELSE 0) ELSE PageAt(u, i, h)

LEMMA TableUses ==
    ASSUME TypeOK, NEW t \in Thread, NEW tb, table' = [table EXCEPT ![t] = tb], tb.entries = <<>>
    PROVE  UsesOnly(t, tb.page)
<1>1. \A u \in Thread : table'[u] = IF u = t THEN tb ELSE table[u]
  BY DEF TypeOK
<1>2. \A i, h : At(<<>>, i, h) = 0
  BY DEF At
<1> QED BY <1>1, <1>2, PageAtIs DEF UsesOnly

\* Thread t uses page p, too.
UsesMore(t, p) ==
    \E n \in Nat \ {0}, m \in 1..2 :
        /\ n \in 0..TlbSize => PageAt(t, n, m) = 0
        /\ \A u \in Thread, i \in 0..TlbSize, h \in 1..2 :
              PageAt(u, i, h)' = IF u = t /\ i = n /\ h = m THEN p ELSE PageAt(u, i, h)

LEMMA MapUses ==
    ASSUME TypeOK, NEW t \in Thread, NEW tb, NEW p,
           table' = [table EXCEPT ![t] = tb], OnePageMore(table[t], tb, p)
    PROVE  UsesMore(t, p)
<1>1. \A u \in Thread : table'[u] = IF u = t THEN tb ELSE table[u]
  BY DEF TypeOK
<1>2. tb.page = table[t].page
  BY DEF OnePageMore
<1>3. PICK n \in Nat \ {0}, m \in 1..2 :
         /\ At(table[t].entries, n, m) = 0
         /\ \A i \in Nat, h \in 1..2 :
               At(tb.entries, i, h) = IF i = n /\ h = m THEN p ELSE At(table[t].entries, i, h)
  BY DEF OnePageMore, Puts
<1>4. n \in 0..TlbSize => PageAt(t, n, m) = 0
  BY <1>3, PageAtIs
<1>5. ASSUME NEW u \in Thread, NEW i \in 0..TlbSize, NEW h \in 1..2
      PROVE  PageAt(u, i, h)' = IF u = t /\ i = n /\ h = m THEN p ELSE PageAt(u, i, h)
  <2>1. i \in Nat
    BY MemoryAssumption
  <2>2. CASE i = 0
    BY <1>1, <1>2, <2>2, PageAtIs
  <2>3. CASE i # 0
    BY <1>1, <1>3, <2>1, <2>3, PageAtIs
  <2> QED BY <2>2, <2>3
<1> QED BY <1>4, <1>5 DEF UsesMore

LEMMA ProtectUses ==
    ASSUME TypeOK, NEW t \in Thread, NEW tb,
           table' = [table EXCEPT ![t] = tb], SamePages(table[t], tb)
    PROVE  UsesKept
<1>1. \A u \in Thread : table'[u] = IF u = t THEN tb ELSE table[u]
  BY DEF TypeOK
<1>2. /\ tb.page = table[t].page
      /\ \A i \in 0..TlbSize, h \in 1..2 : At(tb.entries, i, h) = At(table[t].entries, i, h)
  BY MemoryAssumption DEF SamePages
<1> QED BY <1>1, <1>2, PageAtIs DEF UsesKept

LEMMA NoTableFacts ==
    /\ NoTable \in Pagetable /\ NoTable.page = 0 /\ NoTable.asid = Idle
    /\ NoTable.entries = <<>> /\ Idle \notin Thread
  BY MemoryAssumption DEF NoTable, Pagetable, Page, Owner

---------------------------------------------------------------------------
(* The invariant holds initially, and after a panic.                         *)

Reset ==
    /\ free_area_start = 0 /\ reserved = {} /\ num_free = 0 /\ static_end = 0
    /\ status = Each(Thread, "free") /\ table = Each(Thread, NoTable)
    /\ todo = Each(Thread, <<>>)
    /\ current = Each(Cpu, Idle) /\ tlb = Each(Cpu, EmptyTlb) /\ asid = Each(Cpu, Idle)
    /\ panic \in BOOLEAN /\ left = Each(Thread, {})

LEMMA ResetInv == Reset => IInv
<1> SUFFICES ASSUME Reset PROVE IInv
  OBVIOUS
<1>1. /\ ~ VmRuns /\ reserved = {}
      /\ \A t \in Thread : status[t] = "free" /\ table[t] = NoTable /\ todo[t] = <<>>
      /\ \A c \in Cpu : current[c] = Idle /\ asid[c] = Idle /\ tlb[c] = EmptyTlb
  BY DEF Reset, Each, VmRuns, Disabled
<1>2. NoEntry \in Entry /\ \A h \in 1..2 : NoEntry.pfn[h] = 0
  <2>1. PICK q \in [1..2 -> Page] : q = Each(1..2, 0) /\ \A h \in 1..2 : q[h] = 0
    BY NoPages
  <2>2. PICK d \in [1..2 -> BOOLEAN] : d = Each(1..2, FALSE)
    BY NoBits
  <2>3. NoEntry = [vpn2 |-> 0, asid |-> Idle, pfn |-> q, dirty |-> d]
    BY <2>1, <2>2 DEF NoEntry
  <2>4. Idle \in Owner
    BY DEF Owner
  <2> QED BY <2>1, <2>3, <2>4, MakeEntry
<1>3. EmptyTlb \in [1..TlbSize -> Entry] /\ \A i \in 1..TlbSize : EmptyTlb[i] = NoEntry
  BY <1>2 DEF EmptyTlb
<1>4. TypeOK
  <2>1. /\ free_area_start \in Disabled .. NumPages * PageSize /\ panic \in BOOLEAN
        /\ reserved \subseteq Page
        /\ num_free \in 0..NumPages /\ static_end \in 0..NumPages
    BY MemoryAssumption, MemorySize DEF Reset, Disabled
  <2>2. /\ status \in [Thread -> {"free", "live", "dying"}]
        /\ current \in [Cpu -> Owner] /\ asid \in [Cpu -> Owner]
        /\ tlb \in [Cpu -> [1..TlbSize -> Entry]]
        /\ left \in [Thread -> SUBSET Page]
    BY <1>3 DEF Reset, Each, Owner
  <2>3. table \in [Thread -> Pagetable] /\ todo \in [Thread -> Seq(Step)]
    BY NoTableFacts DEF Reset, Each
  <2>4. \A t \in Thread : Len(table[t].entries) <= TlbSize
    BY <1>1, NoTableFacts, MemoryAssumption
  <2> QED BY <2>1, <2>2, <2>3, <2>4 DEF TypeOK
<1>5. ThreadInv /\ StepsInv /\ AsidInv /\ KernelInv
  BY <1>1, NoTableFacts DEF ThreadInv, StepsInv, AsidInv, KernelInv
<1>6. PoolSound /\ RunsInItsSpace
  BY <1>1 DEF PoolSound, RunsInItsSpace, InUserland
<1>7. RowInv
  <2>1. \A c \in Cpu, i \in 1..TlbSize, h \in 1..2 : tlb[c][i].pfn[h] = 0
    BY <1>1, <1>2, <1>3
  <2> QED BY <2>1 DEF RowInv
<1> QED BY <1>4, <1>5, <1>6, <1>7 DEF IInv

LEMMA InitInv == Init => IInv
  BY ResetInv DEF Init, Reset

LEMMA PanicInv == Panic => IInv'
<1>1. Panic => Reset'
  BY DEF Panic, Reset
<1>2. Reset' => IInv'
  BY ResetInv, PTL
<1> QED BY <1>1, <1>2

---------------------------------------------------------------------------
(* Every step has one of these effects.                                      *)

Effect ==
    \/ UNCHANGED vars
    \/ Panic
    \/ KmallocDoes
    \/ VmInitDoes
    \/ \E t \in Thread : SpawnDoes(t)
    \/ \E c \in Cpu, t \in Owner : SwitchDoes(c, t)
    \/ \E c \in Cpu, t \in Thread : CreateDoes(c, t)
    \/ \E c \in Cpu, t \in Thread : OpenDoes(c, t)
    \/ \E c \in Cpu, t \in Thread : MapDoes(c, t)
    \/ \E c \in Cpu, t \in Thread : FillDoes(c, t)
    \/ \E c \in Cpu, t \in Thread : StoreDoes(c, t)
    \/ \E c \in Cpu, t \in Thread : ProtectDoes(c, t)
    \/ \E c \in Cpu, t \in Thread : FinishDoes(c, t)

LEMMA NextEffect == IInv /\ [Next]_vars => Effect
<1> SUFFICES ASSUME IInv, [Next]_vars PROVE Effect
  OBVIOUS
<1>1. CASE UNCHANGED vars
  BY <1>1 DEF Effect
<1>2. CASE Panic
  BY <1>2 DEF Effect
<1>3. ASSUME KmallocInit PROVE Effect
  BY <1>3, KmallocInitFacts DEF Effect
<1>4. ASSUME VmInit, ~ Panic PROVE Effect
  BY <1>4, VmInitFacts DEF Effect
<1>5. ASSUME NEW b \in KmallocSizes, Kmalloc(b), ~ Panic PROVE Effect
  BY <1>5, KmallocFacts DEF Effect
<1>6. ASSUME NEW t \in Thread, Spawn(t) PROVE Effect
  BY <1>6, SpawnFacts DEF Effect
<1>7. ASSUME NEW c \in Cpu, NEW t \in Thread \union {Idle}, Switch(c, t) PROVE Effect
  BY <1>7, SwitchFacts DEF Effect, Owner
<1>8. ASSUME NEW c \in Cpu, NEW t \in Thread, CreatePagetable(c, t), ~ Panic PROVE Effect
  BY <1>8, CreateFacts DEF Effect
<1>9. ASSUME NEW c \in Cpu, NEW t \in Thread, NEW f \in Files \union {NoFile},
             OpenProgram(c, t, f), ~ Panic
      PROVE  Effect
  BY <1>9, OpenFacts DEF Effect
<1>10. ASSUME NEW c \in Cpu, NEW t \in Thread, MapPage(c, t), ~ Panic PROVE Effect
  BY <1>10, MapFacts DEF Effect
<1>11. ASSUME NEW c \in Cpu, NEW t \in Thread, FillTlb(c, t) PROVE Effect
  BY <1>11, FillTlbFacts DEF Effect
<1>12. ASSUME NEW c \in Cpu, NEW t \in Thread, StorePage(c, t), ~ Panic PROVE Effect
  BY <1>12, StoreFacts DEF Effect
<1>13. ASSUME NEW c \in Cpu, NEW t \in Thread, ProtectPage(c, t) PROVE Effect
  BY <1>13, ProtectFacts DEF Effect
<1>14. ASSUME NEW c \in Cpu, NEW t \in Thread, NEW v \in VPages, NEW w \in BOOLEAN,
              UserException(c, t, v, w)
       PROVE  Panic
  BY <1>14 DEF UserException
<1>15. ASSUME NEW c \in Cpu, NEW t \in Thread, Finish(c, t) PROVE Effect
  BY <1>15, FinishFacts DEF Effect
<1> QED BY <1>1, <1>2, <1>3, <1>4, <1>5, <1>6, <1>7, <1>8, <1>9, <1>10, <1>11, <1>12, <1>13,
           <1>14, <1>15 DEF Next

---------------------------------------------------------------------------
(* The parts of the invariant, one by one.                                   *)

LEMMA TypeStep == ASSUME IInv, Effect PROVE TypeOK'
<1> USE NoTableFacts
<1>1. CASE UNCHANGED vars
  BY <1>1 DEF IInv, vars, pool, cpus, TypeOK
<1>2. CASE Panic
  BY <1>2, PanicInv DEF IInv
<1>3. ASSUME KmallocDoes PROVE TypeOK'
  BY <1>3, MemorySize DEF KmallocDoes, IInv, TypeOK, Disabled
<1>4. ASSUME VmInitDoes PROVE TypeOK'
  <2>1. TypeOK /\ VmInitDoes
    BY <1>4 DEF IInv
  <2>2. free_area_start' \in Disabled .. NumPages * PageSize
    BY <2>1, MemorySize DEF VmInitDoes, Disabled, VmRuns
  <2>3. reserved' \subseteq Page /\ static_end' \in 0 .. NumPages
    <3>1. PICK k \in 1 .. NumPages : static_end' = k /\ reserved' = 0 .. k - 1
      BY <2>1 DEF VmInitDoes
    <3>2. 0 .. k - 1 \subseteq 0 .. NumPages - 1 /\ k \in 0 .. NumPages
      BY MemoryAssumption
    <3> QED BY <3>1, <3>2 DEF Page
  <2> QED BY <2>1, <2>2, <2>3 DEF VmInitDoes, TypeOK
<1>5. ASSUME NEW t \in Thread, SpawnDoes(t) PROVE TypeOK'
  <2>1. Start \in Seq(Step)
    BY DEF Start, Do, Step
  <2> QED BY <1>5, <2>1 DEF SpawnDoes, IInv, TypeOK
<1>6. ASSUME NEW c \in Cpu, NEW t \in Owner, SwitchDoes(c, t) PROVE TypeOK'
  <2>1. TypeOK /\ SwitchDoes(c, t)
    BY <1>6 DEF IInv
  <2>2. status' \in [Thread -> {"free", "live", "dying"}] /\ current' \in [Cpu -> Owner]
    BY <2>1 DEF SwitchDoes, TypeOK
  <2>3. tlb' \in [Cpu -> [1..TlbSize -> Entry]] /\ asid' \in [Cpu -> Owner]
    BY <2>1 DEF SwitchDoes, TypeOK, Filled, Pagetable
  <2> QED BY <2>1, <2>2, <2>3 DEF SwitchDoes, TypeOK
<1>7. ASSUME NEW c \in Cpu, NEW t \in Thread, CreateDoes(c, t) PROVE TypeOK'
  <2>1. TypeOK /\ CreateDoes(c, t) /\ t \in Owner
    BY <1>7 DEF IInv, Owner
  <2>2. PICK p \in Page, tb \in Pagetable :
           GotPage(p) /\ NewTable(t, tb) /\ tb.page = p /\ tb.asid = t /\ tb.entries = <<>>
    BY <2>1 DEF CreateDoes
  <2>3. One("open") \in Seq(Step)
    BY DEF One, Do, Step
  <2>4. todo' \in [Thread -> Seq(Step)] /\ asid' \in [Cpu -> Owner]
    BY <2>1, <2>3 DEF CreateDoes, TypeOK
  <2>5. table' \in [Thread -> Pagetable] /\ \A u \in Thread : Len(table'[u].entries) <= TlbSize
    BY <2>1, <2>2, MemoryAssumption DEF NewTable, TypeOK
  <2>6. reserved' \subseteq Page /\ num_free' \in 0..NumPages /\ static_end' \in 0..NumPages
    BY <2>1, <2>2 DEF GotPage, TypeOK
  <2> QED BY <2>1, <2>4, <2>5, <2>6 DEF CreateDoes, TypeOK
<1>8. ASSUME NEW c \in Cpu, NEW t \in Thread, OpenDoes(c, t) PROVE TypeOK'
  BY <1>8 DEF OpenDoes, IInv, TypeOK, NewSteps
<1>9. ASSUME NEW c \in Cpu, NEW t \in Thread, MapDoes(c, t) PROVE TypeOK'
  <2>1. TypeOK /\ MapDoes(c, t)
    BY <1>9 DEF IInv
  <2>2. PICK p \in Page, tb \in Pagetable :
           GotPage(p) /\ NewTable(t, tb) /\ OnePageMore(table[t], tb, p)
    BY <2>1 DEF MapDoes
  <2>3. Loading(t) /\ todo' \in [Thread -> Seq(Step)] /\ todo[t] \in Seq(Step)
    BY <2>1 DEF MapDoes, LoadDone, NewSteps, TypeOK
  <2>4. Len(tb.entries) <= TlbSize
    <3>1. PICK s \in Seq(Step) : Cardinality(MapSteps(s)) + 1 <= Cardinality(MapSteps(todo[t]))
      BY <2>1 DEF MapDoes, LoadDone
    <3>2. Cardinality(MapSteps(s)) \in Nat /\ Cardinality(MapSteps(todo[t])) \in Nat
      BY <2>3, MapStepsFinite
    <3>3. table[t].entries \in Seq(Entry) /\ tb.entries \in Seq(Entry)
      BY <2>1, TableParts DEF TypeOK
    <3>4. Len(table[t].entries) \in Nat /\ Len(tb.entries) \in Nat
      BY <3>3
    <3>5. Len(table[t].entries) + Cardinality(MapSteps(todo[t])) <= TlbSize
      BY <2>3 DEF Loading
    <3>6. Len(tb.entries) <= Len(table[t].entries) + 1
      BY <2>2 DEF OnePageMore
    <3> QED BY <3>1, <3>2, <3>4, <3>5, <3>6, MemoryAssumption
  <2>5. table' \in [Thread -> Pagetable] /\ \A u \in Thread : Len(table'[u].entries) <= TlbSize
    BY <2>1, <2>2, <2>4 DEF NewTable, TypeOK
  <2>6. reserved' \subseteq Page /\ num_free' \in 0..NumPages /\ static_end' \in 0..NumPages
    BY <2>1, <2>2 DEF GotPage, TypeOK
  <2> QED BY <2>1, <2>3, <2>5, <2>6 DEF MapDoes, TypeOK
<1>10. ASSUME NEW c \in Cpu, NEW t \in Thread, FillDoes(c, t) PROVE TypeOK'
  <2>1. TypeOK /\ FillDoes(c, t)
    BY <1>10 DEF IInv
  <2>2. todo' \in [Thread -> Seq(Step)]
    BY <2>1 DEF FillDoes, LoadDone, NewSteps, TypeOK
  <2>3. tlb' \in [Cpu -> [1..TlbSize -> Entry]] /\ asid' \in [Cpu -> Owner]
    BY <2>1 DEF FillDoes, TypeOK, Filled, Pagetable
  <2> QED BY <2>1, <2>2, <2>3 DEF FillDoes, TypeOK
<1>11. ASSUME NEW c \in Cpu, NEW t \in Thread, StoreDoes(c, t) PROVE TypeOK'
  BY <1>11 DEF StoreDoes, LoadDone, NewSteps, IInv, TypeOK
<1>12. ASSUME NEW c \in Cpu, NEW t \in Thread, ProtectDoes(c, t) PROVE TypeOK'
  <2>1. TypeOK /\ ProtectDoes(c, t)
    BY <1>12 DEF IInv
  <2>2. PICK tb \in Pagetable : NewTable(t, tb) /\ SamePages(table[t], tb)
    BY <2>1 DEF ProtectDoes
  <2>3. todo' \in [Thread -> Seq(Step)]
    BY <2>1 DEF ProtectDoes, LoadDone, NewSteps, TypeOK
  <2>4. table' \in [Thread -> Pagetable] /\ \A u \in Thread : Len(table'[u].entries) <= TlbSize
    BY <2>1, <2>2 DEF NewTable, SamePages, TypeOK
  <2> QED BY <2>1, <2>3, <2>4 DEF ProtectDoes, TypeOK
<1>13. ASSUME NEW c \in Cpu, NEW t \in Thread, FinishDoes(c, t) PROVE TypeOK'
  <2>1. TypeOK /\ PagesOf(table[t]) \subseteq Page
    BY MemoryAssumption DEF IInv, PagesOf, Page
  <2>2. left' \in [Thread -> SUBSET Page]
    BY <1>13, <2>1 DEF FinishDoes, TypeOK
  <2> QED BY <1>13, <2>1, <2>2, MemoryAssumption DEF FinishDoes, TypeOK
<1> QED BY <1>1, <1>2, <1>3, <1>4, <1>5, <1>6, <1>7, <1>8, <1>9, <1>10, <1>11,
         <1>12, <1>13 DEF Effect

LEMMA ThreadStep == ASSUME IInv, Effect PROVE ThreadInv'
<1> USE NoTableFacts
<1>1. CASE UNCHANGED vars
  BY <1>1 DEF IInv, vars, pool, cpus, ThreadInv, VmRuns
<1>2. CASE Panic
  BY <1>2, PanicInv DEF IInv
<1>3. ASSUME KmallocDoes PROVE ThreadInv'
  BY <1>3, MemorySize DEF KmallocDoes, IInv, ThreadInv, VmRuns, Disabled
<1>4. ASSUME VmInitDoes PROVE ThreadInv'
  BY <1>4 DEF VmInitDoes, IInv, ThreadInv, VmRuns
<1>5. ASSUME NEW t \in Thread, SpawnDoes(t) PROVE ThreadInv'
  BY <1>5 DEF SpawnDoes, IInv, ThreadInv, TypeOK, VmRuns
<1>6. ASSUME NEW c \in Cpu, NEW t \in Owner, SwitchDoes(c, t) PROVE ThreadInv'
  <2>1. TypeOK /\ ThreadInv /\ SwitchDoes(c, t)
    BY <1>6 DEF IInv
  <2>2. VmRuns' /\ UNCHANGED table
    BY <2>1 DEF SwitchDoes, VmRuns
  <2>3. \A u \in Thread : table[u] # NoTable => status'[u] = "live"
    BY <2>1 DEF SwitchDoes, ThreadInv
  <2>4. \A d \in Cpu : current'[d] = IF d = c THEN t ELSE current[d]
    BY <2>1 DEF SwitchDoes, TypeOK
  <2>5. \A d, e \in Cpu : current'[d] \in Thread /\ current'[d] = current'[e] => d = e
    BY <2>1, <2>4 DEF SwitchDoes, ThreadInv
  <2>6. ASSUME NEW d \in Cpu, current'[d] \in Thread PROVE status'[current'[d]] # "free"
    <3>1. CASE d = c
      BY <2>1, <2>4, <2>6, <3>1 DEF SwitchDoes
    <3>2. CASE d # c
      BY <2>1, <2>4, <2>6, <3>2 DEF SwitchDoes, ThreadInv
    <3> QED BY <3>1, <3>2
  <2> QED BY <2>1, <2>2, <2>3, <2>5, <2>6 DEF ThreadInv
<1>7. ASSUME NEW c \in Cpu, NEW t \in Thread, CreateDoes(c, t) PROVE ThreadInv'
  BY <1>7 DEF CreateDoes, NewTable, IInv, ThreadInv, TypeOK, VmRuns
<1>8. ASSUME NEW c \in Cpu, NEW t \in Thread, OpenDoes(c, t) PROVE ThreadInv'
  BY <1>8 DEF OpenDoes, IInv, ThreadInv, VmRuns
<1>9. ASSUME NEW c \in Cpu, NEW t \in Thread, MapDoes(c, t) PROVE ThreadInv'
  <2>1. TypeOK /\ ThreadInv /\ MapDoes(c, t)
    BY <1>9 DEF IInv
  <2>2. PICK tb \in Pagetable, p \in Page : NewTable(t, tb) /\ OnePageMore(table[t], tb, p)
    BY <2>1 DEF MapDoes
  <2>3. table[t] # NoTable /\ table[t].asid = t /\ status[t] = "live"
    BY <2>1 DEF MapDoes, LoadDone, Loading, ThreadInv
  <2>4. tb.asid = t /\ \A i \in DOMAIN tb.entries : tb.entries[i].asid = t
    BY <2>1, <2>2, <2>3 DEF OnePageMore, ThreadInv
  <2>5. \A u \in Thread : table'[u] = IF u = t THEN tb ELSE table[u]
    BY <2>1, <2>2 DEF NewTable, TypeOK
  <2>6. UNCHANGED <<status, current, free_area_start>>
    BY <2>1 DEF MapDoes
  <2> QED BY <2>1, <2>3, <2>4, <2>5, <2>6 DEF ThreadInv, VmRuns
<1>10. ASSUME NEW c \in Cpu, NEW t \in Thread, FillDoes(c, t) PROVE ThreadInv'
  BY <1>10 DEF FillDoes, IInv, ThreadInv, VmRuns
<1>11. ASSUME NEW c \in Cpu, NEW t \in Thread, StoreDoes(c, t) PROVE ThreadInv'
  BY <1>11 DEF StoreDoes, IInv, ThreadInv, VmRuns
<1>12. ASSUME NEW c \in Cpu, NEW t \in Thread, ProtectDoes(c, t) PROVE ThreadInv'
  <2>1. TypeOK /\ ThreadInv /\ ProtectDoes(c, t)
    BY <1>12 DEF IInv
  <2>2. PICK tb \in Pagetable : NewTable(t, tb) /\ SamePages(table[t], tb)
    BY <2>1 DEF ProtectDoes
  <2>3. table[t] # NoTable /\ table[t].asid = t /\ status[t] = "live"
    BY <2>1 DEF ProtectDoes, LoadDone, Loading, ThreadInv
  <2>4. tb.asid = t /\ \A i \in DOMAIN tb.entries : tb.entries[i].asid = t
    BY <2>1, <2>2, <2>3 DEF SamePages, ThreadInv
  <2>5. \A u \in Thread : table'[u] = IF u = t THEN tb ELSE table[u]
    BY <2>1, <2>2 DEF NewTable, TypeOK
  <2>6. UNCHANGED <<status, current, free_area_start>>
    BY <2>1 DEF ProtectDoes
  <2> QED BY <2>1, <2>3, <2>4, <2>5, <2>6 DEF ThreadInv, VmRuns
<1>13. ASSUME NEW c \in Cpu, NEW t \in Thread, FinishDoes(c, t) PROVE ThreadInv'
  BY <1>13 DEF FinishDoes, IInv, ThreadInv, TypeOK, VmRuns
<1> QED BY <1>1, <1>2, <1>3, <1>4, <1>5, <1>6, <1>7, <1>8, <1>9, <1>10, <1>11,
         <1>12, <1>13 DEF Effect

\* A step of the loading that maps nothing keeps what StepsInv says.
LEMMA LoadDoneKeeps ==
    ASSUME TypeOK, StepsInv, NEW t \in Thread, NEW op, LoadDone(t, op),
           table'[t] # NoTable, Len(table'[t].entries) = Len(table[t].entries),
           \A u \in Thread \ {t} : table'[u] = table[u] /\ status'[u] = status[u]
    PROVE  StepsInv'
<1>1. PICK s \in Seq(Step) :
         /\ NewSteps(t, s)
         /\ \A i \in DOMAIN s : s[i].op \in LoadOps
         /\ s # <<>> => s[Len(s)].op = "fill"
         /\ Cardinality(MapSteps(s)) <= Cardinality(MapSteps(todo[t]))
  BY DEF LoadDone
<1>2. \A u \in Thread : todo'[u] = IF u = t THEN s ELSE todo[u]
  BY <1>1 DEF NewSteps, TypeOK
<1>3. Len(table'[t].entries) + Cardinality(MapSteps(s)) <= TlbSize
  <2>1. Len(table[t].entries) + Cardinality(MapSteps(todo[t])) <= TlbSize
    BY DEF LoadDone, Loading
  <2>2. Cardinality(MapSteps(s)) \in Nat /\ Cardinality(MapSteps(todo[t])) \in Nat
    BY MapStepsFinite DEF TypeOK
  <2>3. Len(table[t].entries) \in Nat
    BY DEF TypeOK, Pagetable
  <2> QED BY <1>1, <2>1, <2>2, <2>3, MemoryAssumption
<1>4. Loading(t)'
  BY <1>1, <1>2, <1>3 DEF Loading
<1>5. ASSUME NEW u \in Thread, u # t PROVE Loading(u)' <=> Loading(u)
  BY <1>2, <1>5 DEF Loading
<1> QED BY <1>2, <1>4, <1>5 DEF StepsInv

LEMMA StepsStep == ASSUME IInv, Effect PROVE StepsInv'
<1> USE NoTableFacts
<1>1. CASE UNCHANGED vars
  BY <1>1 DEF IInv, vars, pool, cpus, StepsInv, Loading
<1>2. CASE Panic
  BY <1>2, PanicInv DEF IInv
<1>3. ASSUME KmallocDoes PROVE StepsInv'
  BY <1>3 DEF KmallocDoes, IInv, StepsInv, Loading
<1>4. ASSUME VmInitDoes PROVE StepsInv'
  BY <1>4 DEF VmInitDoes, IInv, StepsInv, Loading
<1>5. ASSUME NEW t \in Thread, SpawnDoes(t) PROVE StepsInv'
  <2>1. TypeOK /\ StepsInv /\ SpawnDoes(t)
    BY <1>5 DEF IInv
  <2>2. \A u \in Thread : u # t => todo'[u] = todo[u] /\ status'[u] = status[u]
    BY <2>1 DEF SpawnDoes, TypeOK
  <2>3. todo'[t] = Start /\ UNCHANGED table
    BY <2>1 DEF SpawnDoes, TypeOK
  <2> QED BY <2>1, <2>2, <2>3 DEF StepsInv, Loading
<1>6. ASSUME NEW c \in Cpu, NEW t \in Owner, SwitchDoes(c, t) PROVE StepsInv'
  <2>1. StepsInv /\ SwitchDoes(c, t)
    BY <1>6 DEF IInv
  <2>2. \A u \in Thread : status'[u] = "live" => status[u] = "live"
    BY <2>1 DEF SwitchDoes
  <2> QED BY <2>1, <2>2 DEF SwitchDoes, StepsInv, Loading
<1>7. ASSUME NEW c \in Cpu, NEW t \in Thread, CreateDoes(c, t) PROVE StepsInv'
  <2>1. TypeOK /\ StepsInv /\ CreateDoes(c, t)
    BY <1>7 DEF IInv
  <2>2. PICK tb \in Pagetable : NewTable(t, tb) /\ tb.asid = t /\ tb.entries = <<>>
    BY <2>1 DEF CreateDoes
  <2>3. \A u \in Thread : u # t => todo'[u] = todo[u] /\ table'[u] = table[u]
    BY <2>1, <2>2 DEF CreateDoes, NewTable, TypeOK
  <2>4. todo'[t] = One("open") /\ table'[t] = tb /\ UNCHANGED status
    BY <2>1, <2>2 DEF CreateDoes, NewTable, TypeOK
  <2>5. table'[t] # NoTable /\ table'[t].entries = <<>>
    BY <2>2, <2>4
  <2> QED BY <2>1, <2>3, <2>4, <2>5 DEF StepsInv, Loading
<1>8. ASSUME NEW c \in Cpu, NEW t \in Thread, OpenDoes(c, t) PROVE StepsInv'
  <2>1. TypeOK /\ StepsInv /\ OpenDoes(c, t)
    BY <1>8 DEF IInv
  <2>2. PICK s \in Seq(Step) : NewSteps(t, s) /\ FitSteps(s, TlbSize)
    BY <2>1 DEF OpenDoes
  <2>3. \A u \in Thread : todo'[u] = IF u = t THEN s ELSE todo[u]
    BY <2>1, <2>2 DEF NewSteps, TypeOK
  <2>4. UNCHANGED <<table, status>> /\ table[t] # NoTable /\ Len(table[t].entries) = 0
    BY <2>1 DEF OpenDoes
  <2>5. Cardinality(MapSteps(s)) \in Nat
    BY MapStepsFinite
  <2>6. Loading(t)'
    BY <2>2, <2>3, <2>4, <2>5 DEF Loading, FitSteps
  <2>7. \A u \in Thread : u # t => (Loading(u)' <=> Loading(u))
    BY <2>3, <2>4 DEF Loading
  <2> QED BY <2>1, <2>3, <2>4, <2>6, <2>7 DEF StepsInv
<1>9. ASSUME NEW c \in Cpu, NEW t \in Thread, MapDoes(c, t) PROVE StepsInv'
  <2>1. TypeOK /\ StepsInv /\ MapDoes(c, t)
    BY <1>9 DEF IInv
  <2>2. PICK tb \in Pagetable, p \in Page : NewTable(t, tb) /\ OnePageMore(table[t], tb, p)
    BY <2>1 DEF MapDoes
  <2>3. PICK s \in Seq(Step) :
           /\ NewSteps(t, s)
           /\ \A i \in DOMAIN s : s[i].op \in LoadOps
           /\ s # <<>> => s[Len(s)].op = "fill"
           /\ Cardinality(MapSteps(s)) + 1 <= Cardinality(MapSteps(todo[t]))
    BY <2>1 DEF MapDoes, LoadDone
  <2>4. Loading(t) /\ UNCHANGED status
    BY <2>1 DEF MapDoes, LoadDone
  <2>5. \A u \in Thread : /\ todo'[u] = IF u = t THEN s ELSE todo[u]
                          /\ table'[u] = IF u = t THEN tb ELSE table[u]
    BY <2>1, <2>2, <2>3 DEF NewSteps, NewTable, TypeOK
  <2>6. Len(tb.entries) + Cardinality(MapSteps(s)) <= TlbSize
    <3>1. Len(tb.entries) <= Len(table[t].entries) + 1
      BY <2>2 DEF OnePageMore
    <3>2. Len(table[t].entries) + Cardinality(MapSteps(todo[t])) <= TlbSize
      BY <2>4 DEF Loading
    <3>3. Cardinality(MapSteps(s)) \in Nat /\ Cardinality(MapSteps(todo[t])) \in Nat
      BY <2>1, MapStepsFinite DEF TypeOK
    <3>4. Len(table[t].entries) \in Nat /\ Len(tb.entries) \in Nat
      BY <2>1 DEF TypeOK, Pagetable
    <3> QED BY <2>3, <3>1, <3>2, <3>3, <3>4, MemoryAssumption
  <2>7. tb # NoTable
    <3>1. table[t] # NoTable /\ table[t].asid = t
      BY <2>4 DEF Loading, IInv, ThreadInv
    <3> QED BY <2>2, <3>1 DEF OnePageMore
  <2>8. Loading(t)'
    BY <2>3, <2>5, <2>6, <2>7 DEF Loading
  <2>9. \A u \in Thread : u # t => (Loading(u)' <=> Loading(u))
    BY <2>5 DEF Loading
  <2> QED BY <2>1, <2>4, <2>5, <2>8, <2>9 DEF StepsInv
<1>10. ASSUME NEW c \in Cpu, NEW t \in Thread, FillDoes(c, t) PROVE StepsInv'
  <2>1. TypeOK /\ StepsInv /\ FillDoes(c, t)
    BY <1>10 DEF IInv
  <2>2. LoadDone(t, "fill")
    BY <2>1 DEF FillDoes
  <2>3. UNCHANGED <<status, table>>
    BY <2>1 DEF FillDoes
  <2>4. table'[t] # NoTable /\ Len(table'[t].entries) = Len(table[t].entries)
    BY <2>2, <2>3 DEF LoadDone, Loading
  <2>5. \A u \in Thread \ {t} : table'[u] = table[u] /\ status'[u] = status[u]
    BY <2>3
  <2> QED BY <2>1, <2>2, <2>4, <2>5, LoadDoneKeeps
<1>11. ASSUME NEW c \in Cpu, NEW t \in Thread, StoreDoes(c, t) PROVE StepsInv'
  <2>1. TypeOK /\ StepsInv /\ StoreDoes(c, t)
    BY <1>11 DEF IInv
  <2>2. \E op : LoadDone(t, op)
    BY <2>1 DEF StoreDoes
  <2>3. UNCHANGED <<status, table>>
    BY <2>1 DEF StoreDoes
  <2>4. table'[t] # NoTable /\ Len(table'[t].entries) = Len(table[t].entries)
    BY <2>2, <2>3 DEF LoadDone, Loading
  <2>5. \A u \in Thread \ {t} : table'[u] = table[u] /\ status'[u] = status[u]
    BY <2>3
  <2> QED BY <2>1, <2>2, <2>4, <2>5, LoadDoneKeeps
<1>12. ASSUME NEW c \in Cpu, NEW t \in Thread, ProtectDoes(c, t) PROVE StepsInv'
  <2>1. TypeOK /\ StepsInv /\ ProtectDoes(c, t)
    BY <1>12 DEF IInv
  <2>2. LoadDone(t, "protect") /\ UNCHANGED status
    BY <2>1 DEF ProtectDoes
  <2>3. PICK tb \in Pagetable : NewTable(t, tb) /\ SamePages(table[t], tb)
    BY <2>1 DEF ProtectDoes
  <2>4. \A u \in Thread : table'[u] = IF u = t THEN tb ELSE table[u]
    BY <2>1, <2>3 DEF NewTable, TypeOK
  <2>5. table[t] # NoTable /\ table[t].asid = t
    BY <2>2 DEF LoadDone, Loading, IInv, ThreadInv
  <2>6. table'[t] # NoTable /\ Len(table'[t].entries) = Len(table[t].entries)
    BY <2>3, <2>4, <2>5 DEF SamePages
  <2> QED BY <2>1, <2>2, <2>4, <2>6, LoadDoneKeeps
<1>13. ASSUME NEW c \in Cpu, NEW t \in Thread, FinishDoes(c, t) PROVE StepsInv'
  <2>1. TypeOK /\ StepsInv /\ FinishDoes(c, t)
    BY <1>13 DEF IInv
  <2>2. \A u \in Thread : u # t => table'[u] = table[u] /\ status'[u] = status[u]
    BY <2>1 DEF FinishDoes, TypeOK
  <2>3. status'[t] = "dying" /\ UNCHANGED todo
    BY <2>1 DEF FinishDoes, TypeOK
  <2> QED BY <2>1, <2>2, <2>3 DEF StepsInv, Loading
<1> QED BY <1>1, <1>2, <1>3, <1>4, <1>5, <1>6, <1>7, <1>8, <1>9, <1>10, <1>11,
         <1>12, <1>13 DEF Effect

LEMMA AsidStep == ASSUME IInv, Effect PROVE AsidInv'
<1> USE NoTableFacts
<1>1. CASE UNCHANGED vars
  BY <1>1 DEF IInv, vars, pool, cpus, AsidInv
<1>2. CASE Panic
  BY <1>2, PanicInv DEF IInv
<1>3. ASSUME KmallocDoes PROVE AsidInv'
  BY <1>3 DEF KmallocDoes, IInv, AsidInv
<1>4. ASSUME VmInitDoes PROVE AsidInv'
  BY <1>4 DEF VmInitDoes, IInv, AsidInv
<1>5. ASSUME NEW t \in Thread, SpawnDoes(t) PROVE AsidInv'
  BY <1>5 DEF SpawnDoes, IInv, AsidInv
<1>6. ASSUME NEW c \in Cpu, NEW t \in Owner, SwitchDoes(c, t) PROVE AsidInv'
  <2>1. TypeOK /\ ThreadInv /\ AsidInv /\ SwitchDoes(c, t)
    BY <1>6 DEF IInv
  <2>2. \A d \in Cpu : current'[d] = IF d = c THEN t ELSE current[d]
    BY <2>1 DEF SwitchDoes, TypeOK
  <2>3. \A d \in Cpu : d # c => asid'[d] = asid[d]
    BY <2>1 DEF SwitchDoes, Filled, TypeOK
  <2>4. t \in Thread /\ table[t] # NoTable => asid'[c] = t
    BY <2>1 DEF SwitchDoes, Filled, ThreadInv, TypeOK
  <2>5. UNCHANGED table
    BY <2>1 DEF SwitchDoes
  <2> QED BY <2>1, <2>2, <2>3, <2>4, <2>5 DEF AsidInv
<1>7. ASSUME NEW c \in Cpu, NEW t \in Thread, CreateDoes(c, t) PROVE AsidInv'
  <2>1. TypeOK /\ ThreadInv /\ AsidInv /\ CreateDoes(c, t)
    BY <1>7 DEF IInv
  <2>2. \A u \in Thread : u # t => table'[u] = table[u]
    BY <2>1 DEF CreateDoes, NewTable, TypeOK
  <2>3. asid'[c] = t /\ (\A d \in Cpu : d # c => asid'[d] = asid[d]) /\ UNCHANGED current
    BY <2>1 DEF CreateDoes, TypeOK
  <2>4. \A d \in Cpu : d # c => current[d] # t
    BY <2>1 DEF CreateDoes, ThreadInv
  <2>5. current[c] = t
    BY <2>1 DEF CreateDoes
  <2> QED BY <2>1, <2>2, <2>3, <2>4, <2>5 DEF AsidInv
<1>8. ASSUME NEW c \in Cpu, NEW t \in Thread, OpenDoes(c, t) PROVE AsidInv'
  BY <1>8 DEF OpenDoes, IInv, AsidInv
<1>9. ASSUME NEW c \in Cpu, NEW t \in Thread, MapDoes(c, t) PROVE AsidInv'
  <2>1. TypeOK /\ AsidInv /\ MapDoes(c, t) /\ table[t] # NoTable
    BY <1>9 DEF IInv, MapDoes, LoadDone, Loading
  <2>2. (\A u \in Thread : u # t => table'[u] = table[u]) /\ UNCHANGED <<current, asid>>
    BY <2>1 DEF MapDoes, NewTable, TypeOK
  <2> QED BY <2>1, <2>2 DEF AsidInv
<1>10. ASSUME NEW c \in Cpu, NEW t \in Thread, FillDoes(c, t) PROVE AsidInv'
  <2>1. TypeOK /\ ThreadInv /\ AsidInv /\ FillDoes(c, t) /\ table[t] # NoTable
    BY <1>10 DEF IInv, FillDoes, LoadDone, Loading
  <2>2. UNCHANGED <<current, table>> /\ current[c] = t
    BY <2>1 DEF FillDoes
  <2>3. \A d \in Cpu : asid'[d] = IF d = c THEN t ELSE asid[d]
    BY <2>1 DEF FillDoes, Filled, ThreadInv, TypeOK
  <2> QED BY <2>1, <2>2, <2>3 DEF AsidInv
<1>11. ASSUME NEW c \in Cpu, NEW t \in Thread, StoreDoes(c, t) PROVE AsidInv'
  BY <1>11 DEF StoreDoes, IInv, AsidInv
<1>12. ASSUME NEW c \in Cpu, NEW t \in Thread, ProtectDoes(c, t) PROVE AsidInv'
  <2>1. TypeOK /\ AsidInv /\ ProtectDoes(c, t) /\ table[t] # NoTable
    BY <1>12 DEF IInv, ProtectDoes, LoadDone, Loading
  <2>2. (\A u \in Thread : u # t => table'[u] = table[u]) /\ UNCHANGED <<current, asid>>
    BY <2>1 DEF ProtectDoes, NewTable, TypeOK
  <2> QED BY <2>1, <2>2 DEF AsidInv
<1>13. ASSUME NEW c \in Cpu, NEW t \in Thread, FinishDoes(c, t) PROVE AsidInv'
  <2>1. TypeOK /\ AsidInv /\ FinishDoes(c, t)
    BY <1>13 DEF IInv
  <2>2. /\ \A u \in Thread : u # t => table'[u] = table[u]
        /\ table'[t] = NoTable /\ UNCHANGED <<current, asid>>
    BY <2>1 DEF FinishDoes, TypeOK
  <2> QED BY <2>1, <2>2 DEF AsidInv
<1> QED BY <1>1, <1>2, <1>3, <1>4, <1>5, <1>6, <1>7, <1>8, <1>9, <1>10, <1>11,
         <1>12, <1>13 DEF Effect

LEMMA KernelStep == ASSUME IInv, Effect PROVE KernelInv'
<1>1. CASE UNCHANGED vars
  BY <1>1 DEF IInv, vars, pool, cpus, KernelInv, VmRuns
<1>2. CASE Panic
  BY <1>2, PanicInv DEF IInv
<1>3. ASSUME KmallocDoes PROVE KernelInv'
  BY <1>3, MemorySize DEF KmallocDoes, IInv, KernelInv, VmRuns, Disabled
<1>4. ASSUME VmInitDoes PROVE KernelInv'
  BY <1>4, MemoryAssumption DEF VmInitDoes, KernelInv
<1>5. ASSUME NEW t \in Thread, SpawnDoes(t) PROVE KernelInv'
  BY <1>5 DEF SpawnDoes, IInv, KernelInv, VmRuns
<1>6. ASSUME NEW c \in Cpu, NEW t \in Owner, SwitchDoes(c, t) PROVE KernelInv'
  BY <1>6 DEF SwitchDoes, IInv, KernelInv, VmRuns
<1>7. ASSUME NEW c \in Cpu, NEW t \in Thread, CreateDoes(c, t) PROVE KernelInv'
  BY <1>7 DEF CreateDoes, GotPage, IInv, KernelInv, VmRuns
<1>8. ASSUME NEW c \in Cpu, NEW t \in Thread, OpenDoes(c, t) PROVE KernelInv'
  BY <1>8 DEF OpenDoes, IInv, KernelInv, VmRuns
<1>9. ASSUME NEW c \in Cpu, NEW t \in Thread, MapDoes(c, t) PROVE KernelInv'
  BY <1>9 DEF MapDoes, GotPage, IInv, KernelInv, VmRuns
<1>10. ASSUME NEW c \in Cpu, NEW t \in Thread, FillDoes(c, t) PROVE KernelInv'
  BY <1>10 DEF FillDoes, IInv, KernelInv, VmRuns
<1>11. ASSUME NEW c \in Cpu, NEW t \in Thread, StoreDoes(c, t) PROVE KernelInv'
  BY <1>11 DEF StoreDoes, IInv, KernelInv, VmRuns
<1>12. ASSUME NEW c \in Cpu, NEW t \in Thread, ProtectDoes(c, t) PROVE KernelInv'
  BY <1>12 DEF ProtectDoes, IInv, KernelInv, VmRuns
<1>13. ASSUME NEW c \in Cpu, NEW t \in Thread, FinishDoes(c, t) PROVE KernelInv'
  BY <1>13 DEF FinishDoes, IInv, KernelInv, VmRuns
<1> QED BY <1>1, <1>2, <1>3, <1>4, <1>5, <1>6, <1>7, <1>8, <1>9, <1>10, <1>11,
         <1>12, <1>13 DEF Effect

---------------------------------------------------------------------------
(* The pool.                                                                 *)

\* A page that is given out is used once, from the pool, and reserved.
UsedOnce ==
    \A t \in Thread, i \in 0..TlbSize, h \in 1..2 : PageAt(t, i, h) # 0 =>
        /\ PageAt(t, i, h) \in reserved /\ PageAt(t, i, h) >= static_end
        /\ \A u \in Thread, j \in 0..TlbSize, k \in 1..2 :
              PageAt(u, j, k) = PageAt(t, i, h) => u = t /\ j = i /\ (i = 0 \/ k = h)

LEMMA PoolIs ==
    ASSUME IInv, VmRuns
    PROVE  /\ UsedOnce /\ num_free = Cardinality(Page \ reserved)
           /\ 0 .. static_end - 1 \subseteq reserved
  BY DEF IInv, PoolSound, UsedOnce

\* As long as only the pages are kept, the pool is.
LEMMA PoolKept ==
    ASSUME IInv, UsesKept, UNCHANGED <<free_area_start, reserved, num_free, static_end>>
    PROVE  PoolSound'
  BY DEF IInv, PoolSound, UsesKept, VmRuns

\* The new page was used nowhere.
LEMMA NewPageUnused ==
    ASSUME IInv, VmRuns, NEW p, GotPage(p)
    PROVE  \A u \in Thread, i \in 0..TlbSize, h \in 1..2 : PageAt(u, i, h) # p
  BY PoolIs DEF UsedOnce, GotPage

LEMMA CreateOnce ==
    ASSUME IInv, VmRuns, NEW p, GotPage(p), NEW t \in Thread, UsesOnly(t, p)
    PROVE  UsedOnce'
<1>1. UsedOnce /\ reserved' = reserved \cup {p} /\ static_end' = static_end /\ p >= static_end
  BY PoolIs DEF GotPage
<1>2. \A u \in Thread, i \in 0..TlbSize, h \in 1..2 : PageAt(u, i, h) # p
  BY NewPageUnused
<1>3. \A u \in Thread, i \in 0..TlbSize, h \in 1..2 :
         PageAt(u, i, h)' = IF u = t THEN (IF i = 0 THEN p ELSE 0) ELSE PageAt(u, i, h)
  BY DEF UsesOnly
<1>4. ASSUME NEW u \in Thread, NEW i \in 0..TlbSize, NEW h \in 1..2, PageAt(u, i, h)' # 0
      PROVE  /\ PageAt(u, i, h)' \in reserved' /\ PageAt(u, i, h)' >= static_end'
             /\ \A w \in Thread, j \in 0..TlbSize, k \in 1..2 :
                   PageAt(w, j, k)' = PageAt(u, i, h)' => w = u /\ j = i /\ (i = 0 \/ k = h)
  <2>1. CASE u = t
    BY <1>1, <1>2, <1>3, <1>4, <2>1
  <2>2. CASE u # t
    <3>1. PageAt(u, i, h)' = PageAt(u, i, h) /\ PageAt(u, i, h) # 0 /\ PageAt(u, i, h) # p
      BY <1>2, <1>3, <1>4, <2>2
    <3>2. PageAt(u, i, h) \in reserved /\ PageAt(u, i, h) >= static_end
      BY <1>1, <3>1 DEF UsedOnce
    <3>3. ASSUME NEW w \in Thread, NEW j \in 0..TlbSize, NEW k \in 1..2,
                 PageAt(w, j, k)' = PageAt(u, i, h)'
          PROVE  w = u /\ j = i /\ (i = 0 \/ k = h)
      <4>1. PageAt(w, j, k) = PageAt(u, i, h)
        BY <1>3, <3>1, <3>3
      <4> QED BY <1>1, <3>1, <4>1 DEF UsedOnce
    <3> QED BY <1>1, <3>1, <3>2, <3>3
  <2> QED BY <2>1, <2>2
<1> QED BY <1>4 DEF UsedOnce

LEMMA MapOnce ==
    ASSUME IInv, VmRuns, NEW p, GotPage(p), NEW t \in Thread, UsesMore(t, p)
    PROVE  UsedOnce'
<1>1. UsedOnce /\ reserved' = reserved \cup {p} /\ static_end' = static_end /\ p >= static_end
  BY PoolIs DEF GotPage
<1>2. \A u \in Thread, i \in 0..TlbSize, h \in 1..2 : PageAt(u, i, h) # p
  BY NewPageUnused
<1>3. PICK n \in Nat \ {0}, m \in 1..2 :
         \A u \in Thread, i \in 0..TlbSize, h \in 1..2 :
            PageAt(u, i, h)' = IF u = t /\ i = n /\ h = m THEN p ELSE PageAt(u, i, h)
  BY DEF UsesMore
<1>4. ASSUME NEW u \in Thread, NEW i \in 0..TlbSize, NEW h \in 1..2, PageAt(u, i, h)' # 0
      PROVE  /\ PageAt(u, i, h)' \in reserved' /\ PageAt(u, i, h)' >= static_end'
             /\ \A w \in Thread, j \in 0..TlbSize, k \in 1..2 :
                   PageAt(w, j, k)' = PageAt(u, i, h)' => w = u /\ j = i /\ (i = 0 \/ k = h)
  <2>1. CASE u = t /\ i = n /\ h = m
    BY <1>1, <1>2, <1>3, <2>1
  <2>2. CASE ~ (u = t /\ i = n /\ h = m)
    <3>1. PageAt(u, i, h)' = PageAt(u, i, h) /\ PageAt(u, i, h) # 0 /\ PageAt(u, i, h) # p
      BY <1>2, <1>3, <1>4, <2>2
    <3>2. PageAt(u, i, h) \in reserved /\ PageAt(u, i, h) >= static_end
      BY <1>1, <3>1 DEF UsedOnce
    <3>3. ASSUME NEW w \in Thread, NEW j \in 0..TlbSize, NEW k \in 1..2,
                 PageAt(w, j, k)' = PageAt(u, i, h)'
          PROVE  w = u /\ j = i /\ (i = 0 \/ k = h)
      <4>1. PageAt(w, j, k) = PageAt(u, i, h)
        BY <1>3, <3>1, <3>3
      <4> QED BY <1>1, <3>1, <4>1 DEF UsedOnce
    <3> QED BY <1>1, <3>1, <3>2, <3>3
  <2> QED BY <2>1, <2>2
<1> QED BY <1>4 DEF UsedOnce

LEMMA FinishOnce ==
    ASSUME IInv, VmRuns, NEW c \in Cpu, NEW t \in Thread, FinishDoes(c, t), UsesOnly(t, 0)
    PROVE  UsedOnce'
<1>1. UsedOnce /\ reserved' = reserved \ {table[t].page} /\ static_end' = static_end
  BY PoolIs DEF FinishDoes
<1>2. \A u \in Thread, i \in 0..TlbSize, h \in 1..2 :
         PageAt(u, i, h)' = IF u = t THEN 0 ELSE PageAt(u, i, h)
  BY DEF UsesOnly
<1>3. 0 \in 0..TlbSize /\ \A h \in 1..2 : PageAt(t, 0, h) = table[t].page
  BY MemoryAssumption, PageAtIs
<1>4. ASSUME NEW u \in Thread, NEW i \in 0..TlbSize, NEW h \in 1..2, PageAt(u, i, h)' # 0
      PROVE  /\ PageAt(u, i, h)' \in reserved' /\ PageAt(u, i, h)' >= static_end'
             /\ \A w \in Thread, j \in 0..TlbSize, k \in 1..2 :
                   PageAt(w, j, k)' = PageAt(u, i, h)' => w = u /\ j = i /\ (i = 0 \/ k = h)
  <2>1. u # t /\ PageAt(u, i, h)' = PageAt(u, i, h) /\ PageAt(u, i, h) # 0
    BY <1>2, <1>4
  <2>2. PageAt(u, i, h) \in reserved /\ PageAt(u, i, h) >= static_end
    BY <1>1, <2>1 DEF UsedOnce
  <2>3. PageAt(u, i, h) # table[t].page
    BY <1>1, <1>3, <2>1 DEF UsedOnce
  <2>4. ASSUME NEW w \in Thread, NEW j \in 0..TlbSize, NEW k \in 1..2,
               PageAt(w, j, k)' = PageAt(u, i, h)'
        PROVE  w = u /\ j = i /\ (i = 0 \/ k = h)
    <3>1. PageAt(w, j, k) = PageAt(u, i, h)
      BY <1>2, <2>1, <2>4
    <3> QED BY <1>1, <2>1, <3>1 DEF UsedOnce
  <2> QED BY <1>1, <2>1, <2>2, <2>3, <2>4
<1> QED BY <1>4 DEF UsedOnce

LEMMA PoolStep == ASSUME IInv, Effect PROVE PoolSound'
<1> USE NoTableFacts
<1>1. CASE UNCHANGED vars
  <2>1. UNCHANGED <<reserved, num_free, static_end, table, free_area_start>> /\ PoolSound
    BY <1>1 DEF vars, pool, IInv
  <2> QED BY <2>1 DEF PoolSound, PageAt, VmRuns
<1>2. CASE Panic
  BY <1>2, PanicInv DEF IInv
<1>3. ASSUME KmallocDoes PROVE PoolSound'
  BY <1>3, MemorySize DEF KmallocDoes, PoolSound, VmRuns, Disabled
<1>4. ASSUME VmInitDoes PROVE PoolSound'
  <2>1. ThreadInv /\ VmInitDoes
    BY <1>4 DEF IInv
  <2>2. \A u \in Thread : table[u] = NoTable
    BY <2>1 DEF VmInitDoes, ThreadInv
  <2>3. \A u \in Thread : table'[u] = NoTable
    BY <2>1, <2>2 DEF VmInitDoes
  <2>4. \A i, h : At(<<>>, i, h) = 0
    BY DEF At
  <2>5. \A u \in Thread, i \in 0..TlbSize, h \in 1..2 : PageAt(u, i, h)' = 0
    BY <2>3, <2>4, PageAtIs
  <2> QED BY <2>1, <2>5 DEF VmInitDoes, PoolSound
<1>5. ASSUME NEW t \in Thread, SpawnDoes(t) PROVE PoolSound'
  <2>1. UsesKept
    BY <1>5, SameUses DEF SpawnDoes
  <2> QED BY <1>5, <2>1, PoolKept DEF SpawnDoes
<1>6. ASSUME NEW c \in Cpu, NEW t \in Owner, SwitchDoes(c, t) PROVE PoolSound'
  <2>1. UsesKept
    BY <1>6, SameUses DEF SwitchDoes
  <2> QED BY <1>6, <2>1, PoolKept DEF SwitchDoes
<1>7. ASSUME NEW c \in Cpu, NEW t \in Thread, CreateDoes(c, t) PROVE PoolSound'
  <2>1. TypeOK /\ VmRuns
    BY <1>7 DEF IInv, CreateDoes
  <2>2. PICK p \in Page, tb \in Pagetable :
           GotPage(p) /\ NewTable(t, tb) /\ tb.page = p /\ tb.entries = <<>>
    BY <1>7 DEF CreateDoes
  <2>3. UsesOnly(t, p)
    BY <2>1, <2>2, TableUses DEF NewTable
  <2>4. UsedOnce'
    BY <2>1, <2>2, <2>3, CreateOnce
  <2>5. 0 .. static_end - 1 \subseteq reserved
    BY <2>1, PoolIs
  <2> QED BY <2>2, <2>4, <2>5 DEF PoolSound, UsedOnce, GotPage
<1>8. ASSUME NEW c \in Cpu, NEW t \in Thread, OpenDoes(c, t) PROVE PoolSound'
  <2>1. UsesKept
    BY <1>8, SameUses DEF OpenDoes
  <2> QED BY <1>8, <2>1, PoolKept DEF OpenDoes
<1>9. ASSUME NEW c \in Cpu, NEW t \in Thread, MapDoes(c, t) PROVE PoolSound'
  <2>1. TypeOK /\ VmRuns
    BY <1>9 DEF IInv, MapDoes
  <2>2. PICK p \in Page, tb \in Pagetable :
           GotPage(p) /\ NewTable(t, tb) /\ OnePageMore(table[t], tb, p)
    BY <1>9 DEF MapDoes
  <2>3. UsesMore(t, p)
    BY <2>1, <2>2, MapUses DEF NewTable
  <2>4. UsedOnce'
    BY <2>1, <2>2, <2>3, MapOnce
  <2>5. 0 .. static_end - 1 \subseteq reserved
    BY <2>1, PoolIs
  <2> QED BY <2>2, <2>4, <2>5 DEF PoolSound, UsedOnce, GotPage
<1>10. ASSUME NEW c \in Cpu, NEW t \in Thread, FillDoes(c, t) PROVE PoolSound'
  <2>1. UsesKept
    BY <1>10, SameUses DEF FillDoes
  <2> QED BY <1>10, <2>1, PoolKept DEF FillDoes
<1>11. ASSUME NEW c \in Cpu, NEW t \in Thread, StoreDoes(c, t) PROVE PoolSound'
  <2>1. UsesKept
    BY <1>11, SameUses DEF StoreDoes
  <2> QED BY <1>11, <2>1, PoolKept DEF StoreDoes
<1>12. ASSUME NEW c \in Cpu, NEW t \in Thread, ProtectDoes(c, t) PROVE PoolSound'
  <2>1. TypeOK
    BY DEF IInv
  <2>2. PICK tb \in Pagetable : NewTable(t, tb) /\ SamePages(table[t], tb)
    BY <1>12 DEF ProtectDoes
  <2>3. UsesKept
    BY <2>1, <2>2, ProtectUses DEF NewTable
  <2> QED BY <1>12, <2>3, PoolKept DEF ProtectDoes
<1>13. ASSUME NEW c \in Cpu, NEW t \in Thread, FinishDoes(c, t) PROVE PoolSound'
  <2>1. TypeOK /\ VmRuns /\ table' = [table EXCEPT ![t] = NoTable]
    BY <1>13 DEF IInv, FinishDoes
  <2>2. UsesOnly(t, 0)
    <3>1. UsesOnly(t, NoTable.page)
      BY <2>1, TableUses
    <3> QED BY <3>1
  <2>3. UsedOnce'
    BY <1>13, <2>1, <2>2, FinishOnce
  <2>4. 0 .. static_end - 1 \subseteq reserved /\ static_end \in Nat
    BY <2>1, PoolIs DEF TypeOK
  <2>5. /\ table[t].page >= static_end /\ reserved' = reserved \ {table[t].page}
        /\ static_end' = static_end /\ num_free' = Cardinality(Page \ reserved')
    BY <1>13 DEF FinishDoes
  <2>6. table[t].page \in Nat
    BY <2>1, MemoryAssumption DEF TypeOK, Pagetable, Page
  <2>7. 0 .. static_end' - 1 \subseteq reserved'
    BY <2>4, <2>5, <2>6
  <2> QED BY <2>3, <2>5, <2>7 DEF PoolSound, UsedOnce
<1> QED BY <1>1, <1>2, <1>3, <1>4, <1>5, <1>6, <1>7, <1>8, <1>9, <1>10, <1>11,
         <1>12, <1>13 DEF Effect

---------------------------------------------------------------------------
(* The TLBs.                                                                 *)

\* A step of thread t that leaves it something to do and keeps the other
\* processors' TLBs keeps the programs in their spaces.
LEMMA OthersRun ==
    ASSUME IInv, NEW c \in Cpu, NEW t \in Thread, current[c] = t, UNCHANGED current,
           ~ (status'[t] = "live" /\ todo'[t] = <<>>),
           \A u \in Thread \ {t} :
              /\ table'[u] = table[u] /\ todo'[u] = todo[u] /\ status'[u] = status[u],
           \A d \in Cpu \ {c} : tlb'[d] = tlb[d] /\ asid'[d] = asid[d]
    PROVE  RunsInItsSpace'
<1>1. RunsInItsSpace
  BY DEF IInv
<1>2. ASSUME NEW d \in Cpu, NEW u \in Thread, InUserland(d, u)'
      PROVE  /\ asid'[d] = u
             /\ \A i \in DOMAIN table'[u].entries : tlb'[d][i] = table'[u].entries[i]
  <2>1. u # t /\ current[d] = u
    BY <1>2 DEF InUserland
  <2>2. d # c
    BY <2>1
  <2>3. InUserland(d, u)
    BY <1>2, <2>1 DEF InUserland
  <2> QED BY <1>1, <2>1, <2>2, <2>3 DEF RunsInItsSpace
<1> QED BY <1>2 DEF RunsInItsSpace

\* A thread that fills the TLB runs in its space from then on.
LEMMA FilledRuns ==
    ASSUME IInv, NEW c \in Cpu, NEW t \in Thread, table[t] # NoTable, Filled(c, table[t])
    PROVE  asid'[c] = t /\ \A i \in DOMAIN table[t].entries : tlb'[c][i] = table[t].entries[i]
<1>1. TypeOK /\ table[t].asid = t
  BY DEF IInv, ThreadInv
<1>2. PICK es : /\ es = table[t].entries /\ DOMAIN es = 1 .. Len(es) /\ Len(es) \in Nat
                /\ Len(es) <= TlbSize
  BY <1>1 DEF TypeOK, Pagetable
<1>3. \A i \in DOMAIN es : i \in 1..TlbSize
  BY <1>2, MemoryAssumption
<1>4. asid'[c] = t
  BY <1>1 DEF Filled, TypeOK
<1> QED BY <1>2, <1>3, <1>4 DEF Filled

LEMMA RunsStep == ASSUME IInv, Effect PROVE RunsInItsSpace'
<1> USE NoTableFacts
<1>1. CASE UNCHANGED vars
  BY <1>1 DEF IInv, vars, pool, cpus, RunsInItsSpace, InUserland
<1>2. CASE Panic
  BY <1>2, PanicInv DEF IInv
<1>3. ASSUME KmallocDoes PROVE RunsInItsSpace'
  BY <1>3 DEF KmallocDoes, IInv, RunsInItsSpace, InUserland
<1>4. ASSUME VmInitDoes PROVE RunsInItsSpace'
  BY <1>4 DEF VmInitDoes, IInv, RunsInItsSpace, InUserland
<1>5. ASSUME NEW t \in Thread, SpawnDoes(t) PROVE RunsInItsSpace'
  <2>1. TypeOK /\ RunsInItsSpace /\ SpawnDoes(t)
    BY <1>5 DEF IInv
  <2>2. todo'[t] # <<>>
    BY <2>1 DEF SpawnDoes, Start, TypeOK
  <2>3. \A u \in Thread : u # t => todo'[u] = todo[u] /\ status'[u] = status[u]
    BY <2>1 DEF SpawnDoes, TypeOK
  <2>4. UNCHANGED <<table, current, tlb, asid>>
    BY <2>1 DEF SpawnDoes
  <2> QED BY <2>1, <2>2, <2>3, <2>4 DEF RunsInItsSpace, InUserland
<1>6. ASSUME NEW c \in Cpu, NEW t \in Owner, SwitchDoes(c, t) PROVE RunsInItsSpace'
  <2>1. TypeOK /\ RunsInItsSpace /\ StepsInv /\ SwitchDoes(c, t)
    BY <1>6 DEF IInv
  <2>2. \A d \in Cpu : current'[d] = IF d = c THEN t ELSE current[d]
    BY <2>1 DEF SwitchDoes, TypeOK
  <2>3. UNCHANGED <<table, todo>> /\ \A u \in Thread : status'[u] = "live" => status[u] = "live"
    BY <2>1 DEF SwitchDoes
  <2>4. \A d \in Cpu : d # c => tlb'[d] = tlb[d] /\ asid'[d] = asid[d]
    BY <2>1 DEF SwitchDoes, Filled, TypeOK
  <2>5. ASSUME NEW d \in Cpu, NEW u \in Thread, InUserland(d, u)'
        PROVE  /\ asid'[d] = u
               /\ \A i \in DOMAIN table'[u].entries : tlb'[d][i] = table'[u].entries[i]
    <3>1. status[u] = "live" /\ todo[u] = <<>> /\ current'[d] = u
      BY <2>3, <2>5 DEF InUserland
    <3>2. CASE d # c
      BY <2>1, <2>2, <2>3, <2>4, <3>1, <3>2 DEF RunsInItsSpace, InUserland
    <3>3. CASE d = c
      <4>1. u = t
        BY <2>2, <3>1, <3>3
      <4>2. table[t] # NoTable
        <5>1. todo[t] # Start /\ todo[t] # One("open")
          <6>1. Len(Start) = 2 /\ Len(One("open")) = 1 /\ Len(todo[t]) = 0
            BY <3>1, <4>1 DEF Start, One
          <6>2. 0 # 2 /\ 0 # 1
            OBVIOUS
          <6> QED BY <6>1, <6>2, Zenon
        <5>2. t \in Thread /\ status[t] = "live"
          BY <3>1, <4>1
        <5> QED BY <2>1, <5>1, <5>2 DEF StepsInv, Loading
      <4>3. Filled(c, table[t])
        BY <2>1, <4>1, <4>2 DEF SwitchDoes
      <4> QED BY <2>3, <3>3, <4>1, <4>2, <4>3, FilledRuns
    <3> QED BY <3>2, <3>3
  <2> QED BY <2>5 DEF RunsInItsSpace
<1>7. ASSUME NEW c \in Cpu, NEW t \in Thread, CreateDoes(c, t) PROVE RunsInItsSpace'
  <2>1. TypeOK /\ CreateDoes(c, t)
    BY <1>7 DEF IInv
  <2>2. current[c] = t /\ UNCHANGED current
    BY <2>1 DEF CreateDoes
  <2>3. ~ (status'[t] = "live" /\ todo'[t] = <<>>)
    BY <2>1 DEF CreateDoes, One, TypeOK
  <2>4. \A u \in Thread \ {t} :
           /\ table'[u] = table[u] /\ todo'[u] = todo[u] /\ status'[u] = status[u]
    BY <2>1 DEF CreateDoes, LoadDone, NewSteps, NewTable, TypeOK
  <2>5. \A d \in Cpu \ {c} : tlb'[d] = tlb[d] /\ asid'[d] = asid[d]
    BY <2>1 DEF CreateDoes, TypeOK
  <2> QED BY <2>2, <2>3, <2>4, <2>5, OthersRun
<1>8. ASSUME NEW c \in Cpu, NEW t \in Thread, OpenDoes(c, t) PROVE RunsInItsSpace'
  <2>1. TypeOK /\ OpenDoes(c, t)
    BY <1>8 DEF IInv
  <2>2. current[c] = t /\ UNCHANGED current
    BY <2>1 DEF OpenDoes
  <2>3. ~ (status'[t] = "live" /\ todo'[t] = <<>>)
    BY <2>1 DEF OpenDoes, NewSteps, TypeOK
  <2>4. \A u \in Thread \ {t} :
           /\ table'[u] = table[u] /\ todo'[u] = todo[u] /\ status'[u] = status[u]
    BY <2>1 DEF OpenDoes, LoadDone, NewSteps, NewTable, TypeOK
  <2>5. \A d \in Cpu \ {c} : tlb'[d] = tlb[d] /\ asid'[d] = asid[d]
    BY <2>1 DEF OpenDoes, TypeOK
  <2> QED BY <2>2, <2>3, <2>4, <2>5, OthersRun
<1>9. ASSUME NEW c \in Cpu, NEW t \in Thread, MapDoes(c, t) PROVE RunsInItsSpace'
  <2>1. TypeOK /\ MapDoes(c, t)
    BY <1>9 DEF IInv
  <2>2. current[c] = t /\ UNCHANGED current
    BY <2>1 DEF MapDoes
  <2>3. ~ (status'[t] = "live" /\ todo'[t] = <<>>)
    BY <2>1 DEF MapDoes, LoadDone, NewSteps, TypeOK
  <2>4. \A u \in Thread \ {t} :
           /\ table'[u] = table[u] /\ todo'[u] = todo[u] /\ status'[u] = status[u]
    BY <2>1 DEF MapDoes, LoadDone, NewSteps, NewTable, TypeOK
  <2>5. \A d \in Cpu \ {c} : tlb'[d] = tlb[d] /\ asid'[d] = asid[d]
    BY <2>1 DEF MapDoes, TypeOK
  <2> QED BY <2>2, <2>3, <2>4, <2>5, OthersRun
<1>10. ASSUME NEW c \in Cpu, NEW t \in Thread, FillDoes(c, t) PROVE RunsInItsSpace'
  <2>1. TypeOK /\ RunsInItsSpace /\ FillDoes(c, t) /\ ThreadInv
    BY <1>10 DEF IInv
  <2>2. Filled(c, table[t]) /\ table[t] # NoTable /\ current[c] = t
    BY <2>1 DEF FillDoes, LoadDone, Loading
  <2>3. asid'[c] = t /\ \A i \in DOMAIN table[t].entries : tlb'[c][i] = table[t].entries[i]
    BY <2>2, FilledRuns
  <2>4. \A d \in Cpu : d # c => tlb'[d] = tlb[d] /\ asid'[d] = asid[d] /\ current[d] # t
    BY <2>1, <2>2 DEF Filled, TypeOK, ThreadInv
  <2>5. UNCHANGED <<status, table, current>> /\ \A u \in Thread : u # t => todo'[u] = todo[u]
    BY <2>1 DEF FillDoes, LoadDone, NewSteps, TypeOK
  <2>6. ASSUME NEW d \in Cpu, NEW u \in Thread, InUserland(d, u)'
        PROVE  /\ asid'[d] = u
               /\ \A i \in DOMAIN table'[u].entries : tlb'[d][i] = table'[u].entries[i]
    <3>1. current[d] = u /\ table'[u] = table[u]
      BY <2>5, <2>6 DEF InUserland
    <3>2. CASE d = c
      BY <2>2, <2>3, <3>1, <3>2
    <3>3. CASE d # c
      <4>1. u # t
        BY <2>4, <3>1, <3>3
      <4>2. InUserland(d, u)
        BY <2>5, <2>6, <4>1 DEF InUserland
      <4> QED BY <2>1, <2>4, <3>1, <3>3, <4>2 DEF RunsInItsSpace
    <3> QED BY <3>2, <3>3
  <2> QED BY <2>6 DEF RunsInItsSpace
<1>11. ASSUME NEW c \in Cpu, NEW t \in Thread, StoreDoes(c, t) PROVE RunsInItsSpace'
  <2>1. TypeOK /\ StoreDoes(c, t)
    BY <1>11 DEF IInv
  <2>2. current[c] = t /\ UNCHANGED current
    BY <2>1 DEF StoreDoes
  <2>3. ~ (status'[t] = "live" /\ todo'[t] = <<>>)
    BY <2>1 DEF StoreDoes, LoadDone, NewSteps, TypeOK
  <2>4. \A u \in Thread \ {t} :
           /\ table'[u] = table[u] /\ todo'[u] = todo[u] /\ status'[u] = status[u]
    BY <2>1 DEF StoreDoes, LoadDone, NewSteps, NewTable, TypeOK
  <2>5. \A d \in Cpu \ {c} : tlb'[d] = tlb[d] /\ asid'[d] = asid[d]
    BY <2>1 DEF StoreDoes, TypeOK
  <2> QED BY <2>2, <2>3, <2>4, <2>5, OthersRun
<1>12. ASSUME NEW c \in Cpu, NEW t \in Thread, ProtectDoes(c, t) PROVE RunsInItsSpace'
  <2>1. TypeOK /\ ProtectDoes(c, t)
    BY <1>12 DEF IInv
  <2>2. current[c] = t /\ UNCHANGED current
    BY <2>1 DEF ProtectDoes
  <2>3. ~ (status'[t] = "live" /\ todo'[t] = <<>>)
    BY <2>1 DEF ProtectDoes, LoadDone, NewSteps, TypeOK
  <2>4. \A u \in Thread \ {t} :
           /\ table'[u] = table[u] /\ todo'[u] = todo[u] /\ status'[u] = status[u]
    BY <2>1 DEF ProtectDoes, LoadDone, NewSteps, NewTable, TypeOK
  <2>5. \A d \in Cpu \ {c} : tlb'[d] = tlb[d] /\ asid'[d] = asid[d]
    BY <2>1 DEF ProtectDoes, TypeOK
  <2> QED BY <2>2, <2>3, <2>4, <2>5, OthersRun
<1>13. ASSUME NEW c \in Cpu, NEW t \in Thread, FinishDoes(c, t) PROVE RunsInItsSpace'
  <2>1. TypeOK /\ FinishDoes(c, t)
    BY <1>13 DEF IInv
  <2>2. current[c] = t /\ UNCHANGED current
    BY <2>1 DEF FinishDoes
  <2>3. ~ (status'[t] = "live" /\ todo'[t] = <<>>)
    BY <2>1 DEF FinishDoes, TypeOK
  <2>4. \A u \in Thread \ {t} :
           /\ table'[u] = table[u] /\ todo'[u] = todo[u] /\ status'[u] = status[u]
    BY <2>1 DEF FinishDoes, LoadDone, NewSteps, NewTable, TypeOK
  <2>5. \A d \in Cpu \ {c} : tlb'[d] = tlb[d] /\ asid'[d] = asid[d]
    BY <2>1 DEF FinishDoes, TypeOK
  <2> QED BY <2>2, <2>3, <2>4, <2>5, OthersRun
<1> QED BY <1>1, <1>2, <1>3, <1>4, <1>5, <1>6, <1>7, <1>8, <1>9, <1>10, <1>11,
         <1>12, <1>13 DEF Effect

\* Row i of processor c reaches only pages of its own thread.
RowSound(c, i) ==
    \A h \in 1..2 : tlb[c][i].pfn[h] # 0 =>
        /\ tlb[c][i].pfn[h] \in reserved /\ tlb[c][i].pfn[h] >= static_end
        /\ \A u \in Thread, j \in 0..TlbSize, k \in 1..2 :
              PageAt(u, j, k) = tlb[c][i].pfn[h] => u = tlb[c][i].asid /\ j # 0

LEMMA RowsSound == RowInv <=> \A c \in Cpu, i \in 1..TlbSize : RowSound(c, i)
  BY DEF RowInv, RowSound

LEMMA RowsSoundPrime == RowInv' <=> \A c \in Cpu, i \in 1..TlbSize : RowSound(c, i)'
  BY DEF RowInv, RowSound

LEMMA RowKept ==
    ASSUME UsesKept, UNCHANGED <<reserved, static_end>>, NEW c \in Cpu, NEW i \in 1..TlbSize,
           tlb'[c][i] = tlb[c][i], RowSound(c, i)
    PROVE  RowSound(c, i)'
  BY DEF UsesKept, RowSound

LEMMA RowsKept ==
    ASSUME IInv, UsesKept, UNCHANGED <<reserved, static_end, tlb>> PROVE RowInv'
<1>1. RowInv
  BY DEF IInv
<1> QED BY <1>1, RowsSound, RowsSoundPrime, RowKept

\* The rows that are filled from the table of thread t.
LEMMA RowsFilled ==
    ASSUME IInv, VmRuns, NEW c \in Cpu, NEW t \in Thread, table[t] # NoTable, Filled(c, table[t]),
           UNCHANGED <<table, reserved, static_end>>
    PROVE  RowInv'
<1>1. RowInv /\ TypeOK /\ UsedOnce
  BY PoolIs DEF IInv
<1>2. UsesKept
  BY SameUses
<1>3. ASSUME NEW d \in Cpu, NEW i \in 1..TlbSize PROVE RowSound(d, i)'
  <2>1. RowSound(d, i)
    BY <1>1, RowsSound
  <2>2. CASE d # c \/ i \notin DOMAIN table[t].entries
    <3>1. tlb'[d][i] = tlb[d][i]
      BY <2>2 DEF Filled
    <3> QED BY <1>2, <2>1, <3>1, RowKept
  <2>3. CASE d = c /\ i \in DOMAIN table[t].entries
    <3>1. PICK e : e = table[t].entries[i] /\ tlb'[d][i] = e
      BY <2>3 DEF Filled
    <3>2. e.asid = t
      BY <2>3, <3>1 DEF IInv, ThreadInv
    <3>3. i \in 0..TlbSize /\ i # 0
      BY MemoryAssumption
    <3>4. \A h \in 1..2 : e.pfn[h] = PageAt(t, i, h)
      BY <2>3, <3>1, <3>3 DEF PageAt
    <3>5. ASSUME NEW h \in 1..2, e.pfn[h] # 0
          PROVE  /\ e.pfn[h] \in reserved /\ e.pfn[h] >= static_end
                 /\ \A u \in Thread, j \in 0..TlbSize, k \in 1..2 :
                       PageAt(u, j, k) = e.pfn[h] => u = t /\ j # 0
      BY <1>1, <3>3, <3>4, <3>5 DEF UsedOnce
    <3>6. \A u \in Thread, j \in 0..TlbSize, k \in 1..2 : PageAt(u, j, k)' = PageAt(u, j, k)
      BY <1>2 DEF UsesKept
    <3> QED BY <3>1, <3>2, <3>5, <3>6 DEF RowSound
  <2> QED BY <2>2, <2>3
<1> QED BY <1>3, RowsSoundPrime

\* A page that is given out is in no row.
LEMMA RowsGot ==
    ASSUME IInv, VmRuns, NEW p, GotPage(p), NEW t \in Thread, UsesOnly(t, p) \/ UsesMore(t, p),
           UNCHANGED tlb
    PROVE  RowInv'
<1>1. RowInv /\ reserved' = reserved \cup {p} /\ static_end' = static_end /\ p \notin reserved
  BY DEF IInv, GotPage
<1>2. \A u \in Thread, j \in 0..TlbSize, k \in 1..2 :
         PageAt(u, j, k)' = p \/ PageAt(u, j, k)' = 0 \/ PageAt(u, j, k)' = PageAt(u, j, k)
  BY DEF UsesOnly, UsesMore
<1>3. ASSUME NEW c \in Cpu, NEW i \in 1..TlbSize PROVE RowSound(c, i)'
  <2>1. RowSound(c, i) /\ tlb'[c][i] = tlb[c][i]
    BY <1>1, RowsSound
  <2> QED BY <1>1, <1>2, <2>1 DEF RowSound
<1> QED BY <1>3, RowsSoundPrime

LEMMA RowStep == ASSUME IInv, Effect PROVE RowInv'
<1> USE NoTableFacts
<1>1. CASE UNCHANGED vars
  BY <1>1 DEF IInv, vars, pool, cpus, RowInv, PageAt
<1>2. CASE Panic
  BY <1>2, PanicInv DEF IInv
<1>3. ASSUME KmallocDoes PROVE RowInv'
  <2>1. UsesKept
    BY <1>3, SameUses DEF KmallocDoes
  <2> QED BY <1>3, <2>1, RowsKept DEF KmallocDoes
<1>4. ASSUME VmInitDoes PROVE RowInv'
  <2>1. RowInv /\ reserved = {} /\ UNCHANGED tlb
    BY <1>4 DEF IInv, KernelInv, VmInitDoes
  <2>2. \A c \in Cpu, i \in 1..TlbSize, h \in 1..2 : tlb[c][i].pfn[h] = 0
    BY <2>1 DEF RowInv
  <2> QED BY <2>1, <2>2 DEF RowInv
<1>5. ASSUME NEW t \in Thread, SpawnDoes(t) PROVE RowInv'
  <2>1. UsesKept
    BY <1>5, SameUses DEF SpawnDoes
  <2> QED BY <1>5, <2>1, RowsKept DEF SpawnDoes
<1>6. ASSUME NEW c \in Cpu, NEW t \in Owner, SwitchDoes(c, t) PROVE RowInv'
  <2>1. VmRuns /\ UNCHANGED <<table, reserved, static_end>>
    BY <1>6 DEF SwitchDoes
  <2>2. CASE UNCHANGED tlb
    <3>1. UsesKept
      BY <2>1, SameUses
    <3> QED BY <2>1, <2>2, <3>1, RowsKept
  <2>3. CASE t \in Thread /\ table[t] # NoTable /\ Filled(c, table[t])
    BY <2>1, <2>3, RowsFilled
  <2> QED BY <1>6, <2>2, <2>3 DEF SwitchDoes
<1>7. ASSUME NEW c \in Cpu, NEW t \in Thread, CreateDoes(c, t) PROVE RowInv'
  <2>1. TypeOK /\ VmRuns /\ UNCHANGED tlb
    BY <1>7 DEF IInv, CreateDoes
  <2>2. PICK p \in Page, tb \in Pagetable :
           GotPage(p) /\ NewTable(t, tb) /\ tb.page = p /\ tb.entries = <<>>
    BY <1>7 DEF CreateDoes
  <2>3. UsesOnly(t, p)
    BY <2>1, <2>2, TableUses DEF NewTable
  <2> QED BY <2>1, <2>2, <2>3, RowsGot
<1>8. ASSUME NEW c \in Cpu, NEW t \in Thread, OpenDoes(c, t) PROVE RowInv'
  <2>1. UsesKept
    BY <1>8, SameUses DEF OpenDoes
  <2> QED BY <1>8, <2>1, RowsKept DEF OpenDoes
<1>9. ASSUME NEW c \in Cpu, NEW t \in Thread, MapDoes(c, t) PROVE RowInv'
  <2>1. TypeOK /\ VmRuns /\ UNCHANGED tlb
    BY <1>9 DEF IInv, MapDoes
  <2>2. PICK p \in Page, tb \in Pagetable :
           GotPage(p) /\ NewTable(t, tb) /\ OnePageMore(table[t], tb, p)
    BY <1>9 DEF MapDoes
  <2>3. UsesMore(t, p)
    BY <2>1, <2>2, MapUses DEF NewTable
  <2> QED BY <2>1, <2>2, <2>3, RowsGot
<1>10. ASSUME NEW c \in Cpu, NEW t \in Thread, FillDoes(c, t) PROVE RowInv'
  <2>1. VmRuns /\ table[t] # NoTable /\ Filled(c, table[t]) /\ UNCHANGED <<table, reserved, static_end>>
    BY <1>10 DEF FillDoes, LoadDone, Loading
  <2> QED BY <2>1, RowsFilled
<1>11. ASSUME NEW c \in Cpu, NEW t \in Thread, StoreDoes(c, t) PROVE RowInv'
  <2>1. UsesKept
    BY <1>11, SameUses DEF StoreDoes
  <2> QED BY <1>11, <2>1, RowsKept DEF StoreDoes
<1>12. ASSUME NEW c \in Cpu, NEW t \in Thread, ProtectDoes(c, t) PROVE RowInv'
  <2>1. TypeOK
    BY DEF IInv
  <2>2. PICK tb \in Pagetable : NewTable(t, tb) /\ SamePages(table[t], tb)
    BY <1>12 DEF ProtectDoes
  <2>3. UsesKept
    BY <2>1, <2>2, ProtectUses DEF NewTable
  <2> QED BY <1>12, <2>3, RowsKept DEF ProtectDoes
<1>13. ASSUME NEW c \in Cpu, NEW t \in Thread, FinishDoes(c, t) PROVE RowInv'
  <2>1. TypeOK /\ RowInv /\ table' = [table EXCEPT ![t] = NoTable] /\ UNCHANGED tlb
    BY <1>13 DEF IInv, FinishDoes
  <2>2. UsesOnly(t, NoTable.page)
    BY <2>1, TableUses
  <2>3. reserved' = reserved \ {table[t].page} /\ static_end' = static_end
    BY <1>13 DEF FinishDoes
  <2>4. 0 \in 0..TlbSize /\ \A h \in 1..2 : PageAt(t, 0, h) = table[t].page
    BY MemoryAssumption, PageAtIs
  <2>5. ASSUME NEW d \in Cpu, NEW i \in 1..TlbSize PROVE RowSound(d, i)'
    <3>1. RowSound(d, i) /\ tlb'[d][i] = tlb[d][i]
      BY <2>1, RowsSound
    <3>2. \A h \in 1..2 : tlb[d][i].pfn[h] # 0 => tlb[d][i].pfn[h] # table[t].page
      BY <2>4, <3>1 DEF RowSound
    <3>3. \A u \in Thread, j \in 0..TlbSize, k \in 1..2 :
             PageAt(u, j, k)' = 0 \/ PageAt(u, j, k)' = PageAt(u, j, k)
      BY <2>2 DEF UsesOnly
    <3> QED BY <2>3, <3>1, <3>2, <3>3 DEF RowSound
  <2> QED BY <2>5, RowsSoundPrime
<1> QED BY <1>1, <1>2, <1>3, <1>4, <1>5, <1>6, <1>7, <1>8, <1>9, <1>10, <1>11,
         <1>12, <1>13 DEF Effect

---------------------------------------------------------------------------
(* The theorems.                                                             *)

LEMMA Inductive == IInv /\ [Next]_vars => IInv'
<1> SUFFICES ASSUME IInv, [Next]_vars PROVE IInv'
  OBVIOUS
<1>1. Effect
  BY NextEffect
<1> QED BY <1>1, TypeStep, ThreadStep, StepsStep, AsidStep, KernelStep, PoolStep, RunsStep,
           RowStep DEF IInv

\* IInv holds in every reachable state.
THEOREM InvCorrect == Spec => []IInv
  BY InitInv, Inductive, PTL DEF Spec

\* The state keeps its types, the count of free pages its bounds, and every
\* page table fits into the TLB: the assertion of tlb_fill holds, because
\* process_start compares the pages of the program with the TLB's size.
THEOREM TypeCorrect == Spec => []TypeOK
<1>1. IInv => TypeOK
  BY DEF IInv
<1> QED BY <1>1, InvCorrect, PTL

\* The pool counts its free pages, keeps the kernel's memory out, and gives no
\* page out twice (pagepool.c), for any number of pages.
THEOREM PoolCorrect == Spec => []PoolSound
<1>1. IInv => PoolSound
  BY DEF IInv
<1> QED BY <1>1, InvCorrect, PTL

\* A program runs with its ASID and its page table in the TLB on whatever
\* processor it was resumed (process_start, interrupt_handle, tlb_fill).
THEOREM RunsCorrect == Spec => []RunsInItsSpace
<1>1. IInv => RunsInItsSpace
  BY DEF IInv
<1> QED BY <1>1, InvCorrect, PTL

\* Thread ID a has page p mapped, or a finished program with that ID had it.
Has(a, p) == p \in PagesOf(table[a]) \/ p \in left[a]

\* A row reaches a page that belongs, or belonged, to the ID it is tagged with;
\* a thread that has not started yet has no page table.
OriginInv ==
    /\ \A c \in Cpu, i \in 1..TlbSize, h \in 1..2 : tlb[c][i].pfn[h] # 0 =>
          tlb[c][i].asid \in Thread /\ Has(tlb[c][i].asid, tlb[c][i].pfn[h])
    /\ \A t \in Thread : status[t] = "live" /\ todo[t] = Start => table[t] = NoTable

\* A thread ID keeps what it has.
HasKept == \A a \in Thread : \A p : Has(a, p) => Has(a, p)'

LEMMA HasSame == ASSUME UNCHANGED <<table, left>> PROVE HasKept
  BY DEF HasKept, Has

\* A page is one of a table's if it is in one of its places.
LEMMA PagesAt ==
    ASSUME NEW tb \in Pagetable, NEW p
    PROVE  p \in PagesOf(tb) <=>
              p \in 1 .. NumPages - 1 /\ \E i \in Nat, h \in 1..2 : At(tb.entries, i, h) = p
<1>1. DOMAIN tb.entries \subseteq Nat
  BY TableParts
<1>2. \A i \in DOMAIN tb.entries : \A h : At(tb.entries, i, h) = tb.entries[i].pfn[h]
  BY DEF At
<1>3. \A i, h : i \notin DOMAIN tb.entries => At(tb.entries, i, h) = 0
  BY DEF At
<1>4. p \in 1 .. NumPages - 1 => p # 0
  BY MemoryAssumption
<1> QED BY <1>1, <1>2, <1>3, <1>4 DEF PagesOf

\* A change of the table of t that keeps its pages, or leaves them in left.
LEMMA HasChanged ==
    ASSUME TypeOK, NEW t \in Thread, NEW tb, table' = [table EXCEPT ![t] = tb],
           \A a \in Thread : a # t => left'[a] = left[a],
           \A p : Has(t, p) => p \in PagesOf(tb) \/ p \in left'[t]
    PROVE  HasKept
<1>1. \A a \in Thread : table'[a] = IF a = t THEN tb ELSE table[a]
  BY DEF TypeOK
<1>2. ASSUME NEW a \in Thread, NEW p, Has(a, p) PROVE Has(a, p)'
  <2>1. CASE a = t
    BY <1>1, <1>2, <2>1 DEF Has
  <2>2. CASE a # t
    <3>1. PagesOf(table'[a]) = PagesOf(table[a]) /\ left'[a] = left[a]
      BY <1>1, <2>2
    <3> QED BY <1>2, <3>1 DEF Has
  <2> QED BY <2>1, <2>2
<1> QED BY <1>2 DEF HasKept

\* Every step but a panic keeps what thread IDs have.
LEMMA HasStep == ASSUME IInv, OriginInv, Effect, ~ Panic PROVE HasKept
<1>0. TypeOK
  BY DEF IInv
<1>1. CASE UNCHANGED <<table, left>>
  BY <1>1, HasSame
<1>2. ASSUME NEW c \in Cpu, NEW t \in Thread, CreateDoes(c, t) PROVE HasKept
  <2>1. PICK tb \in Pagetable : NewTable(t, tb)
    BY <1>2 DEF CreateDoes
  <2>2. UNCHANGED left /\ table[t] = NoTable
    BY <1>2 DEF CreateDoes, OriginInv
  <2>3. PagesOf(table[t]) = {}
    BY <2>2, NoTableFacts DEF PagesOf
  <2> QED BY <1>0, <2>1, <2>2, <2>3, HasChanged DEF NewTable, Has
<1>3. ASSUME NEW c \in Cpu, NEW t \in Thread, MapDoes(c, t) PROVE HasKept
  <2>1. PICK p \in Page, tb \in Pagetable : NewTable(t, tb) /\ OnePageMore(table[t], tb, p)
    BY <1>3 DEF MapDoes
  <2>2. UNCHANGED left /\ table[t] \in Pagetable
    BY <1>0, <1>3 DEF MapDoes, TypeOK
  <2>3. PICK n \in Nat \ {0}, m \in 1..2 :
         /\ At(table[t].entries, n, m) = 0
         /\ \A i \in Nat, h \in 1..2 :
               At(tb.entries, i, h) = IF i = n /\ h = m THEN p ELSE At(table[t].entries, i, h)
    BY <2>1 DEF OnePageMore, Puts
  <2>4. ASSUME NEW q \in PagesOf(table[t]) PROVE q \in PagesOf(tb)
    <3>1. PICK i \in Nat, h \in 1..2 : At(table[t].entries, i, h) = q /\ q \in 1 .. NumPages - 1
      BY <2>2, PagesAt
    <3>2. q # 0
      BY <3>1, MemoryAssumption
    <3>3. At(tb.entries, i, h) = q
      BY <2>3, <3>1, <3>2
    <3> QED BY <3>1, <3>3, PagesAt
  <2> QED BY <1>0, <2>1, <2>2, <2>4, HasChanged DEF NewTable, Has
<1>4. ASSUME NEW c \in Cpu, NEW t \in Thread, ProtectDoes(c, t) PROVE HasKept
  <2>1. PICK tb \in Pagetable : NewTable(t, tb) /\ SamePages(table[t], tb)
    BY <1>4 DEF ProtectDoes
  <2>2. UNCHANGED left /\ table[t] \in Pagetable
    BY <1>0, <1>4 DEF ProtectDoes, TypeOK
  <2>3. ASSUME NEW q \in PagesOf(table[t]) PROVE q \in PagesOf(tb)
    BY <2>1, <2>2, PagesAt DEF SamePages
  <2> QED BY <1>0, <2>1, <2>2, <2>3, HasChanged DEF NewTable, Has
<1>5. ASSUME NEW c \in Cpu, NEW t \in Thread, FinishDoes(c, t) PROVE HasKept
  <2>1. left' = [left EXCEPT ![t] = left[t] \cup PagesOf(table[t])]
        /\ table' = [table EXCEPT ![t] = NoTable]
    BY <1>5 DEF FinishDoes
  <2>2. left'[t] = left[t] \cup PagesOf(table[t]) /\ \A a \in Thread : a # t => left'[a] = left[a]
    BY <1>0, <2>1 DEF TypeOK
  <2> QED BY <1>0, <2>1, <2>2, HasChanged DEF Has
<1> QED BY <1>1, <1>2, <1>3, <1>4, <1>5 DEF Effect, vars, KmallocDoes, VmInitDoes, SpawnDoes,
           SwitchDoes, OpenDoes, FillDoes, StoreDoes

\* A row is kept, or is an entry of the page table of the thread it is for.
LEMMA RowsFrom ==
    ASSUME IInv, Effect, ~ Panic, NEW c \in Cpu, NEW i \in 1..TlbSize
    PROVE  \/ tlb'[c][i] = tlb[c][i]
           \/ \E t \in Thread : /\ table'[t] = table[t] /\ tlb'[c][i].asid = t
                                /\ i \in DOMAIN table[t].entries
                                /\ tlb'[c][i] = table[t].entries[i]
<1>1. ASSUME NEW d \in Cpu, NEW t \in Thread, table[t] # NoTable, Filled(d, table[t]),
             UNCHANGED table, tlb'[c][i] # tlb[c][i]
      PROVE  /\ table'[t] = table[t] /\ tlb'[c][i].asid = t
             /\ i \in DOMAIN table[t].entries /\ tlb'[c][i] = table[t].entries[i]
  <2>1. d = c /\ i \in DOMAIN table[t].entries /\ tlb'[c][i] = table[t].entries[i]
    BY <1>1 DEF Filled
  <2> QED BY <1>1, <2>1 DEF IInv, ThreadInv
<1>2. CASE UNCHANGED tlb
  BY <1>2
<1>3. ASSUME NEW d \in Cpu, NEW t \in Owner, SwitchDoes(d, t), tlb' # tlb
      PROVE  t \in Thread /\ table[t] # NoTable /\ Filled(d, table[t]) /\ UNCHANGED table
  BY <1>3 DEF SwitchDoes
<1>4. ASSUME NEW d \in Cpu, NEW t \in Thread, FillDoes(d, t)
      PROVE  table[t] # NoTable /\ Filled(d, table[t]) /\ UNCHANGED table
  BY <1>4 DEF FillDoes, LoadDone, Loading
<1> QED BY <1>1, <1>2, <1>3, <1>4 DEF Effect, vars, cpus, KmallocDoes, VmInitDoes, SpawnDoes,
           CreateDoes, OpenDoes, MapDoes, StoreDoes, ProtectDoes, FinishDoes

LEMMA OriginReset == Reset => OriginInv
<1> SUFFICES ASSUME Reset PROVE OriginInv
  OBVIOUS
<1>1. \A c \in Cpu, i \in 1..TlbSize, h \in 1..2 : tlb[c][i].pfn[h] = 0
  BY DEF Reset, Each, EmptyTlb, NoEntry
<1>2. \A t \in Thread : table[t] = NoTable
  BY DEF Reset, Each
<1> QED BY <1>1, <1>2 DEF OriginInv

LEMMA OriginPanic == Panic => OriginInv'
<1>1. Panic => Reset'
  BY DEF Panic, Reset
<1>2. Reset' => OriginInv'
  BY OriginReset, PTL
<1> QED BY <1>1, <1>2

\* Steps that end in something else than Start.
LEMMA NotStart ==
    /\ One("open") # Start
    /\ \A s \in Seq(Step) : s # <<>> /\ s[Len(s)].op = "fill" => s # Start
    /\ \A s \in Seq(Step) : (\A i \in DOMAIN s : s[i].op \in LoadOps) => s # Start
  BY DEF One, Start, Do, LoadOps

LEMMA FreshStep ==
    ASSUME IInv, OriginInv, Effect, ~ Panic, NEW u \in Thread,
           status'[u] = "live", todo'[u] = Start
    PROVE  table'[u] = NoTable
<1>0. TypeOK /\ ThreadInv
  BY DEF IInv
<1>1. ASSUME table'[u] = table[u], todo'[u] = todo[u], status[u] = "live" PROVE table'[u] = NoTable
  BY <1>1 DEF OriginInv
<1>2. ASSUME NEW t \in Thread, SpawnDoes(t) PROVE table'[u] = NoTable
  BY <1>0, <1>1, <1>2 DEF SpawnDoes, ThreadInv, TypeOK
<1>3. ASSUME NEW c \in Cpu, NEW t \in Owner, SwitchDoes(c, t) PROVE table'[u] = NoTable
  BY <1>0, <1>1, <1>3 DEF SwitchDoes, TypeOK
<1>4. ASSUME NEW c \in Cpu, NEW t \in Thread, CreateDoes(c, t) PROVE table'[u] = NoTable
  BY <1>0, <1>1, <1>4, NotStart DEF CreateDoes, NewTable, TypeOK
<1>5. ASSUME NEW c \in Cpu, NEW t \in Thread, OpenDoes(c, t) PROVE table'[u] = NoTable
  BY <1>0, <1>1, <1>5, NotStart DEF OpenDoes, NewSteps, FitSteps, TypeOK
<1>6. ASSUME NEW t \in Thread, NEW op, LoadDone(t, op)
      PROVE  u # t /\ todo'[u] = todo[u]
  BY <1>0, <1>6, NotStart DEF LoadDone, NewSteps, TypeOK
<1>7. ASSUME NEW c \in Cpu, NEW t \in Thread, MapDoes(c, t) \/ ProtectDoes(c, t)
      PROVE  table'[u] = NoTable
  BY <1>0, <1>1, <1>6, <1>7 DEF MapDoes, ProtectDoes, NewTable, TypeOK
<1>8. ASSUME NEW c \in Cpu, NEW t \in Thread, FillDoes(c, t) \/ StoreDoes(c, t)
      PROVE  table'[u] = NoTable
  BY <1>0, <1>1, <1>6, <1>8 DEF FillDoes, StoreDoes, TypeOK
<1>9. ASSUME NEW c \in Cpu, NEW t \in Thread, FinishDoes(c, t) PROVE table'[u] = NoTable
  BY <1>0, <1>1, <1>9 DEF FinishDoes, TypeOK
<1>10. CASE UNCHANGED vars \/ KmallocDoes \/ VmInitDoes
  BY <1>1, <1>10 DEF vars, KmallocDoes, VmInitDoes
<1> QED BY <1>2, <1>3, <1>4, <1>5, <1>7, <1>8, <1>9, <1>10 DEF Effect

LEMMA OriginStep == IInv /\ OriginInv /\ [Next]_vars => OriginInv'
<1> SUFFICES ASSUME IInv, OriginInv, [Next]_vars, ~ Panic PROVE OriginInv'
  BY OriginPanic
<1>1. Effect /\ HasKept /\ TypeOK
  BY NextEffect, HasStep DEF IInv
<1>2. ASSUME NEW c \in Cpu, NEW i \in 1..TlbSize, NEW h \in 1..2, tlb'[c][i].pfn[h] # 0
      PROVE  (tlb[c][i].asid \in Thread /\ Has(tlb[c][i].asid, tlb[c][i].pfn[h]))'
  <2>1. CASE tlb'[c][i] = tlb[c][i]
    BY <1>1, <1>2, <2>1 DEF OriginInv, HasKept, Has
  <2>2. ASSUME NEW t \in Thread, table'[t] = table[t], tlb'[c][i].asid = t,
               i \in DOMAIN table[t].entries, tlb'[c][i] = table[t].entries[i]
        PROVE  (tlb[c][i].asid \in Thread /\ Has(tlb[c][i].asid, tlb[c][i].pfn[h]))'
    <3>1. table[t] \in Pagetable
      BY <1>1 DEF TypeOK
    <3>2. table[t].entries[i].pfn[h] \in 1 .. NumPages - 1
      <4>1. table[t].entries[i] \in Entry
        BY <2>2, <3>1, TableParts
      <4>2. table[t].entries[i].pfn[h] \in Page
        BY <4>1 DEF Entry
      <4> QED BY <1>2, <2>2, <4>2, MemoryAssumption DEF Page
    <3>3. table[t].entries[i].pfn[h] \in PagesOf(table[t])
      BY <2>2, <3>2 DEF PagesOf
    <3>4. tlb'[c][i].pfn[h] \in PagesOf(table'[t])
      BY <2>2, <3>3
    <3> QED BY <2>2, <3>4 DEF Has
  <2> QED BY <1>1, <2>1, <2>2, RowsFrom
<1>3. \A u \in Thread : status'[u] = "live" /\ todo'[u] = Start => table'[u] = NoTable
  BY <1>1, FreshStep
<1> QED BY <1>2, <1>3 DEF OriginInv

\* Every TLB row that matches while a thread with a page table runs reaches a
\* page of that program or one left by a finished program with the same thread
\* ID, and nothing of anybody else who lives, of a page table, of the kernel or
\* of the free pool (tlb_fill, vm_destroy_pagetable).
THEOREM IsolationCorrect == Spec => []Isolated
<1>1. IInv /\ OriginInv => Isolated
  <2> SUFFICES ASSUME IInv, OriginInv, NEW c \in Cpu, NEW t \in Thread, current[c] = t,
                      table[t] # NoTable, NEW i \in 1..TlbSize, tlb[c][i].asid = asid[c],
                      NEW h \in 1..2, tlb[c][i].pfn[h] # 0
               PROVE  /\ tlb[c][i].pfn[h] \in PagesOf(table[t]) \union left[t]
                      /\ tlb[c][i].pfn[h] \in reserved /\ tlb[c][i].pfn[h] >= static_end
                      /\ \A u \in Thread, j \in 0..TlbSize, k \in 1..2 :
                            PageAt(u, j, k) = tlb[c][i].pfn[h] => u = t /\ j # 0
    BY DEF Isolated
  <2>1. asid[c] = t
    BY DEF IInv, AsidInv
  <2>2. RowInv
    BY DEF IInv
  <2>3. tlb[c][i].pfn[h] \in PagesOf(table[t]) \union left[t]
    BY <2>1 DEF OriginInv, Has
  <2> QED BY <2>1, <2>2, <2>3 DEF RowInv
<1>2. Init => OriginInv
  BY OriginReset DEF Init, Reset
<1> QED BY <1>1, <1>2, OriginStep, InvCorrect, PTL DEF Spec

=============================================================================
