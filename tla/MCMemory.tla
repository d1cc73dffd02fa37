------------------------------ MODULE MCMemory ------------------------------
(* Programs for Memory: two that load, one that needs no read-only segment,  *)
(* and files that process_start refuses.                                     *)
EXTENDS Memory, TLC

Load(w, v, filesz, memsz) ==
    [type |-> "load", write |-> w, vpage |-> v, filesz |-> filesz, memsz |-> memsz]
Other(kind) == [Load(FALSE, 0, 0, 0) EXCEPT !.type = kind]
Elf(hs) == [executable |-> TRUE, entry |-> 1, headers |-> hs]

MCFiles == {
    Elf(<<Other("ignored"), Load(FALSE, 1, 5, 8), Load(TRUE, 2, 0, 8)>>),
    Elf(<<Load(TRUE, 2, 8, 8)>>),
    Elf(<<Load(FALSE, 1, 8, 8), Load(TRUE, 1, 8, 8)>>),     \* overlapping
    Elf(<<Load(TRUE, 1, 8, 8), Load(TRUE, 2, 8, 8)>>),      \* two of a kind
    Elf(<<Load(FALSE, 1, 8, 40)>>),                         \* too large
    Elf(<<Other("unknown"), Load(TRUE, 2, 8, 8)>>),
    [Elf(<<Load(TRUE, 2, 8, 8)>>) EXCEPT !.entry = 0],
    [Elf(<<Load(TRUE, 2, 8, 8)>>) EXCEPT !.executable = FALSE]}

Perms == Permutations(Thread) \union Permutations(Cpu)
=============================================================================
