CONSTANTS
    Cpu = {c1, c2}
    Thread = {t1, t2}
    Idle = idle
    NumPages = 8
    PageSize = 8
    KernelEnd = 5
    KmallocSizes = {3, 80}
    MaxStatic = 8
    TlbSize = 3
    TableSize = 4
    StackTop = 8
    StackSize = 1
    Files <- MCFiles
    NoFile = nofile
SPECIFICATION Spec
INVARIANTS TypeOK PoolSound RunsInItsSpace Isolated
SYMMETRY Perms
