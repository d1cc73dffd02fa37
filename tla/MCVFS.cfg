CONSTANTS
    t1 = t1  t2 = t2  t3 = t3
    Thread = {t1, t2, t3}
    FS = {f1, f2}
    Name <- MCName
    Path <- MCPath
    NameLength = 3
    MaxFS = 2
    MaxFiles = 1
    MaxSeek = 0
    Calls <- MCCalls
SPECIFICATION FairSpec
INVARIANTS TypeOK Safety
PROPERTIES OpenFileIsKept HaltEnds CallsReturn
CHECK_DEADLOCK FALSE
