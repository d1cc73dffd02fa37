CONSTANTS
    MaxThreads = 3
    CPU = {c1, c2}
    Resource = {1, 2}
    HashSize = 1
SPECIFICATION FairSpec
INVARIANTS TypeOK Safety
PROPERTIES ImplementsSleepQueue WakeAllWakesAll ReadyRuns LeavesCpu
