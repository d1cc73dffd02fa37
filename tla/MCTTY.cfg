CONSTANTS
    w1 = w1  w2 = w2  r1 = r1  r2 = r2  k1 = k1
    Writer = {w1, w2}
    Reader = {r1, r2}
    Printer = {k1}
    Together <- Users
    CPU = {c1, c2}
    BufSize = 2
    Length <- Lengths
    ReadLen = 1
    MaxCalls = 2
    MaxInput = 3
SPECIFICATION FairSpec
INVARIANTS TypeOK InOrder InterruptWillCome
PROPERTY CallsReturn
CHECK_DEADLOCK FALSE
