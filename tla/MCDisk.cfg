CONSTANTS
    Drive = {d1}
    Requester = {t1, t2, t3}
    CPU = {c1, c2}
    MaxSemaphores = 2
SPECIFICATION FairSpec
INVARIANTS TypeOK Safety
PROPERTIES ReturnsTransferred RequestReturns
