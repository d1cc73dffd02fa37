CONSTANTS
    Drive = {d1, d2}
    Requester = {t1, t2}
    CPU = {c1, c2}
    MaxSemaphores = 1
SPECIFICATION Spec
INVARIANT SemaphoreLocked
