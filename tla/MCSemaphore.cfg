CONSTANTS
    Thread = {t1, t2, t3, t4, h}
    Handler = {h}
    MaxSemaphores = 1
    StartValues = {0, 1, 2}
    MaxSignals = 1
SPECIFICATION FairSpec
INVARIANT Safety
PROPERTIES ImplementsSemaphores GuardIsReached
