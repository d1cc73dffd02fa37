CONSTANTS
    Thread = {t1, t2}
    MaxSockets = 1
    QueueSize = 2
    Port = {1, 2}
    NumPages = 3
    Protocol = {"POP"}
    MaxSignals = 1
    Private = FALSE
SPECIFICATION Spec
INVARIANT FramesInOnePlace
CHECK_DEADLOCK FALSE
