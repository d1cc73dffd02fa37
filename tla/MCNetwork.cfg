CONSTANTS
    Thread = {t1}
    MaxSockets = 2
    QueueSize = 2
    Port = {1, 2}
    NumPages = 3
    Protocol = {"POP"}
    MaxSignals = 1
    Private = TRUE
SPECIFICATION Spec
INVARIANTS TypeOK Safety DeliveredRight
PROPERTY ReceiverServed
CHECK_DEADLOCK FALSE
