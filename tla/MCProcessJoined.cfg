CONSTANTS
    MaxProcesses = 3
    JoinsOwnOnly = TRUE
    Workloads <- OrphansOnly
SPECIFICATION Spec
INVARIANT JoinedAreFreed
CHECK_DEADLOCK FALSE
