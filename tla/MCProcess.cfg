CONSTANTS
    MaxProcesses = 4
    JoinsOwnOnly = TRUE
    Workloads <- MCWorkloads
SPECIFICATION Spec
INVARIANTS TypeOK TableSound
PROPERTIES JoinReturnsExitCode UnjoinedKept
CHECK_DEADLOCK FALSE
