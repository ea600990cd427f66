CONSTANTS
    NVcpu = 2
    MaxSessions = 2
    Clients = {"pause", "resume", "shutdown"}
    GuestExits = {"HLT"}
    Faults = {"thread"}
SPECIFICATION Spec
INVARIANTS
    NoUseAfterRelease
    NoEarlyRun
    JoinSeesShutdown
PROPERTIES
    KilledOnlyBeforeLoops
CHECK_DEADLOCK FALSE
