CONSTANTS
    NVcpu = 1
    MaxSessions = 2
    Clients = {"pause", "resume"}
    GuestExits = {"IO"}
    Faults = {}
SPECIFICATION Spec
INVARIANTS
    NoSleeperWhileRunning
CHECK_DEADLOCK FALSE
