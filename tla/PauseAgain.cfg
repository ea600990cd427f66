CONSTANTS
    NVcpu = 1
    MaxSessions = 3
    Clients = {"pause", "resume"}
    GuestExits = {"IO"}
    Faults = {}
SPECIFICATION FairSpec
PROPERTIES
    PauseCompletes
CHECK_DEADLOCK FALSE
