CONSTANTS
    NVcpu = 1
    MaxSessions = 2
    Clients = {"pause", "status"}
    GuestExits = {"IO"}
    Faults = {}
SPECIFICATION Spec
INVARIANTS
    DumpSeesStoppedGuest
CHECK_DEADLOCK FALSE
