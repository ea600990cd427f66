CONSTANTS
    NVcpu = 1
    MaxSessions = 3
    Clients = {"pause", "resume", "shutdown", "status"}
    GuestExits = {"HLT", "IO", "UNKNOWN"}
    Faults = {"socket", "thread", "run", "client", "sigterm"}
SPECIFICATION Spec
INVARIANTS
    TypeOK
    NoSelfDeadlock
    FlagAgreesWithState
    ReplyMatchesVm
PROPERTIES
    RefinesLifecycle
CHECK_DEADLOCK FALSE
