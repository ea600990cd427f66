CONSTANTS
    NVcpu = 2
    MaxSessions = 2
    Clients = {"resume", "shutdown"}
    GuestExits = {"HLT"}
    Faults = {}
SPECIFICATION PausedSpec
PROPERTIES
    SleepingVmShutsDown
    ResumedVcpuRuns
    ShutdownEndsLoop
    LogCallReturns
CHECK_DEADLOCK FALSE
