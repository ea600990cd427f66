CONSTANTS
    NVcpu = 2
    MaxSessions = 2
    Clients = {"pause", "resume"}
    GuestExits = {}
    Faults = {}
SPECIFICATION Spec
PROPERTIES
    ResumeWakesAll
CHECK_DEADLOCK FALSE
