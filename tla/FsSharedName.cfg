CONSTANTS
    Procs = {1, 2, 3, 4}
    MaxBusy = 1
    Crashes = TRUE
SPECIFICATION Spec
INVARIANTS
    TypeOK
    ServingVmReachable
    NameExclusive
PROPERTIES
    RefusalExplained
CHECK_DEADLOCK FALSE
