CONSTANTS
    MaxVcpu = 4
    MemPages = {0, 4, 5, 8}
SPECIFICATION Spec
INVARIANTS
    TypeOK
    StartedVmIsComplete
    TableWithinCapacity
    CleanLeavesOnlyUnfinishedVcpu
    StdinLostOnlyWithoutDevice
    
CHECK_DEADLOCK FALSE
