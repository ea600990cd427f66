CONSTANTS
    Clients = {1, 2, 3}
    Kinds <- MCKinds
    MaxFds = 3
    MaxFaulty = 1
    Faults = {"die", "stall", "halt", "sigterm"}
SPECIFICATION MCSpec
INVARIANTS
    TypeOK
    ServedInOrder
    ActsOnShownState
    KilledOnlyByDeadClient
PROPERTIES
    AnswerIsForLastCommand
    ClientEnds
    ShutdownIsServed
CHECK_DEADLOCK FALSE
