CONSTANTS
    Procs = {1, 2, 3}
    MaxBusy = 2
    Crashes = FALSE
SPECIFICATION Spec
INVARIANTS
    NameExclusive
CHECK_DEADLOCK FALSE
