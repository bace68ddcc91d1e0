CONSTANTS
    c1 = c1
    c2 = c2
    Screens <- OneScreen
    SlowLists = TRUE
    MaxReads = 2
    MaxLocal = 2
    MaxWrites = 3
    MaxFaults = 2
    MaxElsewhere = 0
SPECIFICATION Spec
CHECK_DEADLOCK FALSE
INVARIANTS TypeOK DirtyQueued QueuedShown DeletedHidden
