CONSTANTS
    c1 = c1
    c2 = c2
    Screens <- OneScreen
    SlowLists = TRUE
    MaxReads = 2
    MaxLocal = 1
    MaxWrites = 3
    MaxFaults = 1
    MaxElsewhere = 1
SPECIFICATION Spec
CHECK_DEADLOCK FALSE
INVARIANTS QueuedShown DeletedHidden AddedTrue
PROPERTY RefreshTells
