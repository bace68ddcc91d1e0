CONSTANTS
    c1 = c1
    c2 = c2
    Screens <- OneScreen
    SlowLists = FALSE
    MaxReads = 2
    MaxLocal = 1
    MaxWrites = 2
    MaxFaults = 0
    MaxElsewhere = 0
SPECIFICATION Spec
CHECK_DEADLOCK FALSE
INVARIANT DeletedHiddenAsStated
