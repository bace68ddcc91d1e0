CONSTANTS
    a = a
    b = b
    q1 = q1
    q2 = q2
    NoWork = NoWork
    Nobody = Nobody
    RowNos = {1, 2}
    Works <- TwoWorks
    Matches <- Changing
    Tagged = {1}
    ChunkSize = 2
    ShelfRoom = 1
    Runs = {1, 2}
    Requests <- NoRequests
    Kinds = {"resolve", "skip", "log", "drop"}
    MaxFaults = 1
SPECIFICATION Spec
CHECK_DEADLOCK FALSE
INVARIANT Accounted
