CONSTANTS
    a = a
    b = b
    q1 = q1
    q2 = q2
    NoWork = NoWork
    Nobody = Nobody
    RowNos = {1, 2, 3, 4}
    Works <- TwoWorks
    Matches <- Stable
    Tagged = {1, 3}
    ChunkSize = 2
    ShelfRoom = 1
    Runs = {1, 2}
    Requests <- TwoRequests
    Kinds = {"resolve", "skip", "log", "drop"}
    MaxFaults = 1
SPECIFICATION Spec
CHECK_DEADLOCK FALSE
INVARIANT CountsTrue
\* Refuted likewise:
\* PROPERTY NoRace
\* PROPERTY StaysCompleted
