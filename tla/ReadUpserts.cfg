SPECIFICATION Spec
CONSTANTS
    a = a
    b = b
    c = c
    d = d
    e1 = e1
    NoRequest = NoRequest
    Events <- OneEvent
    Requests <- ThreeRequests
    Kinds <- ByWork
    Wanted = {"want", "reading", "finished"}
    Today = 1
    Days = {1, 2}
    SharedEvents = FALSE
SYMMETRY AnyRequest
PROPERTY HistoryKept
