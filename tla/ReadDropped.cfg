SPECIFICATION Spec
CONSTANTS
    a = a
    b = b
    c = c
    d = d
    e1 = e1
    NoRequest = NoRequest
    Events <- OneEvent
    Requests <- FourRequests
    Kinds <- ByWork
    Wanted = {"reading", "finished"}
    Today = 1
    Days = {}
    SharedEvents = TRUE
SYMMETRY AnyRequest
INVARIANT ProgressKept
