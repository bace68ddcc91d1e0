SPECIFICATION Spec
CONSTANTS
    a = a
    b = b
    c = c
    d = d
    e1 = e1
    NoRequest = NoRequest
    Events <- OneEvent
    Requests <- ThreeRequests
    Kinds <- ByReadId
    Wanted = {"want", "reading", "finished", "dnf"}
    Today = 2
    Days = {1, 2, 3}
    SharedEvents = FALSE
SYMMETRY AnyRequest
INVARIANT TypeOK
PROPERTIES RefusedOnlyBackwards HistoryKept
