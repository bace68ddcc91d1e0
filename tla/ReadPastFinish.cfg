SPECIFICATION Spec
CONSTANTS
    a = a
    b = b
    c = c
    d = d
    e1 = e1
    NoRequest = NoRequest
    Events <- OneEvent
    Requests <- TwoRequests
    Kinds <- OnlyUpsert
    Wanted = {"want", "finished"}
    Today = 2
    Days = {1, 2, 3}
    SharedEvents = FALSE
PROPERTY RefusedOnlyBackwards
