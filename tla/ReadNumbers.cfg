SPECIFICATION FairSpec
CONSTANTS
    a = a
    b = b
    c = c
    d = d
    e1 = e1
    NoRequest = NoRequest
    Events <- OneEvent
    Requests <- ThreeRequests
    Kinds <- AnyKind
    Wanted = {"want", "finished", "dnf"}
    Today = 1
    Days = {}
    SharedEvents = FALSE
INVARIANTS NumbersAgreed NoGhostActivity ProgressKept
PROPERTY Answered
CHECK_DEADLOCK FALSE
