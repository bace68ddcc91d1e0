SPECIFICATION Spec
CONSTANTS
    a = a
    b = b
    c = c
    d = d
    e1 = e1
    NoRequest = NoRequest
    Events <- OneEvent
    Requests <- TwoRequests
    Kinds <- AnyKind
    Wanted = {"want", "reading", "paused", "finished", "dnf"}
    Today = 1
    Days = {1, 2}
    SharedEvents = FALSE
PROPERTY TerminalKept
\* Refuted likewise:
\* INVARIANT FinishToldOnce
\* INVARIANT NeverVanishes
\* INVARIANT ReplayedFinishOnce
\* INVARIANT UndatedFinishAccepted
