CONSTANTS
    d1 = d1
    d2 = d2
    c1 = c1
    c2 = c2
    q1 = q1
    q2 = q2
    q3 = q3
    Nobody = Nobody
    Devices <- OneDevice
    Callers <- OneCaller
    Requests <- TwoSlots
    MaxTokens = 3
    MaxLost = 1
    Remote <- Reset
SPECIFICATION Spec
CHECK_DEADLOCK FALSE
INVARIANT StaysSignedIn
\* Refuted likewise:
\* INVARIANT NothingHeldAfter
\* INVARIANT ResetEndsAll
\* PROPERTY EndsOwnSession
