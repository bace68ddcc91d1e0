CONSTANTS
    d1 = d1
    d2 = d2
    c1 = c1
    c2 = c2
    q1 = q1
    q2 = q2
    q3 = q3
    Nobody = Nobody
    Devices <- OneDevice
    Callers <- TwoCallers
    Requests <- TwoSlots
    MaxTokens = 2
    MaxLost = 1
    Remote <- NoRemote
SPECIFICATION FairSpec
CHECK_DEADLOCK FALSE
INVARIANTS NoFalseAlarm
PROPERTY CallersResume
