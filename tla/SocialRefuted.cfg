CONSTANTS
    r1 = r1
    r2 = r2
    r3 = r3
    Nobody = Nobody
    Users <- TwoUsers
    Requests <- TwoRequests
SPECIFICATION Spec
PROPERTY CardGoesWithFollow
\* Refuted likewise:
\* INVARIANT NoLockCycle
\* INVARIANT NoPendingOnPublic
\* INVARIANT RequestTold
