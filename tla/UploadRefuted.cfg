SPECIFICATION Spec
CONSTANTS
    u1 = u1
    u2 = u2
    r1 = r1
    r2 = r2
    r3 = r3
    r4 = r4
    NoUpload = NoUpload
    Uploads <- OneUpload
    Requests <- TwoRequests
    Batch = 1
    MaxCrashes = 0
CHECK_DEADLOCK FALSE
INVARIANT NeverBroken
\* Refuted likewise:
\*   NoRaceWithConsumer
\*   NeverLost
