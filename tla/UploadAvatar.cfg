SPECIFICATION Spec
CONSTANTS
    u1 = u1
    u2 = u2
    r1 = r1
    r2 = r2
    r3 = r3
    r4 = r4
    NoUpload = NoUpload
    Uploads <- TwoUploads
    Requests <- FourRequests
    Batch = 2
    MaxCrashes = 1
CHECK_DEADLOCK FALSE
SYMMETRY Alike
INVARIANTS TypeOK AvatarServed AcceptedStored ExpiredGone
