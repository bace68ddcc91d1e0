CONSTANTS
    r1 = r1
    r2 = r2
    r3 = r3
    Nobody = Nobody
    Users <- TwoUsers
    Requests <- ThreeRequests
SPECIFICATION Spec
INVARIANTS TypeOK NoFollowAcrossBlock CardsHaveFollows PrivateCards
SYMMETRY Alike
