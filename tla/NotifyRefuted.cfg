CONSTANTS
    a = a
    b = b
    Actors <- TwoActors
    Kinds = {"like", "follow"}
    Groups = {1, 2}
    Retries = 2
    MaxAsked = 2
    MaxDeaths = 1
    MaxDrops = 0
    MaxNights = 1
    MaxHides = 0
    MaxEvents = 2
SPECIFICATION Spec
CHECK_DEADLOCK FALSE
INVARIANT LikesJoin
\* Refuted likewise:
\* INVARIANT DigestQueued
\* INVARIANT FollowToldOnce
\* with MaxDrops = 1, or with MaxDeaths = MaxEvents = 3:
\* INVARIANT LikesQueued
\* and with MaxHides = 1:
\* INVARIANT FollowsInDigest
