CONSTANTS
    a = a
    b = b
    Actors <- TwoActors
    Kinds = {"like", "follow"}
    Groups = {1, 2}
    Retries = 1
    MaxAsked = 2
    MaxDeaths = 2
    MaxDrops = 1
    MaxNights = 1
    MaxHides = 1
    MaxEvents = 2
SPECIFICATION FairSpec
CHECK_DEADLOCK FALSE
INVARIANTS QueuedHasJob ToldOnce
PROPERTY Told
