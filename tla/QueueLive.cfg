\* Likes, follows and a read: coalescing, and every write sent in the end.
SPECIFICATION LiveSpec
CONSTANTS
  l1 = l1  s1 = s1  s2 = s2  t1 = t1  t2 = t2
  Locals <- NoEntity
  ServerIds <- OneServerId
  Targets <- OneTarget
  MaxRows = 2
  MaxAttempts = 2
  MaxFaults = 1
  MaxRetries = 2
  MaxCrashes = 1
  MaxForces = 0
  MaxSetBacks = 1
  MaxTroubles = 3
  LossyNetwork = TRUE
  StaleWrites = FALSE
  DoubleTaps = TRUE
CHECK_DEADLOCK FALSE
INVARIANTS ClaimHeld WishesReachServer
PROPERTIES PromptlySettled EventuallySettled
