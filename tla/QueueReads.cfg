\* The writes of reads: FIFO, remap, backoff, dead letters, crashes.
SPECIFICATION Spec
CONSTANTS
  l1 = l1  s1 = s1  s2 = s2  t1 = t1  t2 = t2
  Locals <- OneLocal
  ServerIds <- OneServerId
  Targets <- NoEntity
  MaxRows = 3
  MaxAttempts = 2
  MaxFaults = 2
  MaxRetries = 1
  MaxCrashes = 1
  MaxForces = 1
  MaxSetBacks = 0
  MaxTroubles = 2
  LossyNetwork = TRUE
  StaleWrites = TRUE
  DoubleTaps = FALSE
CHECK_DEADLOCK FALSE
INVARIANTS
  TypeOK
  Fifo
  LocalIdHasNoRead
