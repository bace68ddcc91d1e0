\* A like whose reply was lost, then an unlike.
SPECIFICATION Spec
CONSTANTS
  l1 = l1  s1 = s1  s2 = s2  t1 = t1  t2 = t2
  Locals <- NoEntity
  ServerIds <- NoEntity
  Targets <- OneTarget
  MaxRows = 3
  MaxAttempts = 2
  MaxFaults = 1
  MaxRetries = 0
  MaxCrashes = 0
  MaxForces = 0
  MaxSetBacks = 0
  MaxTroubles = 5
  LossyNetwork = TRUE
  StaleWrites = FALSE
  DoubleTaps = FALSE
CHECK_DEADLOCK FALSE
INVARIANTS
  CancelledNeverApplied
\* Refuted likewise. The connection comes back while a flush runs, with
\* MaxRows = 1, MaxForces = 1:
\*   ForceHonoured
\* Retry is tapped again while the row is being sent, with MaxRetries = 2,
\* DoubleTaps = TRUE:
\*   ClaimHeldAsStated
\* With Locals <- OneLocal, ServerIds <- OneServerId, a write queued behind a
\* swipe that finds the book in the library:
\*   DroppedCopySilent
\* With Locals <- OneLocal, ServerIds <- OneServerId, Targets <- NoEntity, a
\* review keyed by an id its flush has just remapped, with StaleWrites = TRUE,
\* or a clock set back between two writes, with MaxSetBacks = 1:
\*   FifoAsStated
