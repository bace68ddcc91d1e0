------------------------- MODULE MCReadingAttempts -------------------------
(***************************************************************************)
(* Instances of ReadingAttempts for TLC. Two or three requests of one      *)
(* reader about one work: with one attempt logged before, that is enough   *)
(* for an attempt, its replacement, and a writer in between.               *)
(***************************************************************************)
EXTENDS ReadingAttempts, TLC

CONSTANTS a, b, c, d,   \* requests
          e1            \* a client event id

OneEvent == {e1}
TwoRequests == {a, b}
ThreeRequests == {a, b, c}
FourRequests == {a, b, c, d}

AnyRequest == Permutations(Requests)

ByReadId == {"finish", "dnf", "delete", "progress"}
ByWork == {"upsert", "delete", "progress"}
AnyKind == ByReadId \cup ByWork
UpsertOrFinish == {"upsert", "finish"}
UpsertOrDelete == {"upsert", "delete"}
OnlyFinish == {"finish"}
OnlyUpsert == {"upsert"}
=============================================================================
