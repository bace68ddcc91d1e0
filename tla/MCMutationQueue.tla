--------------------------- MODULE MCMutationQueue ---------------------------
(* Model values and symmetry for checking MutationQueue with TLC.           *)
EXTENDS MutationQueue, TLC

CONSTANTS l1, s1, s2, t1, t2

OneLocal == {l1}
OneServerId == {s1}
TwoServerIds == {s1, s2}
OneTarget == {t1}
TwoTargets == {t1, t2}
NoEntity == {}

Symmetry == Permutations(ServerIds) \cup Permutations(Targets)
=============================================================================
