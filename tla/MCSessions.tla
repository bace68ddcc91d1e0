----------------------------- MODULE MCSessions -----------------------------
(***************************************************************************)
(* Instances of Sessions for TLC: one or two devices of an account, two    *)
(* calls of the app at once, and a revocation from elsewhere.              *)
(***************************************************************************)
EXTENDS Sessions, TLC

CONSTANTS d1, d2, c1, c2, q1, q2, q3

OneDevice == {d1}
TwoDevices == {d1, d2}
OneCaller == {c1}
TwoCallers == {c1, c2}
TwoSlots == {q1, q2}
ThreeSlots == {q1, q2, q3}
NoRemote == {}
AllRemote == {"revoke", "all", "reset", "delete"}
Reset == {"reset"}
ResetDelete == {"reset", "delete"}

Alike == Permutations(Requests) \cup Permutations(Callers)
=============================================================================
