---------------------------- MODULE MCSocialGraph ---------------------------
(***************************************************************************)
(* Instances of SocialGraph for TLC: two users and the requests that race  *)
(* over their pair; three users where a lock or a bulk answer spans pairs. *)
(***************************************************************************)
EXTENDS SocialGraph, TLC

CONSTANTS r1, r2, r3

TwoUsers == {1, 2}
ThreeUsers == {1, 2, 3}
TwoRequests == {r1, r2}
ThreeRequests == {r1, r2, r3}

Alike == Permutations(Requests)
=============================================================================
