----------------------------- MODULE MCUploads ------------------------------
(***************************************************************************)
(* Instances of Uploads for TLC: one or two uploads, so that an avatar is  *)
(* replaced, and three or four requests, so that one stands between two    *)
(* steps of another.                                                       *)
(***************************************************************************)
EXTENDS Uploads, TLC

CONSTANTS u1, u2, r1, r2, r3, r4

OneUpload == {u1}
TwoUploads == {u1, u2}
TwoRequests == {r1, r2}
ThreeRequests == {r1, r2, r3}
FourRequests == {r1, r2, r3, r4}

Alike == Permutations(Uploads) \cup Permutations(Requests)
=============================================================================
