--------------------------- MODULE MCOfflineReads ---------------------------
(***************************************************************************)
(* Instances of OfflineReads for TLC.                                      *)
(***************************************************************************)
EXTENDS OfflineReads

CONSTANTS c1, c2

OneScreen == {c1}
TwoScreens == {c1, c2}
=============================================================================
