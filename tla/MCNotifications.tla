-------------------------- MODULE MCNotifications --------------------------
(***************************************************************************)
(* Instances of Notifications for TLC.                                     *)
(***************************************************************************)
EXTENDS Notifications, TLC

CONSTANTS a, b

OneActor == {a}
TwoActors == {a, b}

Alike == Permutations(Actors)
=============================================================================
