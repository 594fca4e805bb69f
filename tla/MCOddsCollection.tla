-------------------------- MODULE MCOddsCollection --------------------------
(***************************************************************************)
(* A small instance of OddsCollection: an automatic run and a run with an  *)
(* override to another game, a pilot checkpoint and a priority target.     *)
(***************************************************************************)
EXTENDS OddsCollection

CONSTANTS run1, run2, game1, game2, pilot1, priority1

MCKickoffTimes == (game1 :> {2, 3}) @@ (game2 :> {3})
MCTargetStart == (priority1 :> 3)
MCOverride == (run1 :> NoEvent) @@ (run2 :> game2)
MCEventOf == (pilot1 :> game1) @@ (priority1 :> game1)
MCBefore == (pilot1 :> 3) @@ (priority1 :> 3)
MCUntil == (pilot1 :> 0) @@ (priority1 :> 2)
MCRank == (pilot1 :> 20) @@ (priority1 :> 10)
MCCost == (pilot1 :> 2) @@ (priority1 :> 1)
=============================================================================
