------------------------ MODULE MCDeliveryLiveness ------------------------
(***************************************************************************)
(* Progress of the delivery: a generation with both of its occurrences in  *)
(* one room and an opening of another room, drained by the supervisor and  *)
(* a command thread; one failing delivery of each and one end of the       *)
(* process.                                                                *)
(***************************************************************************)
EXTENDS LifecycleDelivery, TLC

CONSTANTS after, committed, opened, room, otherRoom, supervisor, command

MCBranchOf == after :> room @@ committed :> room @@ opened :> otherRoom
MCIdRank == after :> 0 @@ opened :> 1 @@ committed :> 2
MCAfterGenerationOf == committed :> after
MCTime == {0, 1}
===========================================================================
