---------------------------- MODULE MCDelivery ----------------------------
(***************************************************************************)
(* Delivery on one branch: a generation with both of its occurrences and a *)
(* conversation opening, drained by the supervisor and one command thread; *)
(* a clock of two values that may go back, so that leases expire under a   *)
(* drainer at work.                                                        *)
(***************************************************************************)
EXTENDS LifecycleDelivery, TLC

CONSTANTS after, committed, opened, room, supervisor, command

MCBranchOf == [o \in {after, committed, opened} |-> room]
MCIdRank == after :> 0 @@ opened :> 1 @@ committed :> 2
MCAfterGenerationOf == committed :> after
MCTime == {0, 1}
===========================================================================
