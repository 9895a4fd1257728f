---------------------------- MODULE MCMemoryQueue ----------------------------
(***************************************************************************)
(* Stale claims, retries and the claim limits: three jobs of one task      *)
(* profile, two of them with the same input, two attempts each, at most    *)
(* two starts in any two ticks of a clock that moves freely.               *)
(***************************************************************************)
EXTENDS MemoryQueue, TLC

CONSTANTS k1, k2, k3, shared, own, profile

MCInputOf == k1 :> shared @@ k2 :> shared @@ k3 :> own
MCProfileOf == [k \in {k1, k2, k3} |-> profile]
MCConcurrencyLimit == profile :> 1
MCRateLimitRequests == profile :> 2
MCRateLimitWindow == profile :> 2
MCTime == 0 .. 2

\* The two jobs with the same input are alike.
MCSymmetry == Permutations({k1, k2})
=============================================================================
