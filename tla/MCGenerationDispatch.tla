------------------------ MODULE MCGenerationDispatch ------------------------
(***************************************************************************)
(* Small instances of GenerationDispatch: two sends of the same text, or a *)
(* send and a fork that replaces its message.                              *)
(***************************************************************************)
EXTENDS GenerationDispatch, TLC

CONSTANTS s1, s2, f1, c1, c2, t1, t2, p1, p2

\* Every send says the same; a fork replaces it by something else.
MCText == [op \in Ops |-> IF op \in Sends THEN t1 ELSE t2]

\* The sends share a provider, the forks another.
MCProvider == [op \in Ops |-> IF op \in Sends THEN p1 ELSE p2]

\* Callers are alike.
DispatchSymmetry == Permutations(Callers)
=============================================================================
