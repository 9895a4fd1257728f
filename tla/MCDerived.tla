------------------------------ MODULE MCDerived ------------------------------
(***************************************************************************)
(* Instances of DerivedOutbox: events e1, e2 and e3, one or two branches.  *)
(***************************************************************************)
EXTENDS DerivedOutbox, TLC

CONSTANTS e1, e2, e3, b1, b2, d1, d2, w1

OneLegacy == <<b1>>

\* Two unsealed rows wait on the other branch.
TwoLegacyElsewhere == <<b2, b2>>

\* Drainers are alike.
DerivedSymmetry == Permutations(Drainers)
=============================================================================
