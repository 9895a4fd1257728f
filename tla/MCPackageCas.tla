---------------------------- MODULE MCPackageCas ----------------------------
(***************************************************************************)
(* Instances of PackageCas: imports of one package, or of packages that    *)
(* share an asset, next to a character card with the same asset.           *)
(***************************************************************************)
EXTENDS PackageCas, TLC

CONSTANTS i1, i2, a, b, s

OneSource == [i \in Imports |-> s]
SameAssets == [i \in Imports |-> Assets]
\* The second package declares the bytes of a with another type.
OtherMedia ==
  (i1 :> [o \in Assets |-> CardMedia])
  @@ (i2 :> [o \in Assets |-> IF o = a THEN CHOOSE x \in Media : x # CardMedia ELSE CardMedia])
=============================================================================
