--------------------------- MODULE MCLocalStorage ---------------------------
(***************************************************************************)
(* Instances of LocalStorage for TLC: three writers, one of which has less *)
(* to write than the others.                                               *)
(***************************************************************************)
EXTENDS LocalStorage, TLC

CONSTANTS w1, w2, w3

Sizes == w1 :> 1 @@ w2 :> 2 @@ w3 :> 2
Symmetry == Permutations({w2, w3})
=============================================================================
