------------------------- MODULE MCChainMisraGries -------------------------
(* Constants of the model-checked instances of ChainMisraGries. *)
EXTENDS ChainMisraGries

CONSTANTS k1, k2, k3, k4, k5

FourKeys == {k1, k2, k3, k4}
FiveKeys == {k1, k2, k3, k4, k5}

UnitWeight == {1}

SymFour == Permutations(FourKeys)
SymFive == Permutations(FiveKeys)
=============================================================================
