---------------------------- MODULE MCMisraGries ----------------------------
(* Constants of the model-checked instances of MisraGries. *)
EXTENDS MisraGries, TLC

CONSTANTS k1, k2, k3, k4, s1, s2

TwoKeys == {k1, k2}
ThreeKeys == {k1, k2, k3}
FourKeys == {k1, k2, k3, k4}
OneSketch == {s1}
TwoSketches == {s1, s2}

UnitWeight == {1}
OneOrTwo == 1 .. 2

SymThree == Permutations(ThreeKeys) \cup Permutations(TwoSketches)
SymFour == Permutations(FourKeys) \cup Permutations(TwoSketches)
=============================================================================
