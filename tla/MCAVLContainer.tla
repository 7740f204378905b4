--------------------------- MODULE MCAVLContainer ---------------------------
(* Twelve nodes with keys 1, 2, 3, 3, 4, ..., one of them of weight 0.  Two *)
(* families of containers: one that starts empty and never needs more than  *)
(* Small nodes, and one constructed as a sparsest tree of height 5, leaning *)
(* outwards, inwards or the other way, where one removal makes the whole    *)
(* spine rebalance.                                                         *)
EXTENDS AVLContainer

MCNode == 1 .. 12
MCKeyOf == [n \in MCNode |-> IF n > 3 THEN n - 1 ELSE n]
MCWeightOf == [n \in MCNode |-> IF n = 3 THEN 0 ELSE IF n % 2 = 0 THEN 2 ELSE 1]

Outwards == <<8, 5, 11, 3, 7, 10, 12, 2, 4, 6, 9, 1>>
Inwards  == <<8, 3, 11, 1, 6, 9, 12, 2, 4, 7, 10, 5>>
MCSmall == 1 .. 8
MCRanges == {<<>>, Outwards, Inwards, [i \in 1 .. 12 |-> 13 - Outwards[i]]}

\* Bound: only these states are expanded.
Bounded == Held \subseteq Small \/ cnt = 12
=============================================================================
