----------------------- MODULE MCPersistentMisraGries -----------------------
(* Constants of the model-checked instance of PersistentMisraGries. *)
EXTENDS PersistentMisraGries, TLC

CONSTANTS k1, k2, k3, k4, k5, k6, k7

FiveKeys == {k1, k2, k3, k4, k5}
SevenKeys == FiveKeys \cup {k6, k7}
UnitWeight == {1}
SymFive == Permutations(FiveKeys)

\* Up to a permutation of the keys: k6 and k7 are the last to arrive first.
\* The trees are explored with five keys.
LastTwo ==
  /\ exact'[k6] > 0 => class = "CMG" /\ \A x \in FiveKeys : exact'[x] > 0
  /\ exact'[k7] > 0 => exact'[k6] > 0

\* CMG: after six arrivals of any kind, at most three more, within the first
\* two timestamps and with at most two keys that arrive a second time: enough
\* to need a counter more than there are if one is not given back.
Lean ==
  class = "CMG" /\ tot' > 6 =>
    /\ useNew /\ lastTs' <= 2 /\ \A x \in Key : exact'[x] <= 2
    /\ Cardinality({x \in Key : exact'[x] = 2}) <= 2
=============================================================================
