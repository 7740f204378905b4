----------------------------- MODULE AVLSearch -----------------------------
(***************************************************************************)
(* The read-only operations of avl_t: iteration, searches by key, sums of  *)
(* everything before or after a key or a node, and the n-th unit of weight.*)
(* The source spells each sum out for the left and for the right; here the *)
(* side d is a parameter (the sum of what lies on side d).  Aggregates for *)
(* which the caller gives `combine' and `exclude' are modelled by the      *)
(* finest one: how often each node was combined minus how often excluded.  *)
(***************************************************************************)
EXTENDS AVL

Begin(t) == IF t.root = Nil THEN Nil ELSE Most(t, t.root, L)

\* The ancestor reached by leaving kids on side d.
Climb(t, n, d) ==
  LET up[x \in Node] ==
        LET p == t.parent[x] IN IF p # Nil /\ t.kid[p][d] = x THEN up[p] ELSE x
  IN up[n]

\* Variant: the parent itself, without the climb.
StepToParent(t, n, d) ==
  IF n = Nil THEN IF t.root = Nil THEN Nil ELSE Most(t, t.root, -d)
  ELSE IF t.kid[n][d] # Nil THEN Most(t, t.kid[n][d], -d)
  ELSE t.parent[n]

\* _next (d = R) and _prev (d = L); from the end, the first or the last node.
Step(t, n, d) ==
  IF n = Nil THEN IF t.root = Nil THEN Nil ELSE Most(t, t.root, -d)
  ELSE IF t.kid[n][d] # Nil THEN Most(t, t.kid[n][d], -d)
  ELSE t.parent[Climb(t, n, d)]

-----------------------------------------------------------------------------
(* By key                                                                  *)

Find(t, key) ==
  LET down[n \in Node \cup {Nil}] ==
        IF n = Nil \/ KeyOf[n] = key THEN n
        ELSE down[t.kid[n][IF key < KeyOf[n] THEN L ELSE R]]
  IN down[t.root]

\* The last node met that is not below the key (lower) or is above it (upper).
Bound(t, key, upper) ==
  LET down[n \in Node \cup {Nil}, best \in Node \cup {Nil}] ==
        IF n = Nil THEN best
        ELSE IF IF upper THEN KeyOf[n] <= key ELSE KeyOf[n] < key
             THEN down[t.kid[n][R], best] ELSE down[t.kid[n][L], n]
  IN down[t.root, Nil]

LowerBound(t, key) == Bound(t, key, FALSE)
UpperBound(t, key) == Bound(t, key, TRUE)

\* The position just before hint if the key belongs there, otherwise no
\* handle.
NoHandle == "none"
HintHandle(t, key, hint) ==
  LET last == Most(t, t.root, R)
      before == Step(t, hint, L)
  IN IF t.root = Nil THEN Root
     ELSE IF hint = Nil THEN IF key < KeyOf[last] THEN NoHandle ELSE <<last, R>>
     ELSE IF KeyOf[hint] < key THEN NoHandle
     ELSE IF before # Nil /\ key < KeyOf[before] THEN NoHandle
     ELSE IF t.kid[hint][L] # Nil THEN <<before, R>> ELSE <<hint, L>>

\* insert_and_get_sum_left: the weight of the nodes the new one comes after.
SumForInsert(t, key) ==
  LET down[n \in Node \cup {Nil}] ==
        IF n = Nil THEN 0
        ELSE IF key < KeyOf[n] THEN down[t.kid[n][L]]
        ELSE t.sum[n] - SumOf(t, t.kid[n][R]) + down[t.kid[n][R]]
  IN down[t.root]

-----------------------------------------------------------------------------
(* Sums                                                                    *)

Beyond(n, key, inc, d) ==      \* n lies on side d of key
  IF d = L THEN KeyOf[n] < key \/ (inc /\ KeyOf[n] = key)
  ELSE key < KeyOf[n] \/ (inc /\ KeyOf[n] = key)

NoneCounted == [n \in Node |-> 0]
Plus(f, S) == [n \in Node |-> f[n] + IF n \in S THEN 1 ELSE 0]
Minus(f, S) == [n \in Node |-> f[n] - IF n \in S THEN 1 ELSE 0]

SumByKey(t, key, inc, d) ==
  LET down[n \in Node \cup {Nil}] ==
        IF n = Nil THEN 0
        ELSE IF Beyond(n, key, inc, d)
        THEN t.sum[n] - SumOf(t, t.kid[n][-d]) + down[t.kid[n][-d]]
        ELSE down[t.kid[n][d]]
  IN down[t.root]

SumRangeII(t, lower, upper) ==
  LET below == SumByKey(t, lower, FALSE, L)
      upto  == SumByKey(t, upper, TRUE, L)
  IN IF upto >= below THEN upto - below ELSE 0

RECURSIVE CombineByKey(_, _, _, _, _, _, _)
\* get_sum_left(key, agg, combine, exclude): a subtree is combined when the
\* walk enters the wanted side, and excluded when it leaves it.
CombineByKey(t, n, key, inc, d, agg, combining) ==
  IF n = Nil THEN agg
  ELSE IF Beyond(n, key, inc, d)
  THEN CombineByKey(t, t.kid[n][-d], key, inc, d,
                    IF combining THEN Plus(agg, t.sub[n]) ELSE agg, FALSE)
  ELSE CombineByKey(t, t.kid[n][d], key, inc, d,
                    IF combining THEN agg ELSE Minus(agg, t.sub[n]), TRUE)

RECURSIVE CombineOnlyByKey(_, _, _, _, _, _)
CombineOnlyByKey(t, n, key, inc, d, agg) ==
  IF n = Nil THEN agg
  ELSE IF Beyond(n, key, inc, d)
  THEN CombineOnlyByKey(t, t.kid[n][-d], key, inc, d,
                        Plus(Plus(agg, {n}), SubOf(t, t.kid[n][d])))
  ELSE CombineOnlyByKey(t, t.kid[n][d], key, inc, d, agg)

SumByNode(t, node, inc, d) ==
  LET up[n \in Node] ==
        LET p == t.parent[n]
        IN IF p = Nil THEN 0
           ELSE up[p] + IF t.kid[p][-d] = n THEN t.sum[p] - t.sum[n] ELSE 0
  IN up[node] + IF inc THEN t.sum[node] - SumOf(t, t.kid[node][-d])
                ELSE SumOf(t, t.kid[node][d])

RECURSIVE CombineSpines(_, _, _, _)
\* The loop of get_sum_left(node, agg, combine, exclude).
CombineSpines(t, cur, d, agg) ==
  IF cur = Nil THEN agg
  ELSE LET top == Climb(t, cur, -d)
           now == Minus(Plus(agg, t.sub[top]), SubOf(t, t.kid[cur][-d]))
       IN IF t.parent[top] = Nil THEN now
          ELSE CombineSpines(t, t.parent[Climb(t, t.parent[top], d)], d, now)

CombineByNode(t, node, inc, d) ==
  LET agg == CombineSpines(t, IF inc THEN node ELSE t.parent[Climb(t, node, d)],
                           d, NoneCounted)
  IN IF inc THEN agg ELSE Plus(agg, SubOf(t, t.kid[node][d]))

RECURSIVE CombineOnlyUp(_, _, _, _)
CombineOnlyUp(t, n, d, agg) ==
  LET p == t.parent[n]
  IN IF p = Nil THEN agg
     ELSE CombineOnlyUp(t, p, d,
            IF t.kid[p][-d] = n THEN Plus(Plus(agg, {p}), SubOf(t, t.kid[p][d])) ELSE agg)

CombineOnlyByNode(t, node, inc, d) ==
  CombineOnlyUp(t, node, d,
    Plus(Plus(NoneCounted, IF inc THEN {node} ELSE {}), SubOf(t, t.kid[node][d])))

\* Variant: the fast path for a zero offset.
NthUnitFast(t, offset) ==
  LET down[n \in Node \cup {Nil}, k \in Nat] ==
        LET below == SumOf(t, t.kid[n][L])
        IN IF n = Nil THEN <<Nil, k>>
           ELSE IF k = 0 THEN <<Most(t, n, L), 0>>
           ELSE IF k < below THEN down[t.kid[n][L], k]
           ELSE IF k - below < WeightOf[n] THEN <<n, k - below>>
           ELSE down[t.kid[n][R], k - below - WeightOf[n]]
  IN down[t.root, offset]

\* get_nth_node: the node holding the given unit of weight, and the offset
\* within it.
NthUnit(t, offset) ==
  LET down[n \in Node \cup {Nil}, k \in Nat] ==
        LET below == SumOf(t, t.kid[n][L])
        IN IF n = Nil THEN <<Nil, k>>
           ELSE IF k < below THEN down[t.kid[n][L], k]
           ELSE IF k - below < WeightOf[n] THEN <<n, k - below>>
           ELSE down[t.kid[n][R], k - below - WeightOf[n]]
  IN down[t.root, offset]

\* get_nth_node(offset, exclude_subtree, exclude_node), as get_nth calls it:
\* every node counts for one.
NthNode(t, offset) ==
  LET size(n) == IF n = Nil THEN 0 ELSE Cardinality(t.sub[n])
      down[n \in Node \cup {Nil}, k \in Nat] ==
        LET left == t.kid[n][L]
        IN IF n = Nil THEN Nil
           ELSE IF left # Nil /\ k < size(left) THEN down[left, k]
           ELSE IF k = size(left) THEN n
           ELSE down[t.kid[n][R], k - size(left) - 1]
  IN down[t.root, offset]

-----------------------------------------------------------------------------
(* The source's names of the two sides                                     *)

SumLeft(t, key, inc)       == SumByKey(t, key, inc, L)
SumRight(t, key, inc)      == SumByKey(t, key, inc, R)
CombineLeft(t, key, inc)   == CombineByKey(t, t.root, key, inc, L, NoneCounted, TRUE)
CombineRight(t, key, inc)  == CombineByKey(t, t.root, key, inc, R, NoneCounted, TRUE)
GatherLeft(t, key, inc)    == CombineOnlyByKey(t, t.root, key, inc, L, NoneCounted)
GatherRight(t, key, inc)   == CombineOnlyByKey(t, t.root, key, inc, R, NoneCounted)
SumLeftOf(t, n, inc)       == SumByNode(t, n, inc, L)
SumRightOf(t, n, inc)      == SumByNode(t, n, inc, R)
CombineLeftOf(t, n, inc)   == CombineByNode(t, n, inc, L)
CombineRightOf(t, n, inc)  == CombineByNode(t, n, inc, R)
GatherLeftOf(t, n, inc)    == CombineOnlyByNode(t, n, inc, L)
GatherRightOf(t, n, inc)   == CombineOnlyByNode(t, n, inc, R)

-----------------------------------------------------------------------------
(* Repair and copying                                                      *)

RECURSIVE FixUp(_, _, _)
\* fix_agg_and_get_sum_left: n's weight has changed; <<tree, sum before n>>.
FixUp(t, n, agg) ==
  LET p == t.parent[n]
      new == FixType1(t, p)
  IN IF p = Nil THEN <<t, agg>>
     ELSE FixUp(new, p, agg + IF t.kid[p][R] = n THEN new.sum[p] - new.sum[n] ELSE 0)
FixAndSumLeft(t, n) == FixUp(FixType1(t, n), n, SumOf(t, t.kid[n][L]))

\* clone_from: the copies wait in a list threaded through their own links,
\* kid[R] the next copy and kid[L] the original, until it is their turn to
\* get children.  A copy has its original's name here; aggregates stay unset.
HungCopy(t, q, n, orig, d) ==
  LET k == t.kid[orig][d]
      listed == [q.copy EXCEPT !.kid[k] = (L :> k @@ R :> Nil), !.parent[k] = n,
                               !.hdiff[k] = t.hdiff[k]]
      linked == IF q.tail = Nil THEN listed ELSE [listed EXCEPT !.kid[q.tail][R] = k]
  IN IF k = Nil THEN [q EXCEPT !.copy.kid[n][d] = Nil]
     ELSE [copy |-> [linked EXCEPT !.kid[n][d] = k], tail |-> k,
           head |-> IF q.tail = Nil THEN k ELSE q.head]

RECURSIVE CloneRest(_, _)
CloneRest(t, q) ==
  IF q.head = Nil THEN q.copy
  ELSE LET orig == q.copy.kid[q.head][L]
           rest == q.copy.kid[q.head][R]
           popped == [q EXCEPT !.head = rest, !.tail = IF rest = Nil THEN Nil ELSE @]
       IN CloneRest(t, HungCopy(t, HungCopy(t, popped, q.head, orig, L), q.head, orig, R))

CloneFrom(t) ==
  IF t.root = Nil THEN EmptyTree
  ELSE CloneRest(t, [copy |-> [EmptyTree EXCEPT !.root = t.root, !.hdiff[t.root] = t.hdiff[t.root],
                                                !.kid[t.root] = (L :> t.root @@ R :> Nil)],
                     head |-> t.root, tail |-> t.root])
=============================================================================
