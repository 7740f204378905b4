-------------------------------- MODULE AVL --------------------------------
(***************************************************************************)
(* avl_t of avl.h: the balanced tree under the sampling sketches' maps.    *)
(* The tree does not own its nodes; a node brings its key.  A tree is a    *)
(* record of the fields the code keeps in the nodes: the two children, the *)
(* parent, hdiff = height of the right child minus height of the left one, *)
(* and two aggregates, one of each kind a descriptor can define:           *)
(*   sum   (type 1) the weight of the nodes below, always recomputed;      *)
(*   sub   (type 2) the set of nodes below, kept by insertion, deletion,   *)
(*         duplication and reconstruction hooks.                           *)
(* An operator takes a tree and returns the tree after the code's step.    *)
(***************************************************************************)
EXTENDS Integers, FiniteSets, Sequences, TLC

CONSTANTS
  Node,     \* the addresses of nodes
  KeyOf,    \* KeyOf[n]: the key stored in n
  WeightOf  \* WeightOf[n]: its weight, which may be 0

Nil == 0    \* nullptr

ASSUME NodeAssumption ==
  Nil \notin Node /\ KeyOf \in [Node -> Int] /\ WeightOf \in [Node -> Nat]

L == -1     \* a child's side; hdiff leans to the side of its sign
R == 1
Side == {L, R}
Root == "root"                      \* the handle of the empty tree
Handle == {Root} \cup (Node \X Side)

EmptyTree ==
  [root |-> Nil, kid |-> [n \in Node |-> [d \in Side |-> Nil]],
   parent |-> [n \in Node |-> Nil], hdiff |-> [n \in Node |-> 0],
   sum |-> [n \in Node |-> 0], sub |-> [n \in Node |-> {}]]

\* A freed node keeps nothing.
Forget(t, n) ==
  [t EXCEPT !.kid[n] = [d \in Side |-> Nil], !.parent[n] = Nil,
            !.hdiff[n] = 0, !.sum[n] = 0, !.sub[n] = {}]

-----------------------------------------------------------------------------
(* Links and aggregates                                                    *)

\* c, if any, becomes the child of p on side d.
SetKid(t, p, d, c) ==
  [t EXCEPT !.kid[p][d] = c,
            !.parent = IF c = Nil THEN @ ELSE [@ EXCEPT ![c] = p]]

\* Whether new, whose parent is set already, replaces old on the left; the
\* root counts as left.
OnLeft(t, old, new) == t.parent[new] = Nil \/ t.kid[t.parent[new]][L] = old

FixParent(t, old, new) ==
  IF t.parent[new] = Nil THEN [t EXCEPT !.root = new]
  ELSE [t EXCEPT !.kid[t.parent[new]][IF OnLeft(t, old, new) THEN L ELSE R] = new]

SumOf(t, n) == IF n = Nil THEN 0 ELSE t.sum[n]
SubOf(t, n) == IF n = Nil THEN {} ELSE t.sub[n]

FixType1(t, n) ==
  [t EXCEPT !.sum[n] = SumOf(t, t.kid[n][L]) + SumOf(t, t.kid[n][R]) + WeightOf[n]]
Duplicate(t, n, from) == [t EXCEPT !.sub[n] = t.sub[from]]
Reconstruct(t, n) ==
  [t EXCEPT !.sub[n] = SubOf(t, t.kid[n][L]) \cup SubOf(t, t.kid[n][R]) \cup {n}]

-----------------------------------------------------------------------------
(* Rotations of X whose child on side d is too high: _L and _RL for d = R, *)
(* _R and _LR for d = L.  The caller links the new top to X's old parent.  *)

\* Variant: the balance factors after a deletion are those of an insertion.
RotateOnceAsInserted(t, X, d) ==
  LET Z == t.kid[X][d]
      linked == [SetKid(t, X, d, t.kid[Z][-d]) EXCEPT
                   !.kid[Z][-d] = X, !.parent[Z] = t.parent[X], !.parent[X] = Z]
      leaning == [linked EXCEPT !.hdiff[X] = 0, !.hdiff[Z] = 0]
  IN Reconstruct(Duplicate(FixType1(FixType1(leaning, X), Z), Z, X), X)

RotateOnce(t, X, d) ==
  LET Z == t.kid[X][d]
      linked == [SetKid(t, X, d, t.kid[Z][-d]) EXCEPT
                   !.kid[Z][-d] = X, !.parent[Z] = t.parent[X], !.parent[X] = Z]
      even == t.hdiff[Z] = 0                             \* after a deletion only
      leaning == [linked EXCEPT !.hdiff[X] = IF even THEN d ELSE 0,
                                !.hdiff[Z] = IF even THEN -d ELSE 0]
  IN Reconstruct(Duplicate(FixType1(FixType1(leaning, X), Z), Z, X), X)

RotateTwice(t, X, d) ==
  LET Z == t.kid[X][d]
      W == t.kid[Z][-d]
      linked == [SetKid(SetKid(t, X, d, t.kid[W][-d]), Z, -d, t.kid[W][d]) EXCEPT
                   !.kid[W] = (-d :> X @@ d :> Z), !.parent[W] = t.parent[X],
                   !.parent[X] = W, !.parent[Z] = W]
      leaning == [linked EXCEPT !.hdiff[X] = IF t.hdiff[W] = d THEN -d ELSE 0,
                                !.hdiff[Z] = IF t.hdiff[W] = -d THEN d ELSE 0,
                                !.hdiff[W] = 0]
      counted == FixType1(FixType1(FixType1(leaning, X), Z), W)
  IN Reconstruct(Reconstruct(Duplicate(counted, W, X), X), Z)

\* The four rotations by the source's names.
RotL(t, X) == RotateOnce(t, X, R)
RotR(t, X) == RotateOnce(t, X, L)
RotRL(t, X) == RotateTwice(t, X, R)
RotLR(t, X) == RotateTwice(t, X, L)
Turned(t, X, d, twice) ==
  IF d = R THEN IF twice THEN RotRL(t, X) ELSE RotL(t, X)
  ELSE IF twice THEN RotLR(t, X) ELSE RotR(t, X)

-----------------------------------------------------------------------------
(* Insertion                                                               *)

RECURSIVE FixInserted(_, _, _)
\* Aggregates from cur up to the root.
FixInserted(t, cur, ins) ==
  IF cur = Nil THEN t
  ELSE FixInserted([FixType1(t, cur) EXCEPT !.sub[cur] = @ \cup {ins}], t.parent[cur], ins)

RECURSIVE Grown(_, _, _)
\* rebalance_for_insertion_and_fix_agg: the subtree at node has grown.
Grown(t, node, ins) ==
  LET cur == t.parent[node]
      d == IF t.kid[cur][R] = node THEN R ELSE L
  IN CASE cur = Nil -> t
       [] cur # Nil /\ t.hdiff[cur] = d ->
            LET told == [t EXCEPT !.sub[cur] = @ \cup {ins}]
                once == (t.hdiff[node] > 0) <=> (d = R)
                top  == IF once THEN node ELSE t.kid[node][-d]
                new  == FixParent(Turned(told, cur, d, ~once), cur, top)
            IN FixInserted(new, new.parent[top], ins)
       [] cur # Nil /\ t.hdiff[cur] = 0 ->
            Grown([FixType1(t, cur) EXCEPT !.sub[cur] = @ \cup {ins}, !.hdiff[cur] = d],
                  cur, ins)
       [] OTHER -> FixInserted([t EXCEPT !.hdiff[cur] = 0], cur, ins)

InsertAt(t, handle, n) ==
  LET hung == IF handle = Root THEN [t EXCEPT !.root = n]
              ELSE SetKid(t, handle[1], handle[2], n)
  IN Grown([FixType1(hung, n) EXCEPT !.sub[n] = {n}], n, n)

\* Variant: before the first node with an equal key.
FindHandleFirst(t, key) ==
  LET down[n \in Node] ==
        LET d == IF key <= KeyOf[n] THEN L ELSE R
        IN IF t.kid[n][d] = Nil THEN <<n, d>> ELSE down[t.kid[n][d]]
  IN IF t.root = Nil THEN Root ELSE down[t.root]

\* _find_handle_for_insert: after the last node with an equal key.
FindHandle(t, key) ==
  LET down[n \in Node] ==
        LET d == IF key < KeyOf[n] THEN L ELSE R
        IN IF t.kid[n][d] = Nil THEN <<n, d>> ELSE down[t.kid[n][d]]
  IN IF t.root = Nil THEN Root ELSE down[t.root]

Insert(t, n) == InsertAt(t, FindHandle(t, KeyOf[n]), n)

-----------------------------------------------------------------------------
(* Deletion                                                                *)

\* Variant: the replacing node is not distinguished.
LoseGone(t, cur, gone, leaf) == [t EXCEPT !.sub[cur] = @ \ {gone}]

\* Type-2 hook on the way up.  leaf is the node that takes the place of a
\* deleted node with two children, until the walk has passed it: below it
\* the aggregates lose leaf, above they lose the deleted node.
Lose(t, cur, gone, leaf) ==
  [t EXCEPT !.sub[cur] = @ \ {IF leaf \in {Nil, cur} THEN gone ELSE leaf}]
Passed(cur, leaf) == IF cur = leaf THEN Nil ELSE leaf

RECURSIVE FixDeleted(_, _, _, _)
FixDeleted(t, cur, gone, leaf) ==
  IF cur = Nil THEN t
  ELSE FixDeleted(Lose(FixType1(t, cur), cur, gone, leaf), t.parent[cur],
                  gone, Passed(cur, leaf))

RECURSIVE Shrunk(_, _, _, _, _)
\* rebalance_for_deletion_and_fix_agg: a subtree of cur, the left one if
\* delInLeft, has become lower.
Shrunk(t, cur, delInLeft, gone, leaf) ==
  LET d == IF delInLeft THEN R ELSE L                    \* the higher side
      passed == Passed(cur, leaf)
  IN CASE cur = Nil -> t
       [] cur # Nil /\ t.hdiff[cur] = -d ->
            LET up == t.parent[cur]
            IN Shrunk([Lose(FixType1(t, cur), cur, gone, leaf) EXCEPT !.hdiff[cur] = 0],
                      up, up # Nil /\ t.kid[up][L] = cur, gone, passed)
       [] cur # Nil /\ t.hdiff[cur] = 0 ->
            FixDeleted([t EXCEPT !.hdiff[cur] = d], cur, gone, leaf)
       [] OTHER ->
            LET Z == t.kid[cur][d]
                twice == t.hdiff[Z] = -d
                top == IF twice THEN t.kid[Z][-d] ELSE Z
                lost == Lose(t, cur, gone, leaf)
                turned == Turned(lost, cur, d, twice)
                new == FixParent(turned, cur, top)
            IN IF ~twice /\ turned.hdiff[top] # 0         \* the height is the old one
               THEN FixDeleted(new, new.parent[top], gone, passed)
               ELSE Shrunk(new, new.parent[top], OnLeft(turned, cur, top), gone, passed)

Most(t, n, d) ==      \* _left_most, _right_most
  LET down[x \in Node] == IF t.kid[x][d] = Nil THEN x ELSE down[t.kid[x][d]] IN down[n]

\* Case 1 of _remove: the next node in order, leaf, takes node's place.
RemoveInner(t, node) ==
  LET leaf == Most(t, t.kid[node][R], L)
      above == t.parent[leaf]
      placed == FixParent([t EXCEPT !.parent[leaf] = t.parent[node]], node, leaf)
      taken == Duplicate([SetKid(placed, leaf, L, t.kid[node][L]) EXCEPT
                            !.hdiff[leaf] = t.hdiff[node]], leaf, node)
  IN IF above = node THEN Shrunk(taken, leaf, FALSE, node, Nil)
     ELSE Shrunk(SetKid(SetKid(taken, leaf, R, t.kid[node][R]), above, L, t.kid[leaf][R]),
                 above, TRUE, node, leaf)

\* Cases 2 and 3: the only child takes node's place.
RemoveOuter(t, node, child) ==
  LET moved == [t EXCEPT !.parent[child] = t.parent[node]]
  IN Shrunk(FixParent(moved, node, child), t.parent[node],
            OnLeft(moved, node, child), node, Nil)

RemoveLeaf(t, node) ==
  LET up == t.parent[node]
      onLeft == up # Nil /\ t.kid[up][L] = node
  IN IF up = Nil THEN [t EXCEPT !.root = Nil]
     ELSE Shrunk([t EXCEPT !.kid[up][IF onLeft THEN L ELSE R] = Nil], up, onLeft, node, Nil)

Remove(t, node) ==
  LET kids == {t.kid[node][d] : d \in Side} \ {Nil}
  IN Forget(CASE t.kid[node][L] # Nil /\ t.kid[node][R] # Nil -> RemoveInner(t, node)
              [] Cardinality(kids) = 1 /\ Nil \in {t.kid[node][L], t.kid[node][R]} ->
                   RemoveOuter(t, node, CHOOSE c \in kids : TRUE)
              [] OTHER -> RemoveLeaf(t, node),
            node)
=============================================================================
