--------------------------- MODULE TreeMisraGries ---------------------------
(***************************************************************************)
(* TreeMisraGries of pmmg.{h,cpp}: a heavy-hitter sketch for any prefix of *)
(* the stream.  At the end of a timestamp, when enough weight has arrived, *)
(* the large counters of the running sketch move into a new leaf, and      *)
(* leaves are merged into perfect binary trees like the digits of a binary *)
(* counter.  A left child keeps its sketch, a right child does not.  As    *)
(* the stream grows, m_level rises and leaves start higher up.             *)
(*                                                                         *)
(* A pointer is a sequence of length 0 or 1 (a node's children: 0 or 2).   *)
(***************************************************************************)
EXTENDS MGSketch, SequencesExt

CONSTANTS
  EpsNum, EpsDen,   \* m_epsilon_prime = eps / 3
  Levels,           \* length of m_tree (64 in the code)
  MaxTotal,         \* bound on the weight of the stream
  MaxFree,          \* bound on the arrivals that bring any key
  MaxSame           \* bound on the arrivals at a timestamp already open

VARIABLES
  lastTs,      \* m_last_ts, 0 before the first update; consecutive
  tot,         \* m_tot_cnt
  sk,          \* m_cur_sketch
  tree,        \* m_tree: at each level no node or one
  level,       \* m_level
  remaining,   \* m_remaining_nodes_at_cur_level
  target,      \* m_target_cnt
  perNode,     \* m_max_cnt_per_node_at_cur_level
  exact,       \* history: the true counts
  closed       \* history: true counts and total at the end of each timestamp

vars == <<lastTs, tot, sk, tree, level, remaining, target, perNode, exact, closed>>

Level == 0 .. Levels - 1
NoCounts == [x \in Key |-> 0]

Init ==
  /\ lastTs = 0 /\ tot = 0
  /\ sk = EmptySketch
  /\ tree = [l \in Level |-> <<>>]
  /\ level = 0
  /\ remaining = 2 * K
  /\ target = 1 /\ perNode = 1
  /\ exact = NoCounts
  /\ closed = <<>>

-----------------------------------------------------------------------------
(* merge_cur_sketch                                                        *)

Leaf(mg) == [ts |-> lastTs, tot |-> tot, mg |-> <<mg>>, kids |-> <<>>]

\* The counters that move into the leaf.
IsLarge(c) == c * EpsDen >= tot * EpsNum

LargePart(q) == [x \in Key |-> IF IsLarge(q.cnt[x]) THEN q.cnt[x] ELSE 0]

\* The leaf is filled by one update per counter; there is room for all.
LeafSketch(q) ==
  [cnt |-> LargePart(q), min |-> MinOf(LargePart(q)), delta |-> 0]

\* m_min_cnt stays, as a lower bound, unless no counter is left.
SmallPart(q) ==
  LET left == [x \in Key |-> q.cnt[x] - LargePart(q)[x]]
  IN [cnt |-> left, min |-> IF InTable(left) = {} THEN NoMin ELSE q.min, delta |-> 0]

Merged(a, b) ==
  MergeInto(a, b, CHOOSE d \in Cuts(CntSum(ResetDelta(a).cnt, ResetDelta(b).cnt)) : TRUE)

\* Variants: the older subtree's counters are lost; the children are swapped.
JoinRightOnly(older, newer) ==
  [ts |-> lastTs, tot |-> tot, mg |-> newer.mg,
   kids |-> <<older, [newer EXCEPT !.mg = <<>>]>>]
JoinSwapped(older, newer) ==
  [ts |-> lastTs, tot |-> tot, mg |-> <<Merged(newer.mg[1], older.mg[1])>>,
   kids |-> <<newer, [older EXCEPT !.mg = <<>>]>>]

\* The parent takes over the right child's sketch and merges the left one's.
Join(older, newer) ==
  [ts |-> lastTs, tot |-> tot, mg |-> <<Merged(newer.mg[1], older.mg[1])>>,
   kids |-> <<older, [newer EXCEPT !.mg = <<>>]>>]

\* The level at which a new node finds its place.
FreeLevel == Min({l \in Level : level <= l /\ tree[l] = <<>>} \cup {Levels})

\* A new node is joined upwards from m_level until a level is free.
Carried(leaf) ==
  LET node[l \in level .. FreeLevel] ==
        IF l = level THEN leaf ELSE Join(tree[l - 1][1], node[l - 1])
  IN [l \in Level |-> CASE l \notin level .. FreeLevel -> tree[l]
                        [] l \in level .. FreeLevel - 1 -> <<>>
                        [] OTHER -> <<node[l]>>]

\* Variant: one leaf too few, so that the last one has no sibling.
QuotaOneShort == K - 1

\* Leaves per level from the second level on.
Quota == K

\* What an arrival of weight c at a new timestamp does first: the running
\* sketch that is left, and the new tree.
MergeCurSketch(c) ==
  /\ tree' = Carried(Leaf(LeafSketch(ResetDelta(sk))))
  /\ IF remaining = 1
     THEN /\ level' = level + 1 /\ remaining' = Quota /\ perNode' = 2 * perNode
     ELSE /\ remaining' = remaining - 1 /\ UNCHANGED <<level, perNode>>
  /\ target' = tot + perNode'

-----------------------------------------------------------------------------
(* The operations                                                          *)

\* Beyond MaxFree, the exploration only brings a most frequent key.
Explored(x) == tot < MaxFree \/ \A y \in Key : exact[y] <= exact[x]

Arrive(q, x, c) ==
  /\ tot + c <= MaxTotal /\ Explored(x)
  /\ sk' = UpdateImpl(q, x, c)
  /\ tot' = tot + c
  /\ exact' = [exact EXCEPT ![x] = @ + c]

UpdateSameTs(x) ==
  /\ tot < lastTs + MaxSame \/ lastTs = 0
  /\ Arrive(sk, x, 1)
  /\ lastTs' = IF lastTs = 0 THEN 1 ELSE lastTs
  /\ UNCHANGED <<tree, level, remaining, target, perNode, closed>>

UpdateNextTs(x) ==
  /\ lastTs > 0
  /\ IF tot + 1 >= target
     THEN MergeCurSketch(1) /\ Arrive(SmallPart(ResetDelta(sk)), x, 1)
     ELSE Arrive(sk, x, 1) /\ UNCHANGED <<tree, level, remaining, target, perNode>>
  /\ lastTs' = lastTs + 1
  /\ closed' = Append(closed, [exact |-> exact, tot |-> tot])

Clear ==
  /\ lastTs > 0
  /\ lastTs' = 0 /\ tot' = 0 /\ sk' = EmptySketch
  /\ tree' = [l \in Level |-> <<>>]
  /\ level' = 0 /\ remaining' = 2 * K /\ target' = 1 /\ perNode' = 1
  /\ exact' = NoCounts /\ closed' = <<>>

Next == (\E x \in Key : UpdateSameTs(x) \/ UpdateNextTs(x)) \/ Clear

Spec == Init /\ [][Next]_vars

-----------------------------------------------------------------------------
(* estimate_heavy_hitters                                                  *)

MergeNode(mg, node) == Merged(mg, node.mg[1])

\* One turn down a tree: into the left subtree when ts lies in it, else into
\* the right one, and the left one is merged.
DescendTurn(st, ts) ==
  IF st.node.kids = <<>> THEN st
  ELSE LET left == st.node.kids[1]
       IN IF left.ts > ts THEN [st EXCEPT !.node = left]
          ELSE [node |-> st.node.kids[2], mg |-> MergeNode(st.mg, left),
                est |-> left.tot, hit |-> TRUE]

\* The part of a tree up to ts: left subtrees that end by ts are merged.
Descend(root, mg, est, ts) ==
  LET walk[i \in 0 .. Levels] ==
        IF i = 0 THEN [node |-> root, mg |-> mg, est |-> est, hit |-> FALSE]
        ELSE DescendTurn(walk[i - 1], ts)
  IN walk[Levels]

\* One turn of the search, at level l.
SearchTurn(st, l, ts) ==
  IF l < level \/ tree[l] = <<>> THEN st
  ELSE LET node == tree[l][1]
       IN IF st.found THEN [st EXCEPT !.mg = MergeNode(@, node)]
          ELSE IF node.ts <= ts
          THEN [found |-> TRUE, mg |-> MergeNode(st.mg, node), est |-> node.tot]
          ELSE LET d == Descend(node, st.mg, st.est, ts)
               IN [found |-> d.hit, mg |-> d.mg, est |-> d.est]

\* The trees from m_level up are searched for the newest one that reaches
\* back to ts; the older ones are merged whole.
AnswerAt(ts) ==
  LET search[i \in 0 .. Levels] ==
        IF i > 0 THEN SearchTurn(search[i - 1], i - 1, ts)
        ELSE IF ts >= lastTs THEN [found |-> TRUE, mg |-> sk, est |-> tot]
        ELSE [found |-> FALSE, mg |-> EmptySketch, est |-> 0]
  IN search[Levels]

Closed == 1 .. Len(closed)

-----------------------------------------------------------------------------
(* Properties                                                              *)

\* When m_level rises no tree is left below it: queries and carries start at
\* m_level, a tree below would be lost and overtaken.
NothingBelowLevel == \A l \in Level : l < level => tree[l] = <<>>

\* A lower tree is newer than a higher one, a left subtree is older than its
\* sibling, and a parent ends where its right child ends: the search for a
\* timestamp relies on all three.
Generations(root) ==
  LET g[d \in 0 .. Levels] ==
        IF d = 0 THEN {root}
        ELSE UNION {{n.kids[i] : i \in DOMAIN n.kids} : n \in g[d - 1]}
  IN g

KidsInOrder(node) ==
  node.kids # <<>> =>
    /\ node.kids[1].ts < node.kids[2].ts /\ node.kids[2].ts = node.ts
    /\ node.kids[1].mg # <<>>

InOrder(root) ==
  \A d \in 0 .. Levels : \A n \in Generations(root)[d] : KidsInOrder(n)

Chronological ==
  /\ \A l \in Level : tree[l] # <<>> => InOrder(tree[l][1])
  /\ \A l, m \in Level :
       l < m /\ tree[l] # <<>> /\ tree[m] # <<>> => tree[l][1].ts > tree[m][1].ts

\* The answer about a past timestamp: never above the true counts; the
\* weight after the last leaf it can use is less than a node's share; and
\* up to that leaf it is short by at most the two terms the query's
\* threshold is lowered by, m_epsilon_prime and 1/k of the weight.
PastWithinEps ==
  \A ts \in Closed :
    LET a == AnswerAt(ts)
        tail == closed[ts].tot - a.est
    IN /\ tail >= 0 /\ tail < perNode
       /\ \A x \in Key :
            LET short == closed[ts].exact[x] - a.mg.cnt[x]
            IN /\ short >= 0
               /\ K * EpsDen * (short - tail) <= (EpsDen + K * EpsNum) * a.est
=============================================================================
