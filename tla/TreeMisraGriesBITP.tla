------------------------- MODULE TreeMisraGriesBITP -------------------------
(***************************************************************************)
(* TreeMisraGriesBITP of pmmg.{h,cpp}: a heavy-hitter sketch for any       *)
(* suffix (ts_s, now] of the stream.  Every closed timestamp becomes a     *)
(* leaf, leaves are joined into perfect binary trees, and once a level     *)
(* holds 2K nodes its two oldest ones are dropped whenever two new ones    *)
(* arrive: the past is kept at an ever coarser grain.                      *)
(*                                                                         *)
(* A node is named by its level and its first timestamp.  The circular     *)
(* list of a level (m_next, m_right_most_nodes) is the sequence of its     *)
(* nodes from the leftmost to the rightmost.                               *)
(***************************************************************************)
EXTENDS MGSketch, SequencesExt

CONSTANTS
  EpsNum, EpsDen,   \* m_epsilon_prime = eps / 3
  Levels,           \* length of m_tree (64 in the code)
  MaxTs,            \* bound on the timestamps
  MaxFree,          \* bound on the timestamps that bring any key
  MaxHeavy,         \* bound on the arrivals at a timestamp already open, of those
  MaxAgain          \* bound on the timestamps once the sketch was cleared

VARIABLES
  lastTs,      \* m_last_ts, 0 before the first update; consecutive
  tot,         \* m_tot_cnt
  sk,          \* m_cur_sketch
  nodes,       \* the nodes that are allocated
  tree,        \* m_tree: a node's name or <<>>
  row,         \* the list of each level
  level,       \* m_level
  remaining,   \* m_remaining_nodes_at_cur_level
  size,        \* m_size_counter
  tmp,         \* m_tmp_ts, m_tmp_mg and m_est_tot_cnt, or <<>>
  fault,       \* a pruning step met nodes it does not expect
  exact,       \* history: the true counts
  closed,      \* history: true counts and total at the end of each timestamp
  cleared      \* history: clear was called

vars == <<lastTs, tot, sk, nodes, tree, row, level, remaining, size, tmp, fault,
          exact, closed, cleared>>
forest == <<nodes, tree, row, level, remaining, size, fault>>

Level == 0 .. Levels - 1
NoCounts == [x \in Key |-> 0]

Empty == [l \in Level |-> <<>>]

Init ==
  /\ lastTs = 0 /\ tot = 0 /\ sk = EmptySketch /\ tmp = <<>>
  /\ nodes = <<>> /\ tree = Empty /\ row = Empty
  /\ level = 0 /\ remaining = 2 * K /\ size = 0
  /\ fault = FALSE /\ exact = NoCounts /\ closed = <<>> /\ cleared = FALSE

-----------------------------------------------------------------------------
(* merge_cur_sketch                                                        *)

\* A node's own bytes, and those of a sketch (memory_usage), in units.
NodeSize == 2
Usage(mg) == 1 + Cardinality(InTable(mg.cnt))

Merged(a, b) ==
  MergeInto(a, b, CHOOSE d \in Cuts(CntSum(ResetDelta(a).cnt, ResetDelta(b).cnt)) : TRUE)

Put(f, name, node) == [n \in DOMAIN f \cup {name} |-> IF n = name THEN node ELSE f[n]]

\* The end of the list of level l; m_prev is the former rightmost node.
PutLast(st, l, name) ==
  [st EXCEPT !.nodes[name].prev = IF st.row[l] = <<>> THEN <<>> ELSE Last(st.row[l]),
             !.row[l] = Append(@, name)]

\* Variant: the parent starts with the newer child's counters only.
JoinedRightOnly(st, l) ==
  LET left == st.tree[l]
      right == st.node
      up == <<l + 1, left[2]>>
      mg == st.nodes[right].mg[1]
      nodes1 == [st.nodes EXCEPT ![left].mg = <<>>, ![left].parent = up,
                                 ![right].parent = up]
  IN PutLast(
       [st EXCEPT !.nodes = Put(nodes1, up, [tot |-> tot, mg |-> <<mg>>, left |-> left,
                                  right |-> right, parent |-> <<>>, prev |-> <<>>]),
                  !.size = @ + NodeSize + Usage(mg) - Usage(st.nodes[left].mg[1]),
                  !.node = up, !.tree[l] = <<>>],
       l, right)

\* The parent takes over the older child's sketch and merges the newer one's,
\* which keeps its own.
Joined(st, l) ==
  LET left == st.tree[l]
      right == st.node
      up == <<l + 1, left[2]>>
      mg == Merged(st.nodes[left].mg[1], st.nodes[right].mg[1])
      nodes1 == [st.nodes EXCEPT ![left].mg = <<>>, ![left].parent = up,
                                 ![right].mg = <<ResetDelta(@[1])>>, ![right].parent = up]
  IN PutLast(
       [st EXCEPT !.nodes = Put(nodes1, up, [tot |-> tot, mg |-> <<mg>>, left |-> left,
                                  right |-> right, parent |-> <<>>, prev |-> <<>>]),
                  !.size = @ + NodeSize + Usage(mg) - Usage(st.nodes[left].mg[1]),
                  !.node = up, !.tree[l] = <<>>],
       l, right)

\* Variant: the bytes of the erased counters are still counted.
CompressedUncounted(st, p) ==
  LET node == st.nodes[p]
      since == tot - st.nodes[node.prev].tot
      whole == ResetDelta(node.mg[1])
      kept == [whole EXCEPT !.cnt = [x \in Key |->
                 IF @[x] <= (since * EpsNum) \div EpsDen THEN 0 ELSE @[x]]]
  IN IF node.mg = <<>> THEN st ELSE [st EXCEPT !.nodes[p].mg = <<kept>>]

\* A new leaf's counters that are small for the weight since its left
\* neighbour's end are erased.
Compressed(st, p) ==
  LET node == st.nodes[p]
      since == tot - st.nodes[node.prev].tot
      whole == ResetDelta(node.mg[1])
      kept == [whole EXCEPT !.cnt = [x \in Key |->
                 IF @[x] <= (since * EpsNum) \div EpsDen THEN 0 ELSE @[x]]]
  IN IF node.mg = <<>> THEN st
     ELSE IF node.prev \notin DOMAIN st.nodes THEN [st EXCEPT !.fault = TRUE]
     ELSE [st EXCEPT !.nodes[p].mg = <<kept>>,
                     !.size = @ - Usage(whole) + Usage(kept)]

\* What the assertions ask of the two leftmost nodes of a level.
TwoOldLeaves(st, n, n2) ==
  LET a == st.nodes[n]
      b == st.nodes[n2]
  IN /\ a.parent = b.parent
     /\ a.mg = <<>> /\ b.mg # <<>>
     /\ a.left = <<>> /\ a.right = <<>> /\ b.left = <<>> /\ b.right = <<>>

\* Variant: levels are pruned as soon as they are opened.
PrunedEarly(st, l) ==
  IF l > level THEN st
  ELSE LET n == st.row[l][1]
           n2 == st.row[l][2]
           p == st.nodes[n].parent
           left == [m \in DOMAIN st.nodes \ {n, n2} |-> st.nodes[m]]
       IN IF p = <<>> \/ ~TwoOldLeaves(st, n, n2) THEN [st EXCEPT !.fault = TRUE]
          ELSE Compressed(
                 [st EXCEPT !.nodes = [left EXCEPT ![p].left = <<>>, ![p].right = <<>>],
                            !.row[l] = SubSeq(@, 3, Len(@)),
                            !.size = @ - 2 * NodeSize - Usage(st.nodes[n2].mg[1])], p)

\* Variant: only the leftmost node is unlinked.
PrunedUnlinkingOne(st, l) ==
  IF l >= level THEN st
  ELSE LET n == st.row[l][1]
           n2 == st.row[l][2]
           p == st.nodes[n].parent
           left == [m \in DOMAIN st.nodes \ {n, n2} |-> st.nodes[m]]
       IN Compressed([st EXCEPT !.nodes = [left EXCEPT ![p].left = <<>>, ![p].right = <<>>],
                                !.row[l] = Tail(@),
                                !.size = @ - 2 * NodeSize - Usage(st.nodes[n2].mg[1])], p)

\* The two leftmost nodes of a level below m_level go; their parent becomes
\* a leaf.
Pruned(st, l) ==
  IF l >= level THEN st
  ELSE LET n == st.row[l][1]
           n2 == st.row[l][2]
           p == st.nodes[n].parent
           left == [m \in DOMAIN st.nodes \ {n, n2} |-> st.nodes[m]]
       IN IF p = <<>> \/ ~TwoOldLeaves(st, n, n2) THEN [st EXCEPT !.fault = TRUE]
          ELSE Compressed(
                 [st EXCEPT !.nodes = [left EXCEPT ![p].left = <<>>, ![p].right = <<>>],
                            !.row[l] = SubSeq(@, 3, Len(@)),
                            !.size = @ - 2 * NodeSize - Usage(st.nodes[n2].mg[1])], p)

\* The new leaf is joined upwards until a level is free.
Carried ==
  LET leaf == <<0, lastTs>>
      start == [nodes |-> Put(nodes, leaf, [tot |-> tot, mg |-> <<sk>>, left |-> <<>>,
                                right |-> <<>>, parent |-> <<>>, prev |-> <<>>]),
                tree |-> tree, row |-> row, size |-> size + NodeSize + Usage(sk),
                fault |-> fault, node |-> leaf, at |-> -1]
      step(st, l) ==
        IF st.at >= 0 THEN st
        ELSE IF st.tree[l] = <<>>
        THEN PutLast([st EXCEPT !.tree[l] = st.node, !.at = l], l, st.node)
        ELSE Pruned(Joined(st, l), l)
  IN FoldLeft(step, start, [i \in 1 .. Levels |-> i - 1])

\* Nodes of a level, from the second one on, that complete it.
Quota == K

MergeCurSketch ==
  LET st == Carried
  IN /\ nodes' = st.nodes /\ tree' = st.tree /\ row' = st.row
     /\ size' = st.size /\ fault' = st.fault
     /\ IF st.at < level THEN UNCHANGED <<level, remaining>>
        ELSE IF remaining = 1 THEN level' = level + 1 /\ remaining' = Quota
        ELSE remaining' = remaining - 1 /\ UNCHANGED level

-----------------------------------------------------------------------------
(* create_tmp_mg_at                                                        *)

MergeNode(mg, name) == Merged(mg, nodes[name].mg[1])

\* Down a tree that starts by ts: right subtrees that start later are merged.
\* leaf is the node at which the walk ends.
Descend(root, mg, est, ts) ==
  LET step(st, i) ==
        LET node == nodes[st.leaf]
        IN IF node.right = <<>> THEN st
           ELSE IF node.right[2] > ts
           THEN [st EXCEPT !.mg = MergeNode(@, node.right), !.leaf = node.left, !.hit = TRUE]
           ELSE [st EXCEPT !.est = nodes[node.left].tot, !.leaf = node.right]
  IN FoldLeft(step, [leaf |-> root, mg |-> mg, est |-> est, hit |-> FALSE],
              [i \in 1 .. Levels |-> i])

\* From the oldest tree on: trees that start after ts are merged whole, the
\* last one before is walked, those before it are excluded.
AnswerSince(ts) ==
  LET search(st, l) ==
        IF tree[l] = <<>> THEN st
        ELSE IF st.rest \/ tree[l][2] > ts
        THEN [st EXCEPT !.rest = TRUE, !.mg = MergeNode(@, tree[l])]
        ELSE LET d == Descend(tree[l], st.mg, st.est, ts)
             IN [rest |-> d.hit, mg |-> d.mg, leaf |-> d.leaf,
                 est |-> IF d.hit THEN d.est ELSE nodes[tree[l]].tot]
      last == FoldLeft(search, [rest |-> FALSE, mg |-> sk, est |-> 0, leaf |-> <<>>],
                       [i \in 1 .. Levels |-> Levels - i])
  IN [mg |-> last.mg, est |-> tot - last.est, leaf |-> last.leaf]

-----------------------------------------------------------------------------
(* The operations                                                          *)

\* Beyond MaxFree, the exploration only brings a most frequent key.
Explored(x) == lastTs <= MaxFree \/ \A y \in Key : exact[y] <= exact[x]

Arrive(q, x) ==
  /\ Explored(x)
  /\ sk' = UpdateImpl(q, x, 1)
  /\ tot' = tot + 1
  /\ exact' = [exact EXCEPT ![x] = @ + 1]
  /\ UNCHANGED cleared

IsCached(ts) == tmp # <<>> /\ tmp[1].ts = ts

\* An update at the timestamp of the cached sketch drops it.
DropTmp(ts) == IF IsCached(ts) THEN <<>> ELSE tmp

UpdateSameTs(x) ==
  /\ lastTs = 0 \/ (lastTs <= MaxFree /\ tot < lastTs + MaxHeavy)
  /\ Arrive(sk, x)
  /\ lastTs' = IF lastTs = 0 THEN 1 ELSE lastTs
  /\ tmp' = DropTmp(lastTs')
  /\ UNCHANGED <<forest, closed>>

UpdateNextTs(x) ==
  /\ lastTs > 0 /\ lastTs < IF cleared THEN MaxAgain ELSE MaxTs
  /\ MergeCurSketch
  /\ Arrive(EmptySketch, x)
  /\ lastTs' = lastTs + 1
  /\ tmp' = DropTmp(lastTs')
  /\ closed' = Append(closed, [exact |-> exact, tot |-> tot])

\* estimate_heavy_hitters_bitp merges anew, and answers nothing from the
\* last timestamp on; estimate_frequency_bitp takes the cached sketch of an
\* earlier call about the same timestamp.
Query(ts) ==
  /\ cleared     \* explored only among the few timestamps after clear
  /\ ts < lastTs \/ ~IsCached(ts)
  /\ tmp' = <<[ts |-> ts, mg |-> AnswerSince(ts).mg, est |-> AnswerSince(ts).est]>>
  /\ UNCHANGED <<lastTs, tot, sk, forest, exact, closed, cleared>>

\* The quota is not set back to 2K.
Clear ==
  /\ lastTs > 0 /\ ~cleared
  /\ lastTs' = 0 /\ tot' = 0 /\ sk' = EmptySketch /\ tmp' = <<>>
  /\ nodes' = <<>> /\ tree' = Empty /\ row' = Empty
  /\ level' = 0 /\ remaining' = 0 /\ size' = 0 /\ UNCHANGED fault
  /\ exact' = NoCounts /\ closed' = <<>> /\ cleared' = TRUE

Next ==
  \/ \E x \in Key : UpdateSameTs(x) \/ UpdateNextTs(x)
  \/ \E ts \in 0 .. lastTs : Query(ts)
  \/ Clear

Spec == Init /\ [][Next]_vars

-----------------------------------------------------------------------------
(* Properties                                                              *)

PastTs == 0 .. lastTs - 1

ExactSince(ts) ==
  [x \in Key |-> exact[x] - IF ts = 0 THEN 0 ELSE closed[ts].exact[x]]
WeightSince(ts) == tot - IF ts = 0 THEN 0 ELSE closed[ts].tot

End(name) == name[2] + 2^name[1] - 1
TotAt(ts) == IF ts = 0 THEN 0 ELSE closed[ts].tot

\* The pruning step relies on the shape of the lists: the two leftmost nodes
\* are leaves of one parent, only the newer one has a sketch, and the
\* parent's left neighbour is still there to be read.
PruningSound == ~fault

\* The lists hold exactly the nodes that the trees reach or that are older
\* than what the trees keep: each is in order without gaps, two siblings are
\* neighbours, and nothing that was freed is still linked.  clear() frees
\* through the lists only.
RowsMirrorTrees ==
  /\ DOMAIN nodes = UNION {ToSet(row[l]) : l \in Level}
  /\ \A l \in Level : \A i \in 1 .. Len(row[l]) :
       LET n == nodes[row[l][i]]
       IN /\ row[l][i][1] = l
          /\ i < Len(row[l]) => row[l][i + 1][2] = End(row[l][i]) + 1
          /\ n.tot = closed[End(row[l][i])].tot
          /\ n.left # <<>> =>
               \E j \in 1 .. Len(row[l - 1]) - 1 :
                 n.left = row[l - 1][j] /\ n.right = row[l - 1][j + 1]
          /\ (n.parent = <<>>) = (tree[l] = row[l][i])
          /\ n.parent # <<>> => row[l][i] \in {nodes[n.parent].left, nodes[n.parent].right}
          /\ (n.mg = <<>>) = (n.parent # <<>> /\ nodes[n.parent].left = row[l][i])

\* An answer about a suffix never counts more than there is, misses at most
\* the part of the one leaf that straddles ts_s, plus the error of a merged
\* sketch and the counters a leaf was relieved of; and its total is that of
\* the suffix up to that leaf.
SuffixWithinEps ==
  \A ts \in PastTs :
    LET a == AnswerSince(ts)
        w == WeightSince(ts)
        heavy == IF a.leaf = <<>> THEN 0
                 ELSE closed[End(a.leaf)].tot - TotAt(a.leaf[2] - 1)
        tail == IF a.leaf = <<>> THEN 0 ELSE closed[End(a.leaf)].tot - TotAt(ts)
    IN /\ a.est <= w + heavy /\ w <= a.est + tail
       /\ \A x \in Key :
            LET short == ExactSince(ts)[x] - a.mg.cnt[x]
            IN /\ short >= 0
               /\ K * EpsDen * (short - tail) <= (EpsDen + K * EpsNum) * w

\* m_size_counter, the memory reported, is that of the nodes and sketches
\* that are there.
SizeCounted ==
  size = FoldSet(LAMBDA name, s : s + NodeSize + (IF nodes[name].mg = <<>> THEN 0
                                                  ELSE Usage(nodes[name].mg[1])),
                 0, DOMAIN nodes)
=============================================================================
