---------------------------- MODULE AVLContainer ----------------------------
(***************************************************************************)
(* avl_container of avl_container.h: an ordered container with equal keys  *)
(* allowed, a tree of owned nodes and their number.  One action per        *)
(* modifying method; an iterator is the node it stands on, end() is Nil.   *)
(* A new node takes any free address.                                      *)
(***************************************************************************)
EXTENDS AVLSearch, FiniteSetsExt

CONSTANTS
  Ranges,      \* the ranges a container is constructed from
  Small,       \* bound: a container within these nodes gets no others
  MaxMerged    \* bound on the elements of a container merged into this one

VARIABLES
  avl,         \* m_avl
  cnt          \* m_cnt

vars == <<avl, cnt>>

RECURSIVE Nodes(_, _)
Nodes(t, n) == IF n = Nil THEN {} ELSE {n} \cup Nodes(t, t.kid[n][L]) \cup Nodes(t, t.kid[n][R])
Held == Nodes(avl, avl.root)
Free == (IF Held \subseteq Small THEN Small ELSE Node) \ Held
Keys == {KeyOf[n] : n \in Node}

RECURSIVE InOrder(_, _)
InOrder(t, n) ==
  IF n = Nil THEN <<>> ELSE InOrder(t, t.kid[n][L]) \o <<n>> \o InOrder(t, t.kid[n][R])

RECURSIVE InsertAll(_, _)
InsertAll(t, nodes) ==
  IF nodes = <<>> THEN t ELSE InsertAll(Insert(t, Head(nodes)), Tail(nodes))

\* Constructed from a range of elements, none for the default constructor.
Init == \E range \in Ranges : avl = InsertAll(EmptyTree, range) /\ cnt = Len(range)

InsertValue(n) ==
  /\ avl' = Insert(avl, n)
  /\ cnt' = cnt + 1

\* The hint is used when the element belongs just before it.
InsertHint(n, hint) ==
  LET handle == HintHandle(avl, KeyOf[n], hint)
  IN /\ avl' = IF handle = NoHandle THEN Insert(avl, n) ELSE InsertAt(avl, handle, n)
     /\ cnt' = cnt + 1

Erase(n) == avl' = Remove(avl, n) /\ cnt' = cnt - 1

RECURSIVE EraseFrom(_, _, _)
\* The loop of erase_by_key: <<tree, number removed>>; the successor is
\* looked up before its predecessor goes.
EraseFrom(t, n, key) ==
  IF n = Nil \/ key < KeyOf[n] THEN <<t, 0>>
  ELSE LET rest == EraseFrom(Remove(t, n), Step(t, n, R), key)
       IN <<rest[1], rest[2] + 1>>

EraseByKey(key) ==
  LET done == EraseFrom(avl, LowerBound(avl, key), key)
  IN avl' = done[1] /\ cnt' = cnt - done[2]

\* Takes the first element not below the key, whether or not it is equal.
ExtractByKey(key) ==
  LET n == LowerBound(avl, key)
  IN /\ n # Nil
     /\ avl' = Remove(avl, n)
     /\ cnt' = cnt - 1

RECURSIVE Broken(_, _)
\* delete_tree hands the nodes over level by level.
Broken(t, queue) ==
  IF queue = <<>> THEN <<>>
  ELSE LET n == Head(queue)
           kids == SelectSeq(<<t.kid[n][L], t.kid[n][R]>>, LAMBDA k : k # Nil)
       IN <<n>> \o Broken(t, Tail(queue) \o kids)

\* The source was filled in some order.
Merge(filled) ==
  LET source == InsertAll(EmptyTree, filled)
  IN /\ avl' = InsertAll(avl, Broken(source, <<source.root>>))
     /\ cnt' = cnt + Len(filled)

Clear == avl' = EmptyTree /\ cnt' = 0

-----------------------------------------------------------------------------
(* Queries                                                                 *)

RECURSIVE CountFrom(_, _)
CountFrom(n, key) ==
  IF n = Nil \/ key < KeyOf[n] THEN 0 ELSE 1 + CountFrom(Step(avl, n, R), key)
Count(key) == CountFrom(LowerBound(avl, key), key)

EqualRange(key) == <<LowerBound(avl, key), UpperBound(avl, key)>>

\* The rank tree combines subtree sizes, each node counting for one.
GetRank(n) == LET agg == CombineLeftOf(avl, n, FALSE)
              IN MapThenSumSet(LAMBDA m : agg[m], Node)
GetNth(k) == NthNode(avl, k)

-----------------------------------------------------------------------------
Sources == {s \in [1 .. MaxMerged -> Free] : \A i, j \in 1 .. MaxMerged : i < j => s[i] < s[j]}

Next ==
  \/ \E n \in Free : InsertValue(n) \/ \E hint \in Held \cup {Nil} : InsertHint(n, hint)
  \/ \E n \in Held : Erase(n)
  \/ \E key \in Keys : EraseByKey(key) \/ ExtractByKey(key)
  \/ \E s \in Sources : Merge(s)
  \/ Clear

Spec == Init /\ [][Next]_vars

-----------------------------------------------------------------------------
(* Properties                                                              *)

RECURSIVE Height(_, _)
Height(t, n) ==
  IF n = Nil THEN 0
  ELSE LET a == Height(t, t.kid[n][L]) b == Height(t, t.kid[n][R]) IN 1 + IF a > b THEN a ELSE b

\* Balanced: after any sequence of operations the tree is linked both ways,
\* ordered by key, every node's hdiff is its true difference of heights and
\* at most one, and the container's count is the number of nodes; and a copy
\* of it is linked alike.
Balanced ==
  /\ cnt = Cardinality(Held)
  /\ \A n \in Held :
       /\ \A d \in Side : avl.kid[n][d] # Nil => avl.parent[avl.kid[n][d]] = n
       /\ avl.hdiff[n] \in -1 .. 1
       /\ avl.hdiff[n] = Height(avl, avl.kid[n][R]) - Height(avl, avl.kid[n][L])
  /\ avl.root # Nil => avl.parent[avl.root] = Nil
  /\ LET s == InOrder(avl, avl.root)
     IN \A i \in 1 .. Len(s) - 1 : KeyOf[s[i]] <= KeyOf[s[i + 1]]
  /\ \A n \in Node \ Held : Forget(avl, n) = avl
  /\ [CloneFrom(avl) EXCEPT !.sum = avl.sum, !.sub = avl.sub] = avl

RECURSIVE WeightOfAll(_)
WeightOfAll(S) ==
  IF S = {} THEN 0 ELSE LET n == CHOOSE n \in S : TRUE IN WeightOf[n] + WeightOfAll(S \ {n})

\* AggregatesExact: the recomputed and the hook-maintained aggregate of every
\* node describe exactly its subtree, although a step repairs only some.
AggregatesExact ==
  \A n \in Held : /\ avl.sub[n] = Nodes(avl, n)
                  /\ avl.sum[n] = WeightOfAll(Nodes(avl, n))
-----------------------------------------------------------------------------
(* The searches, against a scan of the elements in order                   *)

Elems == InOrder(avl, avl.root)
Probes == Keys \cup {k + 1 : k \in Keys}       \* held, missing and extreme keys

FirstOf(P(_)) == LET s == SelectSeq(Elems, P) IN IF s = <<>> THEN Nil ELSE s[1]
Marked(S) == Plus(NoneCounted, S)
KeySide(key, inc, d) == {n \in Held : Beyond(n, key, inc, d)}
NodeSide(node, inc, d) ==
  LET s == Elems
      at == CHOOSE i \in 1 .. Len(s) : s[i] = node
  IN {s[i] : i \in IF d = L THEN 1 .. at - 1 ELSE at + 1 .. Len(s)}
       \cup IF inc THEN {node} ELSE {}

\* SearchesAgree is two claims.  By key: whatever shape the operations left the tree in, every
\* search by key, every sum on one side of a key in its three forms, and the
\* n-th unit of weight give what a scan of the elements gives; equal keys,
\* missing keys and elements of weight 0 included.
KeySearchesAgree ==
  /\ Begin(avl) = FirstOf(LAMBDA n : TRUE)
  /\ \A key \in Probes :
       /\ IF \E n \in Held : KeyOf[n] = key THEN KeyOf[Find(avl, key)] = key
          ELSE Find(avl, key) = Nil
       /\ SumForInsert(avl, key) = WeightOfAll(KeySide(key, TRUE, L))
       /\ Count(key) = Cardinality({n \in Held : KeyOf[n] = key})
       /\ EqualRange(key) = <<FirstOf(LAMBDA n : KeyOf[n] >= key),
                              FirstOf(LAMBDA n : KeyOf[n] > key)>>
       /\ \A inc \in BOOLEAN :
            LET left == KeySide(key, inc, L)
                right == KeySide(key, inc, R)
            IN /\ SumLeft(avl, key, inc) = WeightOfAll(left)
               /\ SumRight(avl, key, inc) = WeightOfAll(right)
               /\ CombineLeft(avl, key, inc) = Marked(left)
               /\ CombineRight(avl, key, inc) = Marked(right)
               /\ GatherLeft(avl, key, inc) = Marked(left)
               /\ GatherRight(avl, key, inc) = Marked(right)
       /\ \A upper \in Probes :
            SumRangeII(avl, key, upper) =
              WeightOfAll({n \in Held : key <= KeyOf[n] /\ KeyOf[n] <= upper})
  /\ \A k \in 0 .. WeightOfAll(Held) :
       LET hit == NthUnit(avl, k)
           before == WeightOfAll(NodeSide(hit[1], FALSE, L))
       IN IF k = WeightOfAll(Held) THEN hit = <<Nil, 0>>
          ELSE hit[1] # Nil /\ hit[2] = k - before /\ hit[2] \in 0 .. WeightOf[hit[1]] - 1

\* By node: from every element, the steps forward and back, the
\* sums on either side in their three forms and the walk that repairs a
\* changed weight agree with the order of the elements.
NodeSearchesAgree ==
  \A i \in 1 .. Len(Elems) :
    LET n == Elems[i]
    IN /\ Step(avl, n, R) = IF i = Len(Elems) THEN Nil ELSE Elems[i + 1]
       /\ Step(avl, n, L) = IF i = 1 THEN Nil ELSE Elems[i - 1]
       /\ GetRank(n) = i - 1 /\ GetNth(i - 1) = n
       /\ \A inc \in BOOLEAN :
            LET left == NodeSide(n, inc, L)
                right == NodeSide(n, inc, R)
            IN /\ SumLeftOf(avl, n, inc) = WeightOfAll(left)
               /\ SumRightOf(avl, n, inc) = WeightOfAll(right)
               /\ CombineLeftOf(avl, n, inc) = Marked(left)
               /\ CombineRightOf(avl, n, inc) = Marked(right)
               /\ GatherLeftOf(avl, n, inc) = Marked(left)
               /\ GatherRightOf(avl, n, inc) = Marked(right)
       \* the sums above n, spoilt as by an old weight, are all repaired
       /\ LET above == {m \in Held : n \in avl.sub[m]}
              spoilt == [avl EXCEPT !.sum = [m \in Node |->
                           IF m \in above THEN @[m] + 1 ELSE @[m]]]
          IN FixAndSumLeft(spoilt, n) = <<avl, WeightOfAll(NodeSide(n, FALSE, L))>>

SearchesAgree == KeySearchesAgree /\ NodeSearchesAgree

Bag == INSTANCE SortedBag WITH Elem <- Node, MaxBatch <- MaxMerged, seq <- Elems

\* ImplementsBag: insertion, hinted insertion, removal of one or of all
\* equals, merging and clearing do to the iteration order what the ordered
\* container promises: a rotation never reorders, an element goes after its
\* equals, and only what is removed disappears.
ImplementsBag == Bag!Spec

=============================================================================
