--------------------- MODULE PersistentMisraGriesProofs ---------------------
(***************************************************************************)
(* What PersistentMisraGries says of the forest of TreeMisraGries, proved  *)
(* for every set of keys, error and number of levels.                      *)
(*                                                                         *)
(* The forest is a binary counter of the leaves since m_level began        *)
(* (CountsUp), which starts at K or 0 and ends at 2K, an even number: no   *)
(* tree is left at m_level when it rises.  With that, every tree below     *)
(* another is newer (Rooted, OrderedRoots).                                *)
(*                                                                         *)
(* What an answer about the past is worth follows from what every sketch   *)
(* of the forest stands for.  A history G of the finished timestamps keeps *)
(* their true counts and weight and, where a leaf ended, what had been     *)
(* moved into leaves by then.  A node's sketch is of what was moved between*)
(* the time the node before it ended and its own (NodeOk, Forest); the     *)
(* running sketch of the rest (Running).  A query merges sketches that     *)
(* adjoin (HoldsBoth), so that its answer is a sketch of the history up to *)
(* the end of some leaf (AnswerIsOk), at most a node's share of the weight *)
(* before the timestamp asked for.  That no carry runs past the last level *)
(* is RoomInv: the leaves counted at m_level stand for at most twice the   *)
(* weight of the stream.                                                   *)
(***************************************************************************)
EXTENDS ChainMisraGriesProofs

Bit(l) == IF tree[l] = <<>> THEN 0 ELSE 1

\* Digit by digit from the top: c[l] is the number of nodes of level l that
\* the trees from l up were made of; c[TreeLevels] is what was carried out.
Counter(c) ==
  /\ c \in [0 .. TreeLevels -> Nat]
  /\ c[level] + remaining = 2 * K
  /\ \A l \in level .. TreeLevels - 1 : c[l] = 2 * c[l + 1] + Bit(l)

CountsUp == level < TreeLevels => \E c : Counter(c)

Rooted ==
  \A l \in TMG!Level :
    tree[l] # <<>> =>
      /\ tree[l] = <<tree[l][1]>>
      /\ tree[l][1].ts \in Nat /\ tree[l][1].ts < lastTs
      /\ tree[l][1].mg # <<>>
      /\ TMG!InOrder(tree[l][1])

OrderedRoots ==
  \A l, m \in TMG!Level :
    l < m /\ tree[l] # <<>> /\ tree[m] # <<>> => tree[l][1].ts > tree[m][1].ts

ForestTypes ==
  /\ lastTs \in Nat /\ level \in Nat /\ remaining \in Nat \ {0}
  /\ tree = [l \in TMG!Level |-> tree[l]]

ForestInv ==
  ForestTypes /\ TMG!NothingBelowLevel /\ CountsUp /\ Rooted /\ OrderedRoots

-----------------------------------------------------------------------------
(* The carry *)

LEMMA FreeLevelFacts ==
  ASSUME ForestTypes
  PROVE  /\ TMG!FreeLevel \in Nat /\ TMG!FreeLevel <= TreeLevels
         /\ TMG!FreeLevel < TreeLevels =>
              level <= TMG!FreeLevel /\ tree[TMG!FreeLevel] = <<>>
         /\ \A l \in TMG!Level :
              level <= l /\ l < TMG!FreeLevel => tree[l] # <<>>
<1> DEFINE S == {l \in TMG!Level : level <= l /\ tree[l] = <<>>} \cup {TreeLevels}
<1>1. TreeLevels \in Nat
  BY SketchesAssumption
<1>2. S \in SUBSET Nat /\ S # {}
  BY <1>1 DEF TMG!Level
<1>3. PICK m \in S : \A n \in S : m <= n
  <2> HIDE DEF S
  <2> QED BY <1>2, LeastElement
<1>4. TMG!FreeLevel = CHOOSE x \in S : \A y \in S : x =< y
  BY DEF TMG!FreeLevel, TMG!Min
<1>5. TMG!FreeLevel \in S /\ \A y \in S : TMG!FreeLevel <= y
  <2> HIDE DEF S
  <2> QED BY <1>3, <1>4
<1> QED BY <1>1, <1>2, <1>5 DEF TMG!Level

\* The node that is carried, at each level it reaches.
Carrying(f, leaf, m) ==
  f = [l \in level .. m |->
         IF l = level THEN leaf ELSE TMG!Join(tree[l - 1][1], f[l - 1])]

LEMMA CarryingExists ==
  ASSUME level \in Nat, NEW leaf, NEW n \in Nat
  PROVE  \E f : Carrying(f, leaf, level + n)
<1> DEFINE W == {k \in Nat : \E f : Carrying(f, leaf, level + k)}
<1>1. 0 \in W
  <2>1. Carrying([l \in level .. (level + 0) |-> leaf], leaf, level + 0)
    BY DEF Carrying
  <2> QED BY <2>1
<1>2. ASSUME NEW k \in W PROVE k + 1 \in W
  <2>1. PICK f : Carrying(f, leaf, level + k)
    OBVIOUS
  <2>2. PICK m \in Nat : m = level + k
    OBVIOUS
  <2>3. PICK g : g = [l \in level .. (m + 1) |->
                        IF l = m + 1 THEN TMG!Join(tree[m][1], f[m]) ELSE f[l]]
    OBVIOUS
  <2>4. Carrying(f, leaf, m)
    BY <2>1, <2>2
  <2>5. ASSUME NEW l \in level .. (m + 1)
        PROVE  g[l] = IF l = level THEN leaf
                      ELSE TMG!Join(tree[l - 1][1], g[l - 1])
    <3>1. CASE l = m + 1
      <4>1. l # level /\ l - 1 = m /\ m \in level .. (m + 1) /\ m # m + 1
        BY <2>2, <3>1
      <4>2. g[m] = f[m]
        BY <2>3, <4>1
      <4> QED BY <2>3, <3>1, <4>1, <4>2
    <3>2. CASE l # m + 1
      <4>1. l \in level .. m
        BY <2>2, <3>2
      <4>2. g[l] = f[l]
        BY <2>3, <3>2
      <4>3. f[l] = IF l = level THEN leaf ELSE TMG!Join(tree[l - 1][1], f[l - 1])
        BY <2>4, <4>1 DEF Carrying
      <4>4. l # level => g[l - 1] = f[l - 1]
        BY <2>2, <2>3, <4>1
      <4> QED BY <4>2, <4>3, <4>4
    <3> QED BY <3>1, <3>2
  <2>6. Carrying(g, leaf, m + 1)
    BY <2>3, <2>5 DEF Carrying
  <2>7. m + 1 = level + (k + 1)
    BY <2>2
  <2> QED BY <2>6, <2>7
<1> HIDE DEF W
<1>3. W = Nat
  <2>1. W \in SUBSET Nat
    BY DEF W
  <2> QED BY <1>1, <1>2, <2>1, NatSetInduction
<1> QED BY <1>3 DEF W

LEMMA CarriedIs ==
  ASSUME ForestTypes, NEW leaf, level <= TMG!FreeLevel
  PROVE  \E node :
           /\ Carrying(node, leaf, TMG!FreeLevel)
           /\ TMG!Carried(leaf) =
                [l \in TMG!Level |->
                   CASE l \notin level .. TMG!FreeLevel -> tree[l]
                     [] l \in level .. TMG!FreeLevel - 1 -> <<>>
                     [] OTHER -> <<node[l]>>]
<1>1. PICK n \in Nat : TMG!FreeLevel = level + n
  <2>1. TMG!FreeLevel - level \in Nat /\ TMG!FreeLevel = level + (TMG!FreeLevel - level)
    BY FreeLevelFacts DEF ForestTypes
  <2> QED BY <2>1
<1>2. \E f : Carrying(f, leaf, TMG!FreeLevel)
  BY <1>1, CarryingExists DEF ForestTypes
<1> DEFINE node == CHOOSE f : Carrying(f, leaf, TMG!FreeLevel)
<1>3. Carrying(node, leaf, TMG!FreeLevel)
  BY <1>2
<1>4. TMG!Carried(leaf) =
        [l \in TMG!Level |->
           CASE l \notin level .. TMG!FreeLevel -> tree[l]
             [] l \in level .. TMG!FreeLevel - 1 -> <<>>
             [] OTHER -> <<node[l]>>]
  BY DEF TMG!Carried, Carrying
<1> QED BY <1>3, <1>4

LEMMA CarriedNowhere ==
  ASSUME ForestTypes, NEW leaf, ~(level <= TMG!FreeLevel)
  PROVE  TMG!Carried(leaf) = tree
<1>1. \A l \in TMG!Level : l \notin level .. TMG!FreeLevel
  BY FreeLevelFacts DEF ForestTypes
<1>2. TMG!Carried(leaf) = [l \in TMG!Level |-> tree[l]]
  <2>1. \A l \in TMG!Level : l \notin level .. TMG!FreeLevel - 1
    BY FreeLevelFacts DEF ForestTypes
  <2> QED BY <1>1, <2>1 DEF TMG!Carried
<1> QED BY <1>2 DEF ForestTypes

\* Level by level: what lies below m_level or above the place of the new node
\* stays, the levels in between are emptied, and the node is put in place.
LEMMA CarriedShape ==
  ASSUME ForestTypes, NEW leaf, NEW t, t = TMG!Carried(leaf)
  PROVE  /\ t = [l \in TMG!Level |-> t[l]]
         /\ \A l \in TMG!Level :
              /\ l < level \/ l > TMG!FreeLevel => t[l] = tree[l]
              /\ level <= l /\ l < TMG!FreeLevel => t[l] = <<>>
              /\ level <= l /\ l = TMG!FreeLevel => t[l] # <<>>
<1>1. \A l \in TMG!Level : l \in Nat
  BY SketchesAssumption DEF TMG!Level
<1>2. TMG!FreeLevel \in Nat /\ level \in Nat
  BY FreeLevelFacts DEF ForestTypes
<1>3. CASE level <= TMG!FreeLevel
  <2>1. PICK node : t = [l \in TMG!Level |->
                     CASE l \notin level .. TMG!FreeLevel -> tree[l]
                       [] l \in level .. TMG!FreeLevel - 1 -> <<>>
                       [] OTHER -> <<node[l]>>]
    BY <1>3, CarriedIs
  <2>2. t = [l \in TMG!Level |-> t[l]]
    BY <2>1
  <2>3. ASSUME NEW l \in TMG!Level
        PROVE  /\ l < level \/ l > TMG!FreeLevel => t[l] = tree[l]
               /\ level <= l /\ l < TMG!FreeLevel => t[l] = <<>>
               /\ level <= l /\ l = TMG!FreeLevel => t[l] # <<>>
    <3>1. CASE l \notin level .. TMG!FreeLevel
      <4>1. l \notin level .. TMG!FreeLevel - 1
        BY <1>1, <1>2, <3>1
      <4> QED BY <1>1, <1>2, <2>1, <3>1, <4>1
    <3>2. CASE l \in level .. TMG!FreeLevel - 1
      <4>1. l \in level .. TMG!FreeLevel /\ l < TMG!FreeLevel /\ ~(l < level)
        BY <1>1, <1>2, <3>2
      <4> QED BY <1>1, <1>2, <2>1, <3>2, <4>1
    <3>3. CASE l \in level .. TMG!FreeLevel /\ l \notin level .. TMG!FreeLevel - 1
      <4>1. l = TMG!FreeLevel
        BY <1>1, <1>2, <3>3
      <4>2. t[l] = <<node[l]>>
        BY <2>1, <3>3
      <4> QED BY <1>1, <1>2, <3>3, <4>1, <4>2
    <3> QED BY <3>1, <3>2, <3>3
  <2> QED BY <2>2, <2>3
<1>4. CASE ~(level <= TMG!FreeLevel)
  BY <1>1, <1>2, <1>4, CarriedNowhere DEF ForestTypes
<1> QED BY <1>3, <1>4

\* The new leaf adds one to the count c, with the carries of a binary counter.
Counts(c) ==
  \E d : /\ Counter(d)'
         /\ remaining # 1 => level' = level /\ d[level'] = c[level] + 1
         /\ remaining = 1 => level' = level + 1 /\ 2 * d[level'] = c[level] + 1

\* The count is even when m_level rises.
LEMMA CounterSteps ==
  ASSUME ForestTypes, NEW c, Counter(c), level < TreeLevels,
         TMG!NothingBelowLevel, TMG!MergeCurSketch(1)
  PROVE  /\ level' \in Nat /\ remaining' \in Nat \ {0}
         /\ Counts(c) /\ TMG!NothingBelowLevel'
<1> DEFINE F == TMG!FreeLevel
<1>1. /\ TreeLevels \in Nat /\ K \in Nat /\ K >= 2
      /\ F \in Nat /\ F <= TreeLevels /\ level \in Nat
      /\ remaining \in Nat \ {0}
      /\ F < TreeLevels => level <= F /\ tree[F] = <<>>
      /\ \A l \in TMG!Level : level <= l /\ l < F => tree[l] # <<>>
  BY FreeLevelFacts, SketchesAssumption DEF ForestTypes
<1>2. /\ tree' = [l \in TMG!Level |-> tree'[l]]
      /\ \A l \in TMG!Level :
           /\ l < level \/ l > F => tree'[l] = tree[l]
           /\ level <= l /\ l < F => tree'[l] = <<>>
           /\ level <= l /\ l = F => tree'[l] # <<>>
  <2>1. PICK leaf : tree' = TMG!Carried(leaf)
    BY DEF TMG!MergeCurSketch
  <2> QED BY <2>1, CarriedShape
<1>3. IF remaining = 1 THEN level' = level + 1 /\ remaining' = K
      ELSE level' = level /\ remaining' = remaining - 1
  BY DEF TMG!MergeCurSketch, TMG!Quota
<1>4. TMG!Level = 0 .. TreeLevels - 1
  BY DEF TMG!Level
<1> HIDE DEF F
<1>6. level < TreeLevels
  OBVIOUS
<1>7. QED
  <2>1. /\ c \in [0 .. TreeLevels -> Nat]
        /\ c[level] + remaining = 2 * K
        /\ \A l \in level .. TreeLevels - 1 : c[l] = 2 * c[l + 1] + Bit(l)
    BY DEF Counter
  <2>2. PICK d : d = [l \in 0 .. TreeLevels |-> IF l <= F THEN c[l] + 1 ELSE c[l]]
    OBVIOUS
  <2>3. d \in [0 .. TreeLevels -> Nat]
    BY <2>1, <2>2
  <2>4. level <= F
    BY <1>1, <1>6
  <2>5. ASSUME NEW l \in level .. TreeLevels - 1
        PROVE  d[l] = 2 * d[l + 1] + Bit(l)'
    <3>1. /\ l \in TMG!Level /\ l \in Nat /\ l <= TreeLevels - 1 /\ level <= l
          /\ l \in 0 .. TreeLevels /\ l + 1 \in 0 .. TreeLevels
      BY <1>1, <1>4
    <3>2. c[l] = 2 * c[l + 1] + Bit(l) /\ c[l] \in Nat /\ c[l + 1] \in Nat
      BY <2>1, <3>1
    <3>3. CASE l < F
      <4>1. Bit(l) = 1 /\ Bit(l)' = 0
        BY <1>1, <1>2, <3>1, <3>3 DEF Bit
      <4>2. d[l] = c[l] + 1 /\ d[l + 1] = c[l + 1] + 1
        BY <1>1, <2>2, <3>1, <3>3
      <4> QED BY <3>2, <4>1, <4>2
    <3>4. CASE l = F
      <4>1. Bit(l) = 0 /\ Bit(l)' = 1
        BY <1>1, <1>2, <3>1, <3>4 DEF Bit
      <4>2. d[l] = c[l] + 1 /\ d[l + 1] = c[l + 1]
        BY <1>1, <2>2, <3>1, <3>4
      <4> QED BY <3>2, <4>1, <4>2
    <3>5. CASE l > F
      <4>1. Bit(l) = Bit(l)'
        BY <1>2, <3>1, <3>5 DEF Bit
      <4>2. d[l] = c[l] /\ d[l + 1] = c[l + 1]
        BY <1>1, <2>2, <3>1, <3>5
      <4> QED BY <3>2, <4>1, <4>2
    <3> QED BY <1>1, <3>1, <3>3, <3>4, <3>5
  <2>6. d[level] = c[level] + 1 /\ c[level] \in Nat
    BY <1>1, <1>6, <2>1, <2>2, <2>4
  <2>7. CASE remaining # 1
    <3>1. level' = level /\ remaining' = remaining - 1
      BY <1>3, <2>7
    <3>2. d[level'] + remaining' = 2 * K /\ remaining' \in Nat \ {0}
      <4>1. d[level'] = c[level] + 1
        BY <2>6, <3>1
      <4>2. remaining' \in Nat \ {0}
        BY <1>1, <2>7, <3>1
      <4> QED BY ONLY <1>1, <2>1, <2>6, <3>1, <4>1, <4>2
    <3>3. Counter(d)'
      BY <2>3, <2>5, <3>1, <3>2 DEF Counter
    <3>4. TMG!NothingBelowLevel'
      BY <1>2, <3>1 DEF TMG!NothingBelowLevel
    <3> QED BY <1>1, <2>6, <2>7, <3>1, <3>2, <3>3, <3>4 DEF Counts
  <2>8. CASE remaining = 1
    <3>1. level' = level + 1 /\ remaining' = K
      BY <1>3, <2>8
    <3>2. d[level] = 2 * K
      BY <1>1, <2>1, <2>6, <2>8
    <3>3. level \in level .. TreeLevels - 1 /\ level \in TMG!Level
      BY <1>1, <1>4, <1>6
    <3>4. PICK p : p = level
      OBVIOUS
    <3>5. PICK b \in {0, 1} : b = IF tree'[p] = <<>> THEN 0 ELSE 1
      OBVIOUS
    <3>6. b = 0 /\ d[level + 1] = K
      <4>1. d[p] = 2 * d[p + 1] + Bit(p)'
        BY <2>5, <3>3, <3>4
      <4>2. Bit(p)' = b
        BY <3>5 DEF Bit
      <4>3. PICK q \in Nat : q = d[p + 1]
        BY <1>1, <1>6, <2>3, <3>4
      <4>4. 2 * K = 2 * q + b
        BY <3>2, <3>4, <4>1, <4>2, <4>3
      <4>5. b = 0 /\ q = K
        BY ONLY <1>1, <3>5, <4>4
      <4> QED BY <3>4, <4>3, <4>5
    <3>7. tree'[level] = <<>>
      BY <3>4, <3>5, <3>6
    <3>8. TMG!NothingBelowLevel'
      <4> SUFFICES ASSUME NEW l \in TMG!Level, l < level' PROVE tree'[l] = <<>>
        BY DEF TMG!NothingBelowLevel
      <4>1. l = level \/ l < level
        BY <1>1, <1>4, <3>1
      <4> QED BY <1>2, <3>7, <4>1 DEF TMG!NothingBelowLevel
    <3>9. Counter(d)'
      <4>1. \A l \in level' .. TreeLevels - 1 : d[l] = 2 * d[l + 1] + Bit(l)'
        BY <1>1, <2>5, <3>1
      <4>2. d[level'] + remaining' = 2 * K
        BY <1>1, <3>1, <3>6
      <4> QED BY <2>3, <4>1, <4>2 DEF Counter
    <3>10. 2 * d[level'] = c[level] + 1
      <4>1. d[level'] = K /\ c[level] + 1 = 2 * K
        BY <2>6, <3>1, <3>2, <3>6
      <4> QED BY ONLY <1>1, <4>1
    <3> QED BY <1>1, <2>8, <3>1, <3>8, <3>9, <3>10 DEF Counts
  <2> QED BY <2>7, <2>8 DEF Counts

LEMMA MergeCounts ==
  ASSUME ForestTypes, CountsUp, TMG!NothingBelowLevel, TMG!MergeCurSketch(1)
  PROVE  /\ level' \in Nat /\ remaining' \in Nat \ {0}
         /\ CountsUp' /\ TMG!NothingBelowLevel'
<1> DEFINE F == TMG!FreeLevel
<1>1. /\ TreeLevels \in Nat /\ K \in Nat /\ K >= 2
      /\ F \in Nat /\ F <= TreeLevels /\ level \in Nat
      /\ remaining \in Nat \ {0}
      /\ F < TreeLevels => level <= F /\ tree[F] = <<>>
      /\ \A l \in TMG!Level : level <= l /\ l < F => tree[l] # <<>>
  BY FreeLevelFacts, SketchesAssumption DEF ForestTypes
<1>2. /\ tree' = [l \in TMG!Level |-> tree'[l]]
      /\ \A l \in TMG!Level :
           /\ l < level \/ l > F => tree'[l] = tree[l]
           /\ level <= l /\ l < F => tree'[l] = <<>>
           /\ level <= l /\ l = F => tree'[l] # <<>>
  <2>1. PICK leaf : tree' = TMG!Carried(leaf)
    BY DEF TMG!MergeCurSketch
  <2> QED BY <2>1, CarriedShape
<1>3. IF remaining = 1 THEN level' = level + 1 /\ remaining' = K
      ELSE level' = level /\ remaining' = remaining - 1
  BY DEF TMG!MergeCurSketch, TMG!Quota
<1>4. TMG!Level = 0 .. TreeLevels - 1
  BY DEF TMG!Level
<1> HIDE DEF F
<1>5. CASE level >= TreeLevels
  <2>1. level' >= TreeLevels /\ level' \in Nat /\ remaining' \in Nat \ {0}
    BY <1>1, <1>3, <1>5
  <2>2. CountsUp'
    BY <1>1, <2>1 DEF CountsUp
  <2>3. ASSUME NEW l \in TMG!Level PROVE tree'[l] = <<>>
    <3>1. l < level
      BY <1>1, <1>4, <1>5
    <3> QED BY <1>2, <3>1 DEF TMG!NothingBelowLevel
  <2> QED BY <2>1, <2>2, <2>3 DEF TMG!NothingBelowLevel
<1>6. CASE level < TreeLevels
  <2>1. PICK c : Counter(c)
    BY <1>6 DEF CountsUp
  <2>2. /\ level' \in Nat /\ remaining' \in Nat \ {0}
        /\ Counts(c) /\ TMG!NothingBelowLevel'
    BY <1>6, <2>1, CounterSteps
  <2>3. CountsUp'
    BY <2>2 DEF Counts, CountsUp
  <2> QED BY <2>2, <2>3
<1> QED BY <1>1, <1>5, <1>6

-----------------------------------------------------------------------------
(* The generations of a tree *)

Kids(S) == UNION {{n.kids[i] : i \in DOMAIN n.kids} : n \in S}

Descent(g, root, m) ==
  g = [d \in 0 .. m |-> IF d = 0 THEN {root} ELSE Kids(g[d - 1])]

LEMMA DescentExists ==
  ASSUME NEW root, NEW m \in Nat
  PROVE  \E g : Descent(g, root, m)
<1> DEFINE W == {k \in Nat : \E g : Descent(g, root, k)}
<1>1. 0 \in W
  <2>1. Descent([d \in 0 .. 0 |-> {root}], root, 0)
    BY DEF Descent
  <2> QED BY <2>1
<1>2. ASSUME NEW k \in W PROVE k + 1 \in W
  <2>1. PICK g : Descent(g, root, k)
    OBVIOUS
  <2>2. PICK h : h = [d \in 0 .. (k + 1) |-> IF d = k + 1 THEN Kids(g[k]) ELSE g[d]]
    OBVIOUS
  <2>3. ASSUME NEW d \in 0 .. (k + 1)
        PROVE  h[d] = IF d = 0 THEN {root} ELSE Kids(h[d - 1])
    <3>1. CASE d = k + 1
      <4>1. d # 0 /\ d - 1 = k /\ k \in 0 .. (k + 1) /\ k # k + 1
        BY <3>1
      <4>2. h[k] = g[k]
        BY <2>2, <4>1
      <4> QED BY <2>2, <3>1, <4>1, <4>2
    <3>2. CASE d # k + 1
      <4>1. d \in 0 .. k
        BY <3>2
      <4>2. h[d] = g[d]
        BY <2>2, <3>2
      <4>3. g[d] = IF d = 0 THEN {root} ELSE Kids(g[d - 1])
        BY <2>1, <4>1 DEF Descent
      <4>4. d # 0 => h[d - 1] = g[d - 1]
        BY <2>2, <4>1
      <4> QED BY <4>2, <4>3, <4>4
    <3> QED BY <3>1, <3>2
  <2>4. Descent(h, root, k + 1)
    BY <2>2, <2>3 DEF Descent
  <2> QED BY <2>4
<1> HIDE DEF W
<1>3. W = Nat
  <2>1. W \in SUBSET Nat
    BY DEF W
  <2> QED BY <1>1, <1>2, <2>1, NatSetInduction
<1> QED BY <1>3 DEF W

LEMMA GenerationsDescend ==
  ASSUME NEW root
  PROVE  LET g == TMG!Generations(root)
         IN  /\ g[0] = {root}
             /\ \A d \in 0 .. TreeLevels - 1 : g[d + 1] = Kids(g[d])
<1>1. TreeLevels \in Nat
  BY SketchesAssumption
<1>2. \E g : Descent(g, root, TreeLevels)
  BY <1>1, DescentExists
<1> DEFINE g == CHOOSE h : Descent(h, root, TreeLevels)
<1>3. Descent(g, root, TreeLevels)
  BY <1>2
<1>4. TMG!Generations(root) = g
  BY DEF TMG!Generations, Descent, Kids
<1> HIDE DEF g
<1>5. g[0] = {root}
  BY <1>1, <1>3 DEF Descent
<1>6. ASSUME NEW d \in 0 .. TreeLevels - 1 PROVE g[d + 1] = Kids(g[d])
  <2>1. d + 1 \in 0 .. TreeLevels /\ d + 1 # 0 /\ (d + 1) - 1 = d
    BY <1>1
  <2> QED BY <1>3, <2>1 DEF Descent
<1> QED BY <1>4, <1>5, <1>6

\* A node without children is the whole of its tree.
LEMMA LeafInOrder ==
  ASSUME NEW n, n.kids = <<>>
  PROVE  TMG!InOrder(n)
<1> DEFINE g == TMG!Generations(n)
           W == {d \in Nat : d <= TreeLevels => g[d] \subseteq {n}}
<1>1. TreeLevels \in Nat
  BY SketchesAssumption
<1>2. /\ g[0] = {n}
      /\ \A d \in 0 .. TreeLevels - 1 : g[d + 1] = Kids(g[d])
  BY GenerationsDescend
<1> HIDE DEF g
<1>3. 0 \in W
  BY <1>2
<1>4. ASSUME NEW d \in W PROVE d + 1 \in W
  <2> SUFFICES ASSUME d + 1 <= TreeLevels PROVE g[d + 1] \subseteq {n}
    OBVIOUS
  <2>1. g[d] \subseteq {n} /\ g[d + 1] = Kids(g[d])
    BY <1>1, <1>2
  <2>2. Kids(g[d]) = {}
    BY <2>1 DEF Kids
  <2> QED BY <2>1, <2>2
<1>5. W = Nat
  <2>1. W \in SUBSET Nat
    OBVIOUS
  <2> HIDE DEF W
  <2> QED BY <1>3, <1>4, <2>1, NatSetInduction
<1>6. \A d \in 0 .. TreeLevels : g[d] \subseteq {n}
  BY <1>1, <1>5
<1> QED BY <1>6 DEF TMG!InOrder, TMG!KidsInOrder, g

\* A parent of two trees in order, of which the second may have lost its
\* sketch, is in order when it is so itself.
LEMMA JoinInOrder ==
  ASSUME NEW a, NEW b, NEW b0, NEW p,
         TMG!InOrder(a), TMG!InOrder(b), b0.kids = b.kids, b0.ts = b.ts,
         p.kids = <<a, b0>>, TMG!KidsInOrder(p)
  PROVE  TMG!InOrder(p)
<1> DEFINE ga == TMG!Generations(a)
           gb == TMG!Generations(b)
           gp == TMG!Generations(p)
           Lost(d) == IF d = 0 THEN {b0} ELSE gb[d]
           W == {d \in Nat : d + 1 <= TreeLevels => gp[d + 1] = ga[d] \cup Lost(d)}
<1>1. TreeLevels \in Nat
  BY SketchesAssumption
<1>2. /\ ga[0] = {a} /\ gb[0] = {b} /\ gp[0] = {p}
      /\ \A d \in 0 .. TreeLevels - 1 :
           /\ ga[d + 1] = Kids(ga[d]) /\ gb[d + 1] = Kids(gb[d])
           /\ gp[d + 1] = Kids(gp[d])
  BY GenerationsDescend
<1>3. \A d \in 0 .. TreeLevels :
        /\ \A n \in ga[d] : TMG!KidsInOrder(n)
        /\ \A n \in gb[d] : TMG!KidsInOrder(n)
  BY DEF TMG!InOrder
<1> HIDE DEF ga, gb
<1>4. SUFFICES ASSUME NEW d \in 0 .. TreeLevels, NEW n \in gp[d]
               PROVE  TMG!KidsInOrder(n)
  BY DEF TMG!InOrder
<1> HIDE DEF gp
<1>5. \A S, T : Kids(S \cup T) = Kids(S) \cup Kids(T)
  BY DEF Kids
<1>6. \A n1 : Kids({n1}) = {n1.kids[i] : i \in DOMAIN n1.kids}
  BY DEF Kids
<1>7. 0 \in W
  <2> SUFFICES ASSUME 0 + 1 <= TreeLevels PROVE gp[0 + 1] = {a, b0}
    BY <1>2
  <2>1. gp[0 + 1] = Kids({p})
    <3>1. 0 \in 0 .. TreeLevels - 1
      BY <1>1
    <3>2. gp[0 + 1] = Kids(gp[0])
      BY <1>2, <3>1
    <3> QED BY <1>2, <3>2
  <2>2. Kids({p}) = {p.kids[i] : i \in {1, 2}}
    BY <1>6
  <2> QED BY <2>1, <2>2
<1>8. ASSUME NEW k \in W PROVE k + 1 \in W
  <2> SUFFICES ASSUME (k + 1) + 1 <= TreeLevels
               PROVE  gp[(k + 1) + 1] = ga[k + 1] \cup gb[k + 1]
    OBVIOUS
  <2>1. k \in 0 .. TreeLevels - 1 /\ k + 1 \in 0 .. TreeLevels - 1
    BY <1>1
  <2>2. gp[k + 1] = ga[k] \cup Lost(k)
    BY <1>1
  <2>3. Kids(Lost(k)) = gb[k + 1]
    <3>1. Kids({b0}) = Kids({b})
      <4>1. b0.kids = b.kids
        OBVIOUS
      <4>2. Kids({b0}) = {b0.kids[i] : i \in DOMAIN b0.kids}
        BY ONLY <1>6
      <4>3. Kids({b}) = {b.kids[i] : i \in DOMAIN b.kids}
        BY ONLY <1>6
      <4> QED BY ONLY <4>1, <4>2, <4>3
    <3> QED BY <1>2, <2>1, <3>1
  <2> HIDE DEF Lost
  <2>4. gp[(k + 1) + 1] = Kids(gp[k + 1]) /\ ga[k + 1] = Kids(ga[k])
    BY <1>2, <2>1
  <2> QED BY <1>5, <2>2, <2>3, <2>4
<1>9. W = Nat
  <2>1. W \in SUBSET Nat
    OBVIOUS
  <2> HIDE DEF W
  <2> QED BY <1>7, <1>8, <2>1, NatSetInduction
<1>10. CASE d = 0
  BY <1>2, <1>10
<1>11. CASE d # 0
  <2>1. PICK k \in 0 .. TreeLevels - 1 : d = k + 1
    <3>1. d - 1 \in 0 .. TreeLevels - 1 /\ d = (d - 1) + 1
      BY <1>1, <1>11
    <3> QED BY <3>1
  <2>2. gp[d] = ga[k] \cup Lost(k)
    BY <1>1, <1>9, <2>1
  <2>3. CASE n \in ga[k]
    BY <1>1, <1>3, <2>1, <2>3
  <2>4. CASE n \in gb[k]
    BY <1>1, <1>3, <2>1, <2>4
  <2>5. CASE k = 0 /\ n = b0
    <3>1. TMG!KidsInOrder(b)
      BY <1>1, <1>2, <1>3
    <3> QED BY <2>5, <3>1 DEF TMG!KidsInOrder
  <2> QED BY <2>2, <2>3, <2>4, <2>5
<1> QED BY <1>10, <1>11

-----------------------------------------------------------------------------
(* The roots *)

\* A node of merge_cur_sketch: it has the time of the merge and a sketch.
Fresh(n) ==
  /\ \E t, mg, kids : n = [ts |-> lastTs, tot |-> t, mg |-> mg, kids |-> kids]
  /\ n.mg # <<>>
  /\ TMG!InOrder(n)

LEMMA LeafIsFresh ==
  ASSUME NEW mg
  PROVE  Fresh(TMG!Leaf(mg))
<1>1. PICK n : /\ n = [ts |-> lastTs, tot |-> tot, mg |-> <<mg>>, kids |-> <<>>]
               /\ n = TMG!Leaf(mg)
  BY DEF TMG!Leaf
<1>2. n.mg # <<>> /\ n.kids = <<>>
  BY <1>1
<1> QED BY <1>1, <1>2, LeafInOrder DEF Fresh

LEMMA JoinIsFresh ==
  ASSUME NEW a, NEW b, Fresh(b), lastTs \in Nat,
         a.ts \in Nat, a.ts < lastTs, a.mg # <<>>, TMG!InOrder(a)
  PROVE  Fresh(TMG!Join(a, b))
<1>1. PICK p : p = TMG!Join(a, b)
  OBVIOUS
<1>2. PICK t, mg, kids :
        b = [ts |-> lastTs, tot |-> t, mg |-> mg, kids |-> kids]
  BY DEF Fresh
<1>3. PICK b0 : b0 = [b EXCEPT !.mg = <<>>]
  OBVIOUS
<1>4. b0 = [ts |-> lastTs, tot |-> t, mg |-> <<>>, kids |-> kids]
  BY <1>2, <1>3
<1>5. b0.kids = b.kids /\ b0.ts = b.ts /\ b0.ts = lastTs
  BY <1>2, <1>4
<1>6. PICK m : p = [ts |-> lastTs, tot |-> tot, mg |-> <<m>>, kids |-> <<a, b0>>]
  BY <1>1, <1>3 DEF TMG!Join
<1>7. p.mg # <<>> /\ p.kids = <<a, b0>> /\ p.ts = lastTs
  BY <1>6
<1>8. TMG!KidsInOrder(p)
  BY <1>5, <1>7 DEF TMG!KidsInOrder
<1>9. TMG!InOrder(p)
  BY <1>5, <1>7, <1>8, JoinInOrder DEF Fresh
<1> QED BY <1>1, <1>6, <1>7, <1>9 DEF Fresh

\* The node that is carried is fresh at every level it reaches.
LEMMA CarriedIsFresh ==
  ASSUME ForestTypes, Rooted, NEW leaf, Fresh(leaf), NEW node,
         Carrying(node, leaf, TMG!FreeLevel), NEW n \in level .. TMG!FreeLevel
  PROVE  Fresh(node[n])
<1>1. PICK F, v : F = TMG!FreeLevel /\ v = level
  OBVIOUS
<1>2. /\ F \in Nat /\ F <= TreeLevels /\ v \in Nat /\ TreeLevels \in Nat
      /\ \A l \in TMG!Level : v <= l /\ l < F => tree[l] # <<>>
      /\ node = [l \in v .. F |->
                   IF l = v THEN leaf ELSE TMG!Join(tree[l - 1][1], node[l - 1])]
  BY <1>1, FreeLevelFacts, SketchesAssumption DEF ForestTypes, Carrying
<1> DEFINE W == {k \in Nat : v + k <= F => Fresh(node[v + k])}
<1>3. 0 \in W
  <2> SUFFICES ASSUME v <= F PROVE Fresh(node[v])
    BY <1>2
  <2>1. node[v] = leaf
    BY <1>2
  <2> QED BY <2>1
<1>4. ASSUME NEW k \in W PROVE k + 1 \in W
  <2> SUFFICES ASSUME v + (k + 1) <= F PROVE Fresh(node[v + (k + 1)])
    OBVIOUS
  <2>1. PICK l : l = v + k
    OBVIOUS
  <2>2. /\ l \in Nat /\ l < F /\ v <= l /\ v + (k + 1) = l + 1
        /\ l + 1 \in v .. F /\ l + 1 # v /\ (l + 1) - 1 = l
        /\ l \in 0 .. TreeLevels - 1
    BY <1>2, <2>1
  <2>3. tree[l] # <<>> /\ l \in TMG!Level
    BY <1>2, <2>2 DEF TMG!Level
  <2>4. node[l + 1] = TMG!Join(tree[l][1], node[l])
    <3>1. node[l + 1] = IF l + 1 = v THEN leaf
                        ELSE TMG!Join(tree[(l + 1) - 1][1], node[(l + 1) - 1])
      BY <1>2, <2>2
    <3> QED BY <2>2, <3>1
  <2>5. Fresh(node[l])
    BY <1>2, <2>1, <2>2
  <2>6. /\ tree[l][1].ts \in Nat /\ tree[l][1].ts < lastTs
        /\ tree[l][1].mg # <<>> /\ TMG!InOrder(tree[l][1])
    BY <2>3 DEF Rooted
  <2>7. lastTs \in Nat
    BY DEF ForestTypes
  <2> QED BY <2>2, <2>4, <2>5, <2>6, <2>7, JoinIsFresh
<1> HIDE DEF W
<1>5. W = Nat
  <2>1. W \in SUBSET Nat
    BY DEF W
  <2> QED BY <1>3, <1>4, <2>1, NatSetInduction
<1>6. PICK k \in Nat : n = v + k
  <2>1. n - v \in Nat /\ n = v + (n - v)
    BY <1>1, <1>2
  <2> QED BY <2>1
<1>7. v + k <= F
  BY <1>1, <1>2, <1>6
<1> QED BY <1>5, <1>6, <1>7 DEF W

LEMMA CarriedRoot ==
  ASSUME ForestTypes, Rooted, NEW leaf, Fresh(leaf),
         TMG!FreeLevel \in TMG!Level, level <= TMG!FreeLevel
  PROVE  \E n : Fresh(n) /\ TMG!Carried(leaf)[TMG!FreeLevel] = <<n>>
<1>1. PICK node :
        /\ Carrying(node, leaf, TMG!FreeLevel)
        /\ TMG!Carried(leaf) =
             [l \in TMG!Level |->
                CASE l \notin level .. TMG!FreeLevel -> tree[l]
                  [] l \in level .. TMG!FreeLevel - 1 -> <<>>
                  [] OTHER -> <<node[l]>>]
  BY CarriedIs
<1>2. PICK F : F = TMG!FreeLevel
  OBVIOUS
<1>3. /\ F \in TMG!Level /\ F \in level .. TMG!FreeLevel
      /\ F \notin level .. TMG!FreeLevel - 1
  BY <1>2, FreeLevelFacts DEF ForestTypes
<1>4. Fresh(node[F])
  BY <1>1, <1>3, CarriedIsFresh
<1>5. TMG!Carried(leaf)[F] = <<node[F]>>
  BY <1>1, <1>3
<1> QED BY <1>2, <1>4, <1>5

\* The new root is the newest, and only empty levels lie below it.
LEMMA MergeRoots ==
  ASSUME ForestInv, TMG!MergeCurSketch(1), lastTs' = lastTs + 1
  PROVE  /\ tree' = [l \in TMG!Level |-> tree'[l]]
         /\ Rooted' /\ OrderedRoots'
<1>1. PICK leaf : Fresh(leaf) /\ tree' = TMG!Carried(leaf)
  BY LeafIsFresh DEF TMG!MergeCurSketch
<1>2. /\ ForestTypes /\ Rooted /\ OrderedRoots /\ TMG!NothingBelowLevel
      /\ lastTs \in Nat /\ level \in Nat
  BY DEF ForestInv, ForestTypes
<1>3. PICK F : F = TMG!FreeLevel
  OBVIOUS
<1>4. /\ F \in Nat /\ F <= TreeLevels /\ TreeLevels \in Nat
      /\ \A l \in TMG!Level : l \in Nat /\ l < TreeLevels
  BY <1>2, <1>3, FreeLevelFacts, SketchesAssumption DEF TMG!Level
<1>5. /\ tree' = [l \in TMG!Level |-> tree'[l]]
      /\ \A l \in TMG!Level :
           /\ l < level \/ l > F => tree'[l] = tree[l]
           /\ level <= l /\ l < F => tree'[l] = <<>>
  BY <1>1, <1>2, <1>3, CarriedShape
<1>6. ASSUME NEW l \in TMG!Level, tree'[l] # <<>>
      PROVE  \/ /\ l = F
                /\ \E n : Fresh(n) /\ tree'[l] = <<n>>
             \/ l > F /\ tree'[l] = tree[l]
  <2>1. ~(l < level)
    BY <1>2, <1>5, <1>6 DEF TMG!NothingBelowLevel
  <2>2. l >= F
    BY <1>2, <1>4, <1>5, <1>6, <2>1
  <2>3. CASE l = F
    BY <1>1, <1>2, <1>3, <1>4, <2>1, <2>3, CarriedRoot
  <2>4. CASE l > F
    BY <1>5, <2>4
  <2> QED BY <1>4, <2>2, <2>3, <2>4
<1>7. ASSUME NEW l \in TMG!Level, tree'[l] # <<>>
      PROVE  /\ tree'[l] = <<tree'[l][1]>>
             /\ tree'[l][1].mg # <<>> /\ TMG!InOrder(tree'[l][1])
             /\ tree'[l][1].ts \in Nat
             /\ IF l = F THEN tree'[l][1].ts = lastTs ELSE tree'[l][1].ts < lastTs
  <2>1. CASE l = F /\ \E n : Fresh(n) /\ tree'[l] = <<n>>
    <3>1. PICK n : Fresh(n) /\ tree'[l] = <<n>>
      BY <2>1
    <3>2. n.ts = lastTs
      BY <3>1 DEF Fresh
    <3>3. tree'[l][1] = n
      BY <3>1
    <3> QED BY <1>2, <2>1, <3>1, <3>2, <3>3 DEF Fresh
  <2>2. CASE l > F /\ tree'[l] = tree[l]
    BY <1>2, <1>4, <1>7, <2>2 DEF Rooted
  <2> QED BY <1>6, <1>7, <2>1, <2>2
<1>8. Rooted'
  <2> SUFFICES ASSUME NEW l \in TMG!Level, tree'[l] # <<>>
               PROVE  /\ tree'[l] = <<tree'[l][1]>>
                      /\ tree'[l][1].ts \in Nat /\ tree'[l][1].ts < lastTs'
                      /\ tree'[l][1].mg # <<>>
                      /\ TMG!InOrder(tree'[l][1])
    BY DEF Rooted, TMG!InOrder, TMG!Level
  <2>1. tree'[l][1].ts <= lastTs /\ tree'[l][1].ts \in Nat
    BY <1>2, <1>7
  <2>2. tree'[l][1].ts < lastTs'
    BY <1>2, <2>1
  <2> QED BY <1>7, <2>1, <2>2
<1>9. OrderedRoots'
  <2> SUFFICES ASSUME NEW l \in TMG!Level, NEW m \in TMG!Level, l < m,
                      tree'[l] # <<>>, tree'[m] # <<>>
               PROVE  tree'[l][1].ts > tree'[m][1].ts
    BY DEF OrderedRoots, TMG!Level
  <2>1. m # F /\ m > F /\ tree'[m] = tree[m]
    BY <1>4, <1>6
  <2>2. CASE l = F
    BY <1>2, <1>7, <2>1, <2>2
  <2>3. CASE l > F /\ tree'[l] = tree[l]
    BY <1>2, <2>1, <2>3 DEF OrderedRoots
  <2> QED BY <1>6, <2>2, <2>3
<1> QED BY <1>5, <1>8, <1>9

-----------------------------------------------------------------------------
(* The invariant, and what it says of every sketch of the class *)

LEMMA InitForest == TMG!Init => ForestInv
<1> SUFFICES ASSUME TMG!Init PROVE ForestInv
  OBVIOUS
<1>1. /\ lastTs = 0 /\ level = 0 /\ remaining = 2 * K
      /\ tree = [l \in TMG!Level |-> <<>>]
  BY DEF TMG!Init
<1>2. K \in Nat /\ K >= 2 /\ TreeLevels \in Nat
  BY SketchesAssumption
<1>3. ForestTypes
  BY <1>1, <1>2 DEF ForestTypes
<1>4. TMG!NothingBelowLevel /\ Rooted /\ OrderedRoots
  BY <1>1 DEF TMG!NothingBelowLevel, Rooted, OrderedRoots
<1>5. CountsUp
  <2>1. PICK c : c = [l \in 0 .. TreeLevels |-> 0]
    OBVIOUS
  <2>2. c \in [0 .. TreeLevels -> Nat] /\ c[level] + remaining = 2 * K
    BY <1>1, <1>2, <2>1
  <2>3. \A l \in level .. TreeLevels - 1 : c[l] = 2 * c[l + 1] + Bit(l)
    <3> SUFFICES ASSUME NEW l \in level .. TreeLevels - 1
                 PROVE  c[l] = 2 * c[l + 1] + Bit(l)
      OBVIOUS
    <3>1. l \in TMG!Level /\ l \in 0 .. TreeLevels /\ l + 1 \in 0 .. TreeLevels
      BY <1>1, <1>2 DEF TMG!Level
    <3> QED BY <1>1, <2>1, <3>1 DEF Bit
  <2> QED BY <2>2, <2>3 DEF CountsUp, Counter
<1> QED BY <1>3, <1>4, <1>5 DEF ForestInv

\* Nothing but the time moves on.
LEMMA ForestStays ==
  ASSUME ForestInv, UNCHANGED <<tree, level, remaining>>,
         lastTs' \in Nat, lastTs <= lastTs'
  PROVE  ForestInv'
<1>1. ForestTypes' /\ TMG!NothingBelowLevel'
  BY DEF ForestInv, ForestTypes, TMG!NothingBelowLevel
<1>2. CountsUp'
  <2> SUFFICES ASSUME level < TreeLevels PROVE CountsUp'
    BY DEF CountsUp
  <2>1. PICK c : Counter(c)
    BY DEF ForestInv, CountsUp
  <2>2. Counter(c)'
    BY <2>1 DEF Counter, Bit
  <2> QED BY <2>2 DEF CountsUp
<1>3. OrderedRoots'
  BY DEF ForestInv, OrderedRoots
<1>4. Rooted'
  <2> SUFFICES ASSUME NEW l \in TMG!Level, tree[l] # <<>>
               PROVE  /\ tree[l] = <<tree[l][1]>>
                      /\ tree[l][1].ts \in Nat /\ tree[l][1].ts < lastTs'
                      /\ tree[l][1].mg # <<>>
                      /\ TMG!InOrder(tree[l][1])
    BY DEF Rooted
  <2>1. /\ tree[l] = <<tree[l][1]>>
        /\ tree[l][1].ts \in Nat /\ tree[l][1].ts < lastTs
        /\ tree[l][1].mg # <<>> /\ TMG!InOrder(tree[l][1])
    BY DEF ForestInv, Rooted
  <2>2. tree[l][1].ts < lastTs'
    BY <2>1 DEF ForestInv, ForestTypes
  <2> QED BY <2>1, <2>2
<1> QED BY <1>1, <1>2, <1>3, <1>4 DEF ForestInv

LEMMA ForestStep ==
  ASSUME ForestInv, TMG!Next \/ UNCHANGED <<tree, level, remaining, lastTs>>
  PROVE  ForestInv'
<1>1. lastTs \in Nat
  BY DEF ForestInv, ForestTypes
<1>2. CASE \E x \in Key : TMG!UpdateSameTs(x)
  BY <1>1, <1>2, ForestStays DEF TMG!UpdateSameTs
<1>3. CASE \E x \in Key : TMG!UpdateNextTs(x)
  <2>1. lastTs' = lastTs + 1
    BY <1>3 DEF TMG!UpdateNextTs
  <2>2. CASE TMG!MergeCurSketch(1)
    <3>1. /\ level' \in Nat /\ remaining' \in Nat \ {0}
          /\ CountsUp' /\ TMG!NothingBelowLevel'
      BY <2>2, MergeCounts DEF ForestInv
    <3>2. /\ tree' = [l \in TMG!Level |-> tree'[l]]
          /\ Rooted' /\ OrderedRoots'
      BY <2>1, <2>2, MergeRoots
    <3>3. ForestTypes'
      BY <1>1, <2>1, <3>1, <3>2 DEF ForestTypes
    <3> QED BY <3>1, <3>2, <3>3 DEF ForestInv
  <2>3. CASE UNCHANGED <<tree, level, remaining>>
    BY <1>1, <2>1, <2>3, ForestStays
  <2> QED BY <1>3, <2>2, <2>3 DEF TMG!UpdateNextTs
<1>4. CASE TMG!Clear
  <2>1. /\ lastTs' = 0 /\ level' = 0 /\ remaining' = 2 * K
        /\ tree' = [l \in TMG!Level |-> <<>>]
    BY <1>4 DEF TMG!Clear
  <2>2. K \in Nat /\ K >= 2 /\ TreeLevels \in Nat
    BY SketchesAssumption
  <2>3. ForestTypes'
    BY <2>1, <2>2 DEF ForestTypes
  <2>4. TMG!NothingBelowLevel' /\ Rooted' /\ OrderedRoots'
    BY <2>1 DEF TMG!NothingBelowLevel, Rooted, OrderedRoots
  <2>5. CountsUp'
    <3>1. PICK c : c = [l \in 0 .. TreeLevels |-> 0]
      OBVIOUS
    <3>2. c \in [0 .. TreeLevels -> Nat] /\ c[level'] + remaining' = 2 * K
      BY <2>1, <2>2, <3>1
    <3>3. \A l \in level' .. TreeLevels - 1 : c[l] = 2 * c[l + 1] + Bit(l)'
      <4> SUFFICES ASSUME NEW l \in 0 .. TreeLevels - 1
                   PROVE  c[l] = 2 * c[l + 1] + Bit(l)'
        BY <2>1
      <4>1. l \in TMG!Level /\ l \in 0 .. TreeLevels /\ l + 1 \in 0 .. TreeLevels
        BY <2>2 DEF TMG!Level
      <4> QED BY <2>1, <3>1, <4>1 DEF Bit
    <3> QED BY <3>2, <3>3 DEF CountsUp, Counter
  <2> QED BY <2>3, <2>4, <2>5 DEF ForestInv
<1>5. CASE UNCHANGED <<tree, level, remaining, lastTs>>
  BY <1>1, <1>5, ForestStays
<1> QED BY <1>2, <1>3, <1>4, <1>5 DEF TMG!Next

SketchInv == class = "TMG" => ForestInv

LEMMA SketchInitial == Init => SketchInv
BY InitForest DEF Init, SketchInv

LEMMA SketchStep == SketchInv /\ [Next]_vars => SketchInv'
<1> SUFFICES ASSUME SketchInv, [Next]_vars, class' = "TMG" PROVE ForestInv'
  BY DEF SketchInv
<1>1. class' = class
  BY DEF Next, vars
<1>2. ForestInv
  BY <1>1 DEF SketchInv
<1>3. TMG!Next \/ UNCHANGED <<tree, level, remaining, lastTs>>
  BY <1>1 DEF Next, vars, ofTrees, shared
<1> QED BY <1>2, <1>3, ForestStep

THEOREM ForestInvariance == Spec => []SketchInv
BY SketchInitial, SketchStep, PTL DEF Spec

\* No tree is left below m_level, where neither queries nor carries look: the
\* quota of leaves of a level always makes up an even number.
THEOREM NothingLeftBelow == Spec => []NothingBelowLevel
<1>1. SketchInv => NothingBelowLevel
  BY DEF SketchInv, ForestInv, NothingBelowLevel
<1> QED BY <1>1, ForestInvariance, PTL

\* The forest stays in the order of time that the search for a timestamp
\* relies on: across trees, and from every parent to its children.
THEOREM ForestInOrder == Spec => []Chronological
<1>1. SketchInv => Chronological
  <2> SUFFICES ASSUME ForestInv PROVE TMG!Chronological
    BY DEF SketchInv, Chronological
  <2> QED BY DEF ForestInv, Rooted, OrderedRoots, TMG!Chronological
<1> QED BY <1>1, ForestInvariance, PTL

-----------------------------------------------------------------------------
(* The sketches of the tree                                                *)

LEMMA SameInTree ==
  /\ TMG!EmptySketch = MG!EmptySketch /\ TMG!SketchValue = MG!SketchValue
  /\ \A cnt : TMG!InTable(cnt) = MG!InTable(cnt) /\ TMG!MinOf(cnt) = MG!MinOf(cnt)
  /\ \A q : TMG!ResetDelta(q) = MG!ResetDelta(q)
  /\ \A q, x, c : TMG!UpdateImpl(q, x, c) = MG!UpdateImpl(q, x, c)
  /\ \A a, b : TMG!CntSum(a, b) = MG!CntSum(a, b)
  /\ \A cnt : TMG!Cuts(cnt) = MG!Cuts(cnt)
  /\ \A q, r, d : TMG!MergeInto(q, r, d) = MG!MergeInto(q, r, d)
<1>1. TMG!EmptySketch = MG!EmptySketch /\ TMG!SketchValue = MG!SketchValue
  BY DEF TMG!EmptySketch, MG!EmptySketch, TMG!SketchValue, MG!SketchValue
<1>2. \A cnt : TMG!InTable(cnt) = MG!InTable(cnt)
  BY DEF TMG!InTable, MG!InTable
<1>3. \A cnt : TMG!MinOf(cnt) = MG!MinOf(cnt)
  BY <1>2 DEF TMG!MinOf, MG!MinOf
<1>4. \A q : TMG!ResetDelta(q) = MG!ResetDelta(q)
  BY <1>2, <1>3 DEF TMG!ResetDelta, MG!ResetDelta
<1>5. \A q : TMG!SubtractMin(q) = MG!SubtractMin(q)
  BY <1>2, <1>3 DEF TMG!SubtractMin, MG!SubtractMin
<1>6. \A q : TMG!SubtractPasses(q) = MG!SubtractPasses(q)
  BY <1>5 DEF TMG!SubtractPasses, MG!SubtractPasses
<1>7. \A q, x : TMG!InsertLeftover(q, x) = MG!InsertLeftover(q, x)
  BY DEF TMG!InsertLeftover, MG!InsertLeftover, TMG!Lesser, MG!Lesser
<1>8. \A S : TMG!Cardinality(S) = MG!Cardinality(S)
  BY DEF TMG!Cardinality, MG!Cardinality
<1>9. \A cnt : TMG!HasRoom(cnt) = MG!HasRoom(cnt)
  BY <1>2, <1>8 DEF TMG!HasRoom, MG!HasRoom
<1>10. ASSUME NEW q, NEW x, NEW c PROVE TMG!UpdateImpl(q, x, c) = MG!UpdateImpl(q, x, c)
  BY <1>2, <1>6, <1>7, <1>9 DEF TMG!UpdateImpl, MG!UpdateImpl, TMG!Lesser, MG!Lesser
<1>11. \A a, b : TMG!CntSum(a, b) = MG!CntSum(a, b)
  BY DEF TMG!CntSum, MG!CntSum
<1>12. \A cnt : TMG!Cuts(cnt) = MG!Cuts(cnt)
  BY <1>2, <1>8 DEF TMG!Cuts, MG!Cuts
<1>13. \A cnt, d : TMG!CutTable(cnt, d) = MG!CutTable(cnt, d)
  BY DEF TMG!CutTable, MG!CutTable
<1>14. ASSUME NEW q, NEW r, NEW d PROVE TMG!MergeInto(q, r, d) = MG!MergeInto(q, r, d)
  BY <1>4, <1>11, <1>13 DEF TMG!MergeInto, MG!MergeInto
<1> QED BY <1>1, <1>2, <1>3, <1>4, <1>10, <1>11, <1>12, <1>14

LEMMA TreeConstants ==
  /\ MG!SketchAssumption
  /\ IsFiniteSet(Key) /\ K \in Nat /\ K >= 2 /\ NoMin \in Nat \ {0}
  /\ EpsNum \in Nat \ {0} /\ EpsDen \in Nat \ {0}
  /\ TreeLevels \in Nat /\ TreeMaxTotal \in Nat /\ TreeMaxTotal < NoMin
<1>1. TreeMaxTotal \in Nat /\ TreeMaxTotal < NoMin /\ NoMin \in Nat
  BY SketchesAssumption DEF SketchesAssumption
<1>2. NoMin \in Nat \ {0}
  BY <1>1
<1>3. EpsNum \in Nat \ {0} /\ EpsDen \in Nat \ {0}
  BY SketchesAssumption DEF SketchesAssumption
<1> QED BY <1>1, <1>2, <1>3, ChainConstants, SketchesAssumption DEF SketchesAssumption

\* A sketch q at rest, of a stream with the counts f and the weight w.
AtRest(q, f, w) ==
  /\ q \in MG!SketchValue /\ q.delta = 0
  /\ f \in [Key -> Nat] /\ w \in Nat
  /\ \E e \in Nat : MG!Sound(q, f, e) /\ MG!Mass(q, e, w, K)

\* A sketch that still takes arrivals.
Open(q, f, w) ==
  /\ q \in MG!SketchValue /\ MG!LazyMin(q)
  /\ f \in [Key -> Nat] /\ w \in Nat
  /\ \E e \in Nat : MG!Sound(q, f, e) /\ MG!Mass(q, e, w, K)

IsSumOf(h, f, g) == h \in [Key -> Nat] /\ \A x \in Key : h[x] = f[x] + g[x]

LEMMA EmptyIsAtRest ==
  ASSUME NEW f \in [Key -> Nat], \A x \in Key : f[x] = 0
  PROVE  AtRest(TMG!EmptySketch, f, 0) /\ Open(TMG!EmptySketch, f, 0)
<1>1. MG!EmptySketch \in MG!SketchValue /\ MG!Sound(MG!EmptySketch, f, 0) /\ MG!LazyMin(MG!EmptySketch)
  BY TreeConstants, MG!EmptyIsSound
<1>2. MG!Mass(MG!EmptySketch, 0, 0, K)
  <2>1. MG!Rate(K)
    BY DEF MG!Rate
  <2> QED BY <2>1, TreeConstants, MG!EmptyBalances
<1>3. MG!EmptySketch.delta = 0
  BY DEF MG!EmptySketch
<1> QED BY <1>1, <1>2, <1>3, SameInTree DEF AtRest, Open

LEMMA MergedIsAtRest ==
  ASSUME NEW a, NEW f, NEW t, AtRest(a, f, t),
         NEW b, NEW g, NEW u, AtRest(b, g, u),
         NEW h, IsSumOf(h, f, g)
  PROVE  AtRest(TMG!Merged(a, b), h, t + u)
<1>1. PICK e \in Nat : MG!Sound(a, f, e) /\ MG!Mass(a, e, t, K)
  BY DEF AtRest
<1>2. PICK k \in Nat : MG!Sound(b, g, k) /\ MG!Mass(b, k, u, K)
  BY DEF AtRest
<1>3. /\ a \in MG!SketchValue /\ b \in MG!SketchValue /\ a.delta = 0 /\ b.delta = 0
      /\ f \in [Key -> Nat] /\ g \in [Key -> Nat] /\ t \in Nat /\ u \in Nat
  BY DEF AtRest
<1>4. PICK joint : joint = MG!CntSum(MG!ResetDelta(a).cnt, MG!ResetDelta(b).cnt)
  OBVIOUS
<1>5. joint \in [Key -> Nat]
  <2>1. PICK ra, rb : ra = MG!ResetDelta(a) /\ rb = MG!ResetDelta(b)
    OBVIOUS
  <2>2. ra \in MG!SketchValue /\ rb \in MG!SketchValue
    BY <1>1, <1>2, <1>3, <2>1, TreeConstants, MG!ResetDeltaKeeps
  <2>3. ra.cnt \in [Key -> Nat] /\ rb.cnt \in [Key -> Nat]
    BY <2>2 DEF MG!SketchValue
  <2> QED BY <1>4, <2>1, <2>3 DEF MG!CntSum
<1>6. MG!Cuts(joint) # {}
  BY <1>5, TreeConstants, MG!CutsExist
<1>7. PICK d : d = CHOOSE c \in MG!Cuts(joint) : TRUE
  OBVIOUS
<1>8. d \in MG!Cuts(joint)
  BY <1>6, <1>7
<1>9. d \in Nat
  BY <1>5, <1>8, TreeConstants, MG!CutsAreNat
<1>10. TMG!Merged(a, b) = MG!MergeInto(a, b, d)
  BY <1>4, <1>7, SameInTree DEF TMG!Merged
<1>11. PICK r : r = MG!MergeInto(a, b, d)
  OBVIOUS
<1>12. /\ r \in MG!SketchValue /\ r.delta = 0
       /\ MG!Sound(r, MG!CntSum(f, g), e + k + d)
  BY <1>1, <1>2, <1>3, <1>9, <1>11, TreeConstants, MG!MergeKeeps
<1>13. MG!CntSum(f, g) = h
  BY DEF MG!CntSum, IsSumOf
<1>14. MG!Rate(K)
  BY DEF MG!Rate
<1>15. MG!Mass(r, e + k + d, t + u, K)
  BY <1>1, <1>2, <1>3, <1>4, <1>8, <1>11, <1>14, TreeConstants, MG!MergeBalances
<1>16. e + k + d \in Nat /\ t + u \in Nat /\ h \in [Key -> Nat]
  BY <1>3, <1>9 DEF IsSumOf
<1> QED BY <1>10, <1>11, <1>12, <1>13, <1>15, <1>16 DEF AtRest

LEMMA OpenCounts ==
  ASSUME NEW q, NEW f, NEW w, Open(q, f, w), w < TreeMaxTotal, NEW x \in Key
  PROVE  Open(TMG!UpdateImpl(q, x, 1), [f EXCEPT ![x] = @ + 1], w + 1)
<1>1. PICK r, g : r = MG!UpdateImpl(q, x, 1) /\ g = [f EXCEPT ![x] = @ + 1]
  OBVIOUS
<1>2. q \in MG!SketchValue /\ f \in [Key -> Nat] /\ MG!LazyMin(q) /\ w \in Nat
  BY DEF Open
<1>3. PICK e \in Nat : MG!Sound(q, f, e) /\ MG!Mass(q, e, w, K)
  BY DEF Open
<1>4. w + 1 < NoMin /\ w + 1 \in Nat /\ 1 \in Nat \ {0}
  BY <1>2, TreeConstants
<1>5. PICK h \in Nat : h = e + 1 - (r.cnt[x] - q.cnt[x]) /\ MG!Sound(r, g, h)
                       /\ r \in MG!SketchValue /\ MG!LazyMin(r)
  <2>1. LET ff == [f EXCEPT ![x] = @ + 1]
            ee == e + 1 - (r.cnt[x] - q.cnt[x])
        IN /\ r \in MG!SketchValue /\ MG!Sound(r, ff, ee) /\ MG!LazyMin(r)
           /\ ee \in Nat
    BY <1>1, <1>2, <1>3, <1>4, TreeConstants, MG!UpdateKeeps
  <2> QED BY <1>1, <2>1
<1>6. MG!Mass(r, h, w + 1, K)
  <2>1. q.delta <= e
    BY <1>3 DEF MG!Sound
  <2>2. MG!Rate(K)
    BY DEF MG!Rate
  <2>3. LET rr == MG!UpdateImpl(q, x, 1)
        IN MG!Mass(rr, e + 1 - (rr.cnt[x] - q.cnt[x]), w + 1, K)
    BY <1>2, <1>3, <1>4, <2>1, <2>2, TreeConstants, MG!UpdateBalances
  <2> QED BY <1>1, <1>5, <2>3
<1>7. g \in [Key -> Nat]
  BY <1>1, <1>2
<1> QED BY <1>1, <1>2, <1>4, <1>5, <1>6, <1>7, SameInTree DEF Open

\* What merge_cur_sketch does with the running sketch: the large counters and
\* all that was declined go into the leaf, the small counters, which are exact
\* from here on, stay.
LEMMA SketchSplits ==
  ASSUME tot \in Nat, NEW f, NEW w, Open(sk, f, w)
  PROVE  \E f1, f2 : \E w1, w2 \in Nat :
           /\ IsSumOf(f, f1, f2) /\ w = w1 + w2
           /\ AtRest(TMG!LeafSketch(TMG!ResetDelta(sk)), f1, w1)
           /\ Open(TMG!SmallPart(TMG!ResetDelta(sk)), f2, w2)
           /\ \A x \in Key : EpsDen * f2[x] <= EpsNum * tot
<1>1. PICK e \in Nat : MG!Sound(sk, f, e) /\ MG!Mass(sk, e, w, K)
  BY DEF Open
<1>2. sk \in MG!SketchValue /\ MG!LazyMin(sk) /\ f \in [Key -> Nat] /\ w \in Nat
  BY DEF Open
<1>3. PICK q : q = MG!ResetDelta(sk) /\ q = TMG!ResetDelta(sk)
  BY SameInTree
<1>4. q \in MG!SketchValue /\ q.delta = 0 /\ MG!Sound(q, f, e) /\ MG!LazyMin(q)
  BY <1>1, <1>2, <1>3, TreeConstants, MG!ResetDeltaKeeps
<1>5. K * e + MG!Sum(q.cnt, Key) <= w
  <2>1. MG!Rate(K)
    BY DEF MG!Rate
  <2> QED BY <1>1, <1>2, <1>3, <2>1, TreeConstants, MG!ResetBalances
<1>6. q.cnt \in [Key -> Nat] /\ q.min \in Nat /\ \A x \in Key : q.cnt[x] \in Nat /\ f[x] \in Nat
  BY <1>2, <1>4 DEF MG!SketchValue
<1>7. PICK large : large = TMG!LargePart(q)
  OBVIOUS
<1>8. /\ large \in [Key -> Nat]
      /\ \A x \in Key : /\ large[x] = q.cnt[x] \/ large[x] = 0
                        /\ q.cnt[x] * EpsDen >= tot * EpsNum => large[x] = q.cnt[x]
  BY <1>6, <1>7 DEF TMG!LargePart, TMG!IsLarge
<1>9. PICK small : small = [x \in Key |-> q.cnt[x] - large[x]]
  OBVIOUS
<1>10. small \in [Key -> Nat]
  <2>1. \A x \in Key : q.cnt[x] - large[x] \in Nat
    BY <1>6, <1>8
  <2> QED BY <1>9, <2>1
<1>11. \A x \in Key : /\ q.cnt[x] = large[x] + small[x] /\ large[x] \in Nat /\ small[x] \in Nat
                      /\ small[x] # 0 => small[x] = q.cnt[x] /\ large[x] = 0
  BY <1>6, <1>8, <1>9, <1>10
<1>12. /\ MG!Sum(q.cnt, Key) = MG!Sum(large, Key) + MG!Sum(small, Key)
       /\ MG!Sum(large, Key) \in Nat /\ MG!Sum(small, Key) \in Nat
  <2>1. MG!Sum(q.cnt, Key) = MG!Sum(large, Key) + MG!Sum(small, Key)
    BY <1>11, SameSize, TreeConstants, MG!SumAdd
  <2>2. \A c \in [Key -> Nat] : MG!Sum(c, Key) \in Nat
    BY TreeConstants, MG!CountSum
  <2> QED BY <1>8, <1>10, <2>1, <2>2
<1>13. PICK w2 \in Nat : w2 = MG!Sum(small, Key)
  BY <1>12
<1>14. PICK ke \in Nat : ke = K * e
  BY TreeConstants
<1>15. PICK sl \in Nat : sl = MG!Sum(large, Key)
  BY <1>12
<1>16. PICK w1 \in Nat : w1 = w - w2
  <2>1. w - w2 \in Nat
    BY <1>2, <1>5, <1>12, <1>13, <1>14, <1>15
  <2> QED BY <2>1
<1>17. ke + sl <= w1 /\ w = w1 + w2
  BY <1>2, <1>5, <1>12, <1>13, <1>14, <1>15, <1>16
<1>18. PICK f1 : f1 = [x \in Key |-> f[x] - small[x]]
  OBVIOUS
<1>19. ASSUME NEW x \in Key
       PROVE  /\ q.cnt[x] <= f[x]
              /\ q.cnt[x] # 0 => f[x] <= q.cnt[x] + e
              /\ q.cnt[x] = 0 => f[x] <= e
  <2>1. /\ q.cnt[x] <= f[x]
        /\ x \in MG!InTable(q.cnt) => f[x] <= q.cnt[x] + e - q.delta
        /\ x \notin MG!InTable(q.cnt) => f[x] <= e
    BY <1>4 DEF MG!Sound
  <2>2. x \in MG!InTable(q.cnt) <=> q.cnt[x] # 0
    BY DEF MG!InTable
  <2> QED BY <1>4, <1>6, <2>1, <2>2
<1>20. f1 \in [Key -> Nat] /\ \A x \in Key : f[x] = f1[x] + small[x] /\ f1[x] \in Nat
  <2>1. \A x \in Key : f[x] - small[x] \in Nat
    BY <1>6, <1>11, <1>19
  <2>2. f1 \in [Key -> Nat]
    BY <1>18, <2>1
  <2> QED BY <1>6, <1>11, <1>18, <2>2
<1>21. AtRest(TMG!LeafSketch(q), f1, w1)
  <2>1. PICK leaf : leaf = TMG!LeafSketch(q)
    OBVIOUS
  <2>2. leaf = [cnt |-> large, min |-> MG!MinOf(large), delta |-> 0]
    BY <1>7, <2>1, SameInTree DEF TMG!LeafSketch
  <2>3. leaf.cnt = large /\ leaf.delta = 0
    BY <2>2
  <2>4. leaf \in MG!SketchValue
    <3>1. MG!MinOf(large) \in Nat
      BY <1>8, TreeConstants, MG!MinOfBounds
    <3> QED BY <1>8, <2>2, <3>1 DEF MG!SketchValue
  <2>5. MG!Sound(leaf, f1, e)
    <3> SUFFICES ASSUME NEW x \in Key
                 PROVE  /\ large[x] <= f1[x]
                        /\ x \in MG!InTable(large) => 0 < large[x] /\ f1[x] <= large[x] + e - 0
                        /\ x \notin MG!InTable(large) => f1[x] <= e
      BY <2>3 DEF MG!Sound
    <3>1. x \in MG!InTable(large) <=> large[x] # 0
      BY DEF MG!InTable
    <3> QED BY <1>6, <1>11, <1>19, <1>20, <3>1
  <2>6. MG!Mass(leaf, e, w1, K)
    <3>1. MG!Sum(large, Key) = sl
      BY <1>15
    <3>2. e - 0 = e
      OBVIOUS
    <3>3. K * (e - leaf.delta) + leaf.delta + MG!Sum(leaf.cnt, Key) = ke + sl
      BY <1>14, <2>3, <3>1, <3>2
    <3> QED BY <1>17, <3>3 DEF MG!Mass
  <2> QED BY <1>20, <2>1, <2>3, <2>4, <2>5, <2>6 DEF AtRest
<1>22. Open(TMG!SmallPart(q), small, w2)
  <2>1. PICK rest : rest = TMG!SmallPart(q)
    OBVIOUS
  <2>2. PICK m : m = IF MG!InTable(small) = {} THEN NoMin ELSE q.min
    OBVIOUS
  <2>3. rest = [cnt |-> small, min |-> m, delta |-> 0]
    BY <1>7, <1>9, <2>1, <2>2, SameInTree DEF TMG!SmallPart
  <2>4. rest.cnt = small /\ rest.delta = 0 /\ rest.min = m
    BY <2>3
  <2>5. m \in Nat /\ 0 < m
    BY <1>4, <1>6, <2>2, TreeConstants DEF MG!LazyMin
  <2>6. rest \in MG!SketchValue
    BY <1>10, <2>3, <2>5 DEF MG!SketchValue
  <2>7. MG!LazyMin(rest)
    <3> SUFFICES ASSUME NEW x \in MG!InTable(small) PROVE m <= small[x]
      BY <2>4, <2>5 DEF MG!LazyMin
    <3>1. m = q.min /\ x \in Key /\ small[x] # 0
      BY <2>2 DEF MG!InTable
    <3>2. small[x] = q.cnt[x] /\ x \in MG!InTable(q.cnt)
      BY <1>11, <3>1 DEF MG!InTable
    <3> QED BY <1>4, <3>1, <3>2 DEF MG!LazyMin
  <2>8. MG!Sound(rest, small, 0)
    <3> SUFFICES ASSUME NEW x \in Key
                 PROVE  /\ small[x] <= small[x]
                        /\ x \in MG!InTable(small) => 0 < small[x] /\ small[x] <= small[x] + 0 - 0
                        /\ x \notin MG!InTable(small) => small[x] <= 0
      BY <2>4 DEF MG!Sound
    <3>1. x \in MG!InTable(small) <=> small[x] # 0
      BY DEF MG!InTable
    <3> QED BY <1>11, <3>1
  <2>9. MG!Mass(rest, 0, w2, K)
    <3>1. MG!Sum(small, Key) = w2
      BY <1>13
    <3>2. K * (0 - rest.delta) + rest.delta + MG!Sum(rest.cnt, Key) = w2
      BY <2>4, <3>1, TreeConstants
    <3> QED BY <3>2 DEF MG!Mass
  <2> QED BY <1>10, <2>1, <2>6, <2>7, <2>8, <2>9 DEF Open
<1>23. ASSUME NEW x \in Key PROVE EpsDen * small[x] <= EpsNum * tot
  <2>1. PICK c \in Nat, n \in Nat : c = EpsDen * small[x] /\ n = EpsNum * tot
    BY <1>11, TreeConstants
  <2>2. CASE small[x] = 0
    BY <2>1, <2>2, TreeConstants
  <2>3. CASE small[x] # 0
    <3>1. q.cnt[x] = small[x] /\ large[x] # q.cnt[x]
      BY <1>11, <2>3
    <3>2. ~(q.cnt[x] * EpsDen >= tot * EpsNum)
      BY <1>8, <3>1
    <3>3. q.cnt[x] * EpsDen = c /\ tot * EpsNum = n
      BY <1>6, <2>1, <3>1, TreeConstants
    <3> QED BY <2>1, <3>2, <3>3
  <2> QED BY <2>2, <2>3
<1>24. IsSumOf(f, f1, small)
  BY <1>2, <1>20 DEF IsSumOf
<1> QED BY <1>3, <1>17, <1>21, <1>22, <1>23, <1>24

-----------------------------------------------------------------------------
(* There is always a free level                                            *)

Powers(f, n) == f = [i \in 0 .. n |-> IF i = 0 THEN 1 ELSE 2 * f[i - 1]]

LEMMA PowersExist == \A n \in Nat : \E f : Powers(f, n)
<1> DEFINE W == {n \in Nat : \E f : Powers(f, n)}
<1>1. 0 \in W
  <2>1. Powers([i \in 0 .. 0 |-> 1], 0)
    BY DEF Powers
  <2> QED BY <2>1
<1>2. ASSUME NEW n \in W PROVE n + 1 \in W
  <2>1. PICK f : Powers(f, n)
    OBVIOUS
  <2>2. PICK g : g = [i \in 0 .. n + 1 |-> IF i = n + 1 THEN 2 * f[n] ELSE f[i]]
    OBVIOUS
  <2>3. ASSUME NEW i \in 0 .. n + 1 PROVE g[i] = IF i = 0 THEN 1 ELSE 2 * g[i - 1]
    <3>1. CASE i = n + 1
      <4>1. i # 0 /\ i - 1 = n /\ n \in 0 .. n + 1 /\ n # n + 1
        BY <3>1
      <4> QED BY <2>2, <3>1, <4>1
    <3>2. CASE i # n + 1
      <4>1. i \in 0 .. n /\ (i # 0 => i - 1 \in 0 .. n /\ i - 1 # n + 1)
        BY <3>2
      <4>2. f[i] = IF i = 0 THEN 1 ELSE 2 * f[i - 1]
        BY <2>1, <4>1 DEF Powers
      <4> QED BY <2>2, <3>2, <4>1, <4>2
    <3> QED BY <3>1, <3>2
  <2>4. Powers(g, n + 1)
    BY <2>2, <2>3 DEF Powers
  <2> QED BY <2>4
<1> HIDE DEF W
<1>3. W = Nat
  <2>1. W \in SUBSET Nat
    BY DEF W
  <2> QED BY <1>1, <1>2, <2>1, NatSetInduction
<1> QED BY <1>3 DEF W

LEMMA PowersAgree ==
  ASSUME NEW n \in Nat, NEW f, Powers(f, n), NEW g, Powers(g, n + 1)
  PROVE  g[n] = f[n]
<1> DEFINE W == {i \in Nat : i <= n => g[i] = f[i]}
<1>1. 0 \in W
  BY DEF Powers
<1>2. ASSUME NEW i \in W PROVE i + 1 \in W
  <2> SUFFICES ASSUME i + 1 <= n PROVE g[i + 1] = f[i + 1]
    OBVIOUS
  <2>1. i + 1 \in 0 .. n /\ i + 1 \in 0 .. n + 1 /\ i + 1 # 0 /\ (i + 1) - 1 = i
    OBVIOUS
  <2>2. f[i + 1] = 2 * f[i] /\ g[i + 1] = 2 * g[i]
    BY <2>1 DEF Powers
  <2> QED BY <2>2
<1> HIDE DEF W
<1>3. W = Nat
  <2>1. W \in SUBSET Nat
    BY DEF W
  <2> QED BY <1>1, <1>2, <2>1, NatSetInduction
<1> QED BY <1>3 DEF W

LEMMA TwoToIs ==
  /\ TwoTo[0] = 1
  /\ \A n \in Nat : TwoTo[n] \in Nat \ {0} /\ TwoTo[n + 1] = 2 * TwoTo[n]
<1> DEFINE F(n) == CHOOSE f : Powers(f, n)
<1>1. \A n \in Nat : Powers(F(n), n)
  BY PowersExist
<1> HIDE DEF F
<1>2. PICK g : g = [n \in Nat |-> F(n)[n]]
  OBVIOUS
<1>3. ASSUME NEW n \in Nat PROVE g[n] = IF n = 0 THEN 1 ELSE 2 * g[n - 1]
  <2>1. Powers(F(n), n) /\ n \in 0 .. n /\ g[n] = F(n)[n]
    BY <1>1, <1>2
  <2>2. F(n)[n] = IF n = 0 THEN 1 ELSE 2 * F(n)[n - 1]
    BY <2>1 DEF Powers
  <2>3. CASE n # 0
    <3>1. PICK m \in Nat : n = m + 1
      <4>1. n - 1 \in Nat /\ n = (n - 1) + 1
        BY <2>3
      <4> QED BY <4>1
    <3>2. F(n)[m] = F(m)[m]
      BY <1>1, <3>1, PowersAgree
    <3> QED BY <1>2, <2>1, <2>2, <2>3, <3>1, <3>2
  <2> QED BY <2>1, <2>2, <2>3
<1>4. g = [n \in Nat |-> IF n = 0 THEN 1 ELSE 2 * g[n - 1]]
  BY <1>2, <1>3
<1>5. TwoTo = CHOOSE f : f = [n \in Nat |-> IF n = 0 THEN 1 ELSE 2 * f[n - 1]]
  BY DEF TwoTo
<1>6. TwoTo = [n \in Nat |-> IF n = 0 THEN 1 ELSE 2 * TwoTo[n - 1]]
  BY <1>4, <1>5
<1>7. TwoTo[0] = 1 /\ \A n \in Nat : TwoTo[n + 1] = 2 * TwoTo[n]
  <2>1. TwoTo[0] = 1
    BY <1>6
  <2>2. ASSUME NEW n \in Nat PROVE TwoTo[n + 1] = 2 * TwoTo[n]
    <3>1. n + 1 \in Nat /\ n + 1 # 0 /\ (n + 1) - 1 = n
      OBVIOUS
    <3> QED BY <1>6, <3>1
  <2> QED BY <2>1, <2>2
<1> DEFINE W == {n \in Nat : TwoTo[n] \in Nat \ {0}}
<1>8. 0 \in W /\ \A n \in W : n + 1 \in W
  BY <1>7
<1> HIDE DEF W
<1>9. W = Nat
  <2>1. W \in SUBSET Nat
    BY DEF W
  <2> QED BY <1>8, <2>1, NatSetInduction
<1> QED BY <1>7, <1>9 DEF W

\* target - perNode is the weight at the last leaf's end: half of it at least
\* is what the counted nodes of m_level stand for.
RoomInv ==
  /\ level < TreeLevels /\ perNode = TwoTo[level]
  /\ tot \in Nat /\ tot <= TreeMaxTotal
  /\ target \in Nat /\ perNode <= target
  /\ IF lastTs = 0 THEN target = perNode ELSE target < tot + perNode
  /\ \E c : Counter(c) /\ perNode * c[level] + 2 * perNode <= 2 * target

\* With one more node, the counted ones still stand for at most twice tot.
LEMMA NodesWeigh ==
  ASSUME NEW p \in Nat \ {0}, NEW c \in Nat, NEW g \in Nat, NEW t \in Nat,
         p * c + 2 * p <= 2 * g, g < t + p, t + 1 >= g
  PROVE  p * (c + 1) <= 2 * t
<1>1. PICK m \in Nat : m = p * c
  OBVIOUS
<1>2. p * (c + 1) = m + p
  BY <1>1
<1>3. CASE p = 1
  BY <1>1, <1>2, <1>3
<1>4. CASE p >= 2
  BY <1>1, <1>2, <1>4
<1> QED BY <1>3, <1>4

LEMMA RoomAbove ==
  ASSUME ForestTypes, RoomInv, lastTs # 0, tot + 1 >= target
  PROVE  TMG!FreeLevel \in TMG!Level /\ level <= TMG!FreeLevel
<1>1. /\ TMG!FreeLevel \in Nat /\ TMG!FreeLevel <= TreeLevels
      /\ TMG!FreeLevel < TreeLevels => level <= TMG!FreeLevel
      /\ \A l \in TMG!Level : level <= l /\ l < TMG!FreeLevel => tree[l] # <<>>
      /\ TreeLevels \in Nat /\ level \in Nat /\ level < TreeLevels
  BY FreeLevelFacts, TreeConstants DEF ForestTypes, RoomInv
<1>2. SUFFICES ASSUME TMG!FreeLevel = TreeLevels PROVE FALSE
  BY <1>1 DEF TMG!Level
<1>3. PICK c : Counter(c) /\ perNode * c[level] + 2 * perNode <= 2 * target
  BY DEF RoomInv
<1>4. /\ c \in [0 .. TreeLevels -> Nat]
      /\ \A l \in level .. TreeLevels - 1 : c[l] = 2 * c[l + 1] + Bit(l)
  BY <1>3 DEF Counter
<1>5. ASSUME NEW l \in level .. TreeLevels - 1 PROVE c[l] = 2 * c[l + 1] + 1
  <2>1. l \in TMG!Level /\ level <= l /\ l < TreeLevels
    BY <1>1 DEF TMG!Level
  <2>2. tree[l] # <<>>
    BY <1>1, <1>2, <2>1
  <2> QED BY <1>4, <2>2 DEF Bit
<1> DEFINE W == {k \in Nat : k <= TreeLevels - level =>
                   TwoTo[TreeLevels] <= TwoTo[TreeLevels - k] * (c[TreeLevels - k] + 1)}
<1>6. 0 \in W
  <2>1. PICK t \in Nat : t = TwoTo[TreeLevels]
    BY <1>1, TwoToIs
  <2>2. PICK d \in Nat : d = c[TreeLevels]
    BY <1>1, <1>4
  <2>3. t <= t * (d + 1)
    OBVIOUS
  <2>4. TreeLevels - 0 = TreeLevels
    BY <1>1
  <2> QED BY <2>1, <2>2, <2>3, <2>4
<1>7. ASSUME NEW k \in W PROVE k + 1 \in W
  <2> SUFFICES ASSUME k + 1 <= TreeLevels - level
               PROVE  TwoTo[TreeLevels] <= TwoTo[TreeLevels - (k + 1)] * (c[TreeLevels - (k + 1)] + 1)
    OBVIOUS
  <2>1. PICK l : l = TreeLevels - (k + 1)
    OBVIOUS
  <2>2. l \in level .. TreeLevels - 1 /\ l \in Nat /\ l + 1 = TreeLevels - k /\ l \in 0 .. TreeLevels
        /\ l + 1 \in 0 .. TreeLevels
    BY <1>1, <2>1
  <2>3. TwoTo[TreeLevels] <= TwoTo[l + 1] * (c[l + 1] + 1)
    BY <1>1, <2>2
  <2>4. PICK t \in Nat : t = TwoTo[l]
    BY <2>2, TwoToIs
  <2>5. TwoTo[l + 1] = 2 * t
    BY <2>2, <2>4, TwoToIs
  <2>6. PICK d \in Nat : d = c[l + 1]
    BY <1>4, <2>2
  <2>7. c[l] = 2 * d + 1
    BY <1>5, <2>2, <2>6
  <2>8. (2 * t) * (d + 1) = t * ((2 * d + 1) + 1)
    OBVIOUS
  <2> QED BY <2>1, <2>3, <2>4, <2>5, <2>6, <2>7, <2>8
<1> HIDE DEF W
<1>8. W = Nat
  <2>1. W \in SUBSET Nat
    BY DEF W
  <2> QED BY <1>6, <1>7, <2>1, NatSetInduction
<1>9. TwoTo[TreeLevels] <= perNode * (c[level] + 1)
  <2>1. PICK k : k = TreeLevels - level
    OBVIOUS
  <2>2. k \in Nat /\ k <= TreeLevels - level /\ TreeLevels - k = level
    BY <1>1, <2>1
  <2>3. TwoTo[TreeLevels] <= TwoTo[level] * (c[level] + 1)
    BY <1>8, <2>2 DEF W
  <2> QED BY <2>3 DEF RoomInv
<1>10. /\ perNode \in Nat \ {0} /\ c[level] \in Nat /\ tot \in Nat /\ target \in Nat
       /\ target < tot + perNode /\ tot <= TreeMaxTotal
  BY <1>1, <1>4, TwoToIs DEF RoomInv
<1>11. perNode * (c[level] + 1) <= 2 * tot
  BY <1>3, <1>10, NodesWeigh
<1>12. 2 * TreeMaxTotal < TwoTo[TreeLevels]
  BY SketchesAssumption DEF SketchesAssumption
<1>13. PICK a \in Nat, b \in Nat : a = TwoTo[TreeLevels] /\ b = perNode * (c[level] + 1)
  <2>1. PICK p \in Nat, d \in Nat : p = perNode /\ d = c[level]
    BY <1>10
  <2>2. p * (d + 1) \in Nat
    OBVIOUS
  <2> QED BY <1>1, <2>1, <2>2, TwoToIs
<1>14. a <= b /\ b <= 2 * tot /\ 2 * TreeMaxTotal < a
  BY <1>9, <1>11, <1>12, <1>13
<1> QED BY <1>10, <1>14, TreeConstants

LEMMA MergeKeepsRoom ==
  ASSUME ForestTypes, RoomInv, TMG!NothingBelowLevel, TMG!MergeCurSketch(1),
         lastTs # 0, tot + 1 >= target,
         tot' = tot + 1, tot' <= TreeMaxTotal, lastTs' # 0
  PROVE  RoomInv'
<1>1. PICK c : Counter(c) /\ perNode * c[level] + 2 * perNode <= 2 * target
  BY DEF RoomInv
<1>2. PICK d : /\ Counter(d)'
               /\ remaining # 1 => level' = level /\ d[level'] = c[level] + 1
               /\ remaining = 1 => level' = level + 1 /\ 2 * d[level'] = c[level] + 1
  BY <1>1, CounterSteps DEF Counts, RoomInv
<1>3. /\ level \in Nat /\ level < TreeLevels /\ TreeLevels \in Nat /\ K \in Nat /\ K >= 2
      /\ perNode = TwoTo[level] /\ perNode \in Nat \ {0}
      /\ tot \in Nat /\ target \in Nat /\ target < tot + perNode /\ TreeMaxTotal \in Nat
  BY TreeConstants, TwoToIs DEF ForestTypes, RoomInv
<1>4. c[level] \in Nat
  BY <1>1, <1>3 DEF Counter
<1>5. perNode * (c[level] + 1) <= 2 * tot
  BY <1>1, <1>3, <1>4, NodesWeigh
<1>6. /\ target' = tot + perNode'
      /\ remaining # 1 => remaining' = remaining - 1 /\ level' = level /\ perNode' = perNode
      /\ remaining = 1 => level' = level + 1 /\ remaining' = K /\ perNode' = 2 * perNode
  BY DEF TMG!MergeCurSketch, TMG!Quota
<1>7. /\ level' < TreeLevels /\ perNode' = TwoTo[level'] /\ perNode' \in Nat \ {0}
      /\ perNode' * d[level'] + 2 * perNode' <= 2 * target'
  <2>1. CASE remaining # 1
    <3>1. level' = level /\ perNode' = perNode /\ d[level'] = c[level] + 1
      BY <1>2, <1>6, <2>1
    <3>2. PICK m : m = perNode * (c[level] + 1)
      OBVIOUS
    <3>3. m + 2 * perNode <= 2 * (tot + perNode)
      <4>1. m \in Int
        <5>1. PICK p \in Nat, e \in Nat : p = perNode /\ e = c[level] + 1
          BY <1>3, <1>4
        <5> QED BY <3>2, <5>1
      <4> QED BY <1>3, <1>5, <3>2, <4>1
    <3> QED BY <1>3, <1>6, <3>1, <3>2, <3>3
  <2>2. CASE remaining = 1
    <3>1. level' = level + 1 /\ perNode' = 2 * perNode /\ 2 * d[level'] = c[level] + 1 /\ remaining' = K
      BY <1>2, <1>6, <2>2
    <3>2. level' \in 0 .. TreeLevels
      BY <1>3, <3>1
    <3>3. PICK e \in Nat : e = d[level']
      BY <1>2, <3>2 DEF Counter
    <3>4. e + K = 2 * K
      BY <1>2, <3>1, <3>3 DEF Counter
    <3>5. PICK p \in Nat \ {0} : p = perNode
      BY <1>3
    <3>6. (2 * p) * e = p * (2 * e)
      OBVIOUS
    <3>7. (2 * p) * e <= 2 * tot
      BY <1>5, <3>1, <3>3, <3>5, <3>6
    <3>8. (2 * p) * e + 2 * (2 * p) <= 2 * (tot + 2 * p)
      BY <1>3, <3>7
    <3>9. TwoTo[level + 1] = 2 * p
      BY <1>3, <3>5, TwoToIs
    <3>10. level + 1 # TreeLevels
      <4> SUFFICES ASSUME level + 1 = TreeLevels PROVE FALSE
        OBVIOUS
      <4>1. 2 * TreeMaxTotal < 2 * p
        BY <3>9, SketchesAssumption DEF SketchesAssumption
      <4>2. e >= 1
        BY <1>3, <3>4
      <4>3. 2 * p <= (2 * p) * e
        BY <4>2
      <4>4. tot <= TreeMaxTotal
        BY <1>3
      <4> QED BY <1>3, <3>7, <4>1, <4>3, <4>4
    <3> QED BY <1>3, <1>6, <3>1, <3>3, <3>5, <3>8, <3>9, <3>10
  <2> QED BY <2>1, <2>2
<1>8. target' \in Nat /\ perNode' <= target' /\ target' < tot' + perNode' /\ tot' \in Nat
  BY <1>3, <1>6, <1>7
<1>9. \E f : Counter(f)' /\ perNode' * f[level'] + 2 * perNode' <= 2 * target'
  BY <1>2, <1>7
<1> QED BY <1>7, <1>8, <1>9 DEF RoomInv

LEMMA RoomStays ==
  ASSUME RoomInv, UNCHANGED <<tree, level, remaining, target, perNode>>,
         tot' = tot + 1, tot' <= TreeMaxTotal, lastTs' # 0, level \in Nat
  PROVE  RoomInv'
<1>1. PICK c : Counter(c) /\ perNode * c[level] + 2 * perNode <= 2 * target
  BY DEF RoomInv
<1>2. Counter(c)'
  BY <1>1 DEF Counter, Bit
<1>3. \E f : Counter(f)' /\ perNode' * f[level'] + 2 * perNode' <= 2 * target'
  BY <1>1, <1>2
<1>4. /\ level' < TreeLevels /\ perNode' = TwoTo[level'] /\ tot' \in Nat /\ tot' <= TreeMaxTotal
      /\ target' \in Nat /\ perNode' <= target'
  BY DEF RoomInv
<1>5. target' < tot' + perNode'
  <2>1. perNode \in Nat
    BY TwoToIs DEF RoomInv
  <2>2. target = perNode \/ target < tot + perNode
    BY DEF RoomInv
  <2>3. tot \in Nat /\ target \in Nat
    BY DEF RoomInv
  <2> QED BY <2>1, <2>2, <2>3
<1> QED BY <1>3, <1>4, <1>5 DEF RoomInv

-----------------------------------------------------------------------------
(* The past as the forest knows it                                         *)

\* Of each finished timestamp, the true counts and weight at its end; and of
\* those at which a leaf ended, the counts f and the weight w that were moved
\* into leaves up to then.  0 is the time before the stream.
Entry == [exact : [Key -> Nat], tot : Nat, f : [Key -> Nat], w : Nat]

Ascends(G, n) ==
  /\ G \in [0 .. n -> Entry]
  /\ G[0].tot = 0 /\ G[0].w = 0 /\ \A x \in Key : G[0].f[x] = 0 /\ G[0].exact[x] = 0
  /\ \A s, t \in 0 .. n : s <= t =>
       /\ G[s].tot <= G[t].tot
       /\ \A x \in Key : /\ G[s].exact[x] <= G[t].exact[x]
                         /\ G[t].exact[x] + G[s].tot <= G[s].exact[x] + G[t].tot

\* What was left of the counts when a leaf ended: little.
LittleLeft(e) ==
  /\ e.w <= e.tot
  /\ \A x \in Key : /\ e.f[x] <= e.exact[x]
                    /\ EpsDen * e.exact[x] <= EpsDen * e.f[x] + EpsNum * e.tot

\* The sketch q is of what was moved between the times s and t.
Holds(G, q, s, t) ==
  \E f, w : /\ AtRest(q, f, w)
            /\ IsSumOf(G[t].f, G[s].f, f) /\ G[t].w = G[s].w + w

\* A node is of the time from s on, at most d generations above its leaves.
\* A leaf's time is shorter than a node's share p of the weight.
NodeOk(G, n, p, R, node, s, d) ==
  /\ node.ts \in 1 .. n /\ s \in 0 .. n /\ s < node.ts /\ d \in Nat
  /\ node.tot = G[node.ts].tot /\ LittleLeft(G[node.ts])
  /\ node.mg # <<>> => Holds(G, node.mg[1], s, node.ts)
  /\ node.kids = <<>> => \A t \in 0 .. n : t < node.ts => G[t].tot < G[s].tot + p
  /\ node.kids # <<>> =>
       /\ d > 0 /\ node.kids[1].mg # <<>> /\ node.kids[2].ts = node.ts
       /\ <<node.kids[1], s, d - 1>> \in R
       /\ <<node.kids[2], node.kids[1].ts, d - 1>> \in R

\* R relates each node of the forest to its time and height.
Forest(G, n, p, R) ==
  \A node, s, d : <<node, s, d>> \in R => NodeOk(G, n, p, R, node, s, d)

LEMMA NothingHeld ==
  ASSUME NEW n \in Nat, NEW G \in [0 .. n -> Entry], NEW s \in 0 .. n
  PROVE  Holds(G, TMG!EmptySketch, s, s)
<1>1. PICK f : f = [x \in Key |-> 0]
  OBVIOUS
<1>2. f \in [Key -> Nat] /\ \A x \in Key : f[x] = 0
  BY <1>1
<1>3. AtRest(TMG!EmptySketch, f, 0)
  BY <1>2, EmptyIsAtRest
<1>4. G[s] \in Entry
  OBVIOUS
<1>5. G[s].f \in [Key -> Nat] /\ G[s].w \in Nat
  BY <1>4 DEF Entry
<1>6. IsSumOf(G[s].f, G[s].f, f) /\ G[s].w = G[s].w + 0
  BY <1>2, <1>5 DEF IsSumOf
<1> QED BY <1>3, <1>6 DEF Holds

LEMMA HoldsBoth ==
  ASSUME NEW n \in Nat, NEW G \in [0 .. n -> Entry],
         NEW s \in 0 .. n, NEW t \in 0 .. n, NEW u \in 0 .. n,
         NEW a, Holds(G, a, s, t), NEW b, Holds(G, b, t, u)
  PROVE  Holds(G, TMG!Merged(a, b), s, u) /\ Holds(G, TMG!Merged(b, a), s, u)
<1>1. PICK f, w : AtRest(a, f, w) /\ IsSumOf(G[t].f, G[s].f, f) /\ G[t].w = G[s].w + w
  BY DEF Holds
<1>2. PICK g, v : AtRest(b, g, v) /\ IsSumOf(G[u].f, G[t].f, g) /\ G[u].w = G[t].w + v
  BY DEF Holds
<1>3. f \in [Key -> Nat] /\ g \in [Key -> Nat] /\ w \in Nat /\ v \in Nat
  BY <1>1, <1>2 DEF AtRest
<1>4. PICK h : h = [x \in Key |-> f[x] + g[x]]
  OBVIOUS
<1>5. h \in [Key -> Nat] /\ IsSumOf(h, f, g) /\ IsSumOf(h, g, f)
  BY <1>3, <1>4 DEF IsSumOf
<1>6. AtRest(TMG!Merged(a, b), h, w + v) /\ AtRest(TMG!Merged(b, a), h, v + w)
  BY <1>1, <1>2, <1>5, MergedIsAtRest
<1>7. G[s] \in Entry /\ G[t] \in Entry /\ G[u] \in Entry
  OBVIOUS
<1>8. /\ G[s].f \in [Key -> Nat] /\ G[u].f \in [Key -> Nat]
      /\ G[s].w \in Nat /\ G[t].w \in Nat
  BY <1>7 DEF Entry
<1>9. IsSumOf(G[u].f, G[s].f, h)
  <2>1. ASSUME NEW x \in Key PROVE G[u].f[x] = G[s].f[x] + h[x]
    <3>1. G[t].f[x] = G[s].f[x] + f[x] /\ G[u].f[x] = G[t].f[x] + g[x]
      BY <1>1, <1>2 DEF IsSumOf
    <3>2. G[s].f[x] \in Nat /\ f[x] \in Nat /\ g[x] \in Nat /\ h[x] = f[x] + g[x]
      BY <1>3, <1>4, <1>8
    <3> QED BY <3>1, <3>2
  <2> QED BY <1>8, <2>1 DEF IsSumOf
<1>10. G[u].w = G[s].w + (w + v) /\ G[u].w = G[s].w + (v + w)
  BY <1>1, <1>2, <1>3, <1>8
<1> QED BY <1>6, <1>9, <1>10 DEF Holds

\* H goes on where G ends.
GoesOn(H, m, G, n) ==
  /\ n \in Nat /\ m \in Nat /\ n <= m
  /\ \A t \in 0 .. n : H[t] = G[t]

LEMMA NodeStaysOk ==
  ASSUME NEW n, NEW m, NEW G, NEW H, GoesOn(H, m, G, n), G \in [0 .. n -> Entry],
         NEW p \in Nat, NEW p2 \in Nat, p <= p2, NEW R, NEW R2, R \subseteq R2,
         NEW node, NEW s, NEW d, NodeOk(G, n, p, R, node, s, d)
  PROVE  NodeOk(H, m, p2, R2, node, s, d)
<1>1. /\ node.ts \in 1 .. n /\ s \in 0 .. n /\ s < node.ts /\ d \in Nat
      /\ n \in Nat /\ m \in Nat /\ n <= m
  BY DEF NodeOk, GoesOn
<1>2. PICK ts : ts = node.ts
  OBVIOUS
<1>3. H[ts] = G[ts] /\ H[s] = G[s] /\ ts \in 1 .. n /\ ts \in 0 .. n
  BY <1>1, <1>2 DEF GoesOn
<1>4. node.ts \in 1 .. m /\ s \in 0 .. m
  BY <1>1
<1>5. node.tot = H[node.ts].tot /\ LittleLeft(H[node.ts])
  BY <1>2, <1>3 DEF NodeOk
<1>6. node.mg # <<>> => Holds(H, node.mg[1], s, node.ts)
  <2> SUFFICES ASSUME node.mg # <<>> PROVE Holds(H, node.mg[1], s, ts)
    BY <1>2
  <2>1. Holds(G, node.mg[1], s, ts)
    BY <1>2 DEF NodeOk
  <2> QED BY <1>3, <2>1 DEF Holds
<1>7. node.kids = <<>> => \A t \in 0 .. m : t < node.ts => H[t].tot < H[s].tot + p2
  <2> SUFFICES ASSUME node.kids = <<>>, NEW t \in 0 .. m, t < ts
               PROVE  H[t].tot < H[s].tot + p2
    BY <1>2
  <2>1. t \in 0 .. n
    BY <1>1, <1>3
  <2>2. H[t] = G[t]
    BY <2>1 DEF GoesOn
  <2>3. G[t].tot < G[s].tot + p
    BY <1>2, <2>1 DEF NodeOk
  <2>4. G[t] \in Entry /\ G[s] \in Entry
    BY <1>1, <2>1
  <2>5. G[t].tot \in Nat /\ G[s].tot \in Nat
    BY <2>4 DEF Entry
  <2> QED BY <1>3, <2>2, <2>3, <2>5
<1>8. node.kids # <<>> =>
        /\ d > 0 /\ node.kids[1].mg # <<>> /\ node.kids[2].ts = node.ts
        /\ <<node.kids[1], s, d - 1>> \in R2
        /\ <<node.kids[2], node.kids[1].ts, d - 1>> \in R2
  BY DEF NodeOk
<1> QED BY <1>1, <1>4, <1>5, <1>6, <1>7, <1>8 DEF NodeOk

LEMMA ForestStaysOk ==
  ASSUME NEW n, NEW m, NEW G, NEW H, GoesOn(H, m, G, n), G \in [0 .. n -> Entry],
         NEW p \in Nat, NEW p2 \in Nat, p <= p2, NEW R, Forest(G, n, p, R)
  PROVE  Forest(H, m, p2, R)
<1> SUFFICES ASSUME NEW node, NEW s, NEW d, <<node, s, d>> \in R
             PROVE  NodeOk(H, m, p2, R, node, s, d)
  BY DEF Forest
<1>1. NodeOk(G, n, p, R, node, s, d)
  BY DEF Forest
<1> QED BY <1>1, NodeStaysOk

\* One more node.
LEMMA ForestTakes ==
  ASSUME NEW n \in Nat, NEW G \in [0 .. n -> Entry], NEW p \in Nat, NEW R, Forest(G, n, p, R),
         NEW node, NEW s, NEW d, NodeOk(G, n, p, R, node, s, d)
  PROVE  Forest(G, n, p, R \cup {<<node, s, d>>})
<1>1. PICK R2 : R2 = R \cup {<<node, s, d>>}
  OBVIOUS
<1>2. GoesOn(G, n, G, n) /\ R \subseteq R2 /\ p <= p
  BY <1>1 DEF GoesOn
<1>3. ASSUME NEW node2, NEW s2, NEW d2, <<node2, s2, d2>> \in R2
      PROVE  NodeOk(G, n, p, R2, node2, s2, d2)
  <2>1. NodeOk(G, n, p, R, node2, s2, d2)
    <3>1. CASE <<node2, s2, d2>> \in R
      BY <3>1 DEF Forest
    <3>2. CASE <<node2, s2, d2>> = <<node, s, d>>
      <4>1. node2 = node /\ s2 = s /\ d2 = d
        BY <3>2
      <4> QED BY <4>1
    <3> QED BY <1>1, <1>3, <3>1, <3>2
  <2> QED BY <1>2, <2>1, NodeStaysOk
<1> QED BY <1>1, <1>3 DEF Forest

\* The parent of two nodes, of which the newer one loses its sketch.
LEMMA JoinIsOk ==
  ASSUME NEW n \in Nat, NEW G \in [0 .. n -> Entry], NEW p \in Nat, NEW R, Forest(G, n, p, R),
         NEW a, NEW b, NEW s, NEW d, <<a, s, d>> \in R, a.mg # <<>>,
         <<b, a.ts, d>> \in R, Fresh(b), lastTs \in 1 .. n, tot = G[lastTs].tot
  PROVE  \E R2 : R \subseteq R2 /\ Forest(G, n, p, R2) /\ <<TMG!Join(a, b), s, d + 1>> \in R2
<1>1. NodeOk(G, n, p, R, a, s, d) /\ NodeOk(G, n, p, R, b, a.ts, d)
  BY DEF Forest
<1>2. PICK t, mg, kids : b = [ts |-> lastTs, tot |-> t, mg |-> mg, kids |-> kids]
  BY DEF Fresh
<1>3. PICK b0 : b0 = [b EXCEPT !.mg = <<>>]
  OBVIOUS
<1>4. b0 = [ts |-> lastTs, tot |-> t, mg |-> <<>>, kids |-> kids]
  BY <1>2, <1>3
<1>5. /\ b0.ts = lastTs /\ b0.tot = b.tot /\ b0.mg = <<>> /\ b0.kids = b.kids
      /\ b.ts = lastTs /\ b.mg # <<>>
  BY <1>2, <1>4 DEF Fresh
<1>6. NodeOk(G, n, p, R, b0, a.ts, d)
  BY <1>1, <1>5 DEF NodeOk
<1>7. PICK R1 : R1 = R \cup {<<b0, a.ts, d>>}
  OBVIOUS
<1>8. Forest(G, n, p, R1)
  BY <1>6, <1>7, ForestTakes
<1>9. PICK m : m = TMG!Merged(b.mg[1], a.mg[1])
  OBVIOUS
<1>10. PICK q : q = TMG!Join(a, b)
  OBVIOUS
<1>11. q = [ts |-> lastTs, tot |-> tot, mg |-> <<m>>, kids |-> <<a, b0>>]
  BY <1>3, <1>9, <1>10 DEF TMG!Join
<1>12. /\ q.ts = lastTs /\ q.tot = tot /\ q.mg = <<m>> /\ q.mg[1] = m
       /\ q.kids = <<a, b0>> /\ q.kids # <<>> /\ q.kids[1] = a /\ q.kids[2] = b0
  BY <1>11
<1>13. /\ a.ts \in 1 .. n /\ s \in 0 .. n /\ s < a.ts /\ a.ts < lastTs /\ d \in Nat
       /\ LittleLeft(G[lastTs])
  BY <1>1, <1>5 DEF NodeOk
<1>14. Holds(G, m, s, lastTs)
  <2>1. Holds(G, a.mg[1], s, a.ts)
    BY <1>1 DEF NodeOk
  <2>2. Holds(G, b.mg[1], a.ts, lastTs)
    BY <1>1, <1>5 DEF NodeOk
  <2>3. a.ts \in 0 .. n /\ lastTs \in 0 .. n
    BY <1>13
  <2> QED BY <1>9, <1>13, <2>1, <2>2, <2>3, HoldsBoth
<1>15. NodeOk(G, n, p, R1, q, s, d + 1)
  <2>1. s < lastTs /\ d + 1 \in Nat /\ d + 1 > 0 /\ (d + 1) - 1 = d
    BY <1>13
  <2>2. <<q.kids[1], s, (d + 1) - 1>> \in R1
    BY <1>7, <1>12, <2>1
  <2>3. <<q.kids[2], q.kids[1].ts, (d + 1) - 1>> \in R1
    BY <1>7, <1>12, <2>1
  <2> QED BY <1>5, <1>12, <1>13, <1>14, <2>1, <2>2, <2>3 DEF NodeOk
<1>16. PICK R2 : R2 = R1 \cup {<<q, s, d + 1>>}
  OBVIOUS
<1>17. Forest(G, n, p, R2)
  BY <1>8, <1>15, <1>16, ForestTakes
<1> QED BY <1>7, <1>10, <1>16, <1>17

\* The roots from level l on reach back to at[l], and to the beginning.
Spans(n, R, at) ==
  /\ at \in [0 .. TreeLevels -> 0 .. n] /\ at[TreeLevels] = 0
  /\ \A l \in TMG!Level :
       /\ tree[l] = <<>> => at[l] = at[l + 1]
       /\ tree[l] # <<>> => at[l] = tree[l][1].ts /\ <<tree[l][1], at[l + 1], l>> \in R

\* The node that is carried is in order at every level it reaches.
LEMMA CarriedIsOk ==
  ASSUME ForestTypes, Rooted,
         NEW n \in Nat, NEW G \in [0 .. n -> Entry], NEW p \in Nat, NEW R, Forest(G, n, p, R),
         NEW k0, NEW at, Spans(k0, R, at), level \in 0 .. TreeLevels,
         NEW leaf, Fresh(leaf), <<leaf, at[level], level>> \in R,
         lastTs \in 1 .. n, tot = G[lastTs].tot,
         NEW node, Carrying(node, leaf, TMG!FreeLevel), NEW i \in level .. TMG!FreeLevel
  PROVE  \E R2 : R \subseteq R2 /\ Forest(G, n, p, R2) /\ <<node[i], at[i], i>> \in R2
<1>1. PICK F, v : F = TMG!FreeLevel /\ v = level
  OBVIOUS
<1>2. /\ F \in Nat /\ F <= TreeLevels /\ v \in Nat /\ TreeLevels \in Nat
      /\ \A l \in TMG!Level : v <= l /\ l < F => tree[l] # <<>>
      /\ node = [l \in v .. F |->
                   IF l = v THEN leaf ELSE TMG!Join(tree[l - 1][1], node[l - 1])]
  BY <1>1, FreeLevelFacts, TreeConstants DEF ForestTypes, Carrying
<1> DEFINE W == {k \in Nat : v + k <= F =>
                   \E R2 : R \subseteq R2 /\ Forest(G, n, p, R2)
                           /\ <<node[v + k], at[v + k], v + k>> \in R2}
<1>3. 0 \in W
  <2> SUFFICES ASSUME v + 0 <= F
               PROVE  \E R2 : R \subseteq R2 /\ Forest(G, n, p, R2)
                        /\ <<node[v + 0], at[v + 0], v + 0>> \in R2
    OBVIOUS
  <2>1. v + 0 = v /\ v \in v .. F
    BY <1>2
  <2>2. node[v] = leaf
    BY <1>2, <2>1
  <2>3. <<node[v + 0], at[v + 0], v + 0>> \in R
    BY <1>1, <2>1, <2>2
  <2> QED BY <2>3
<1>4. ASSUME NEW k \in W PROVE k + 1 \in W
  <2> SUFFICES ASSUME v + (k + 1) <= F
               PROVE  \E R2 : R \subseteq R2 /\ Forest(G, n, p, R2)
                        /\ <<node[v + (k + 1)], at[v + (k + 1)], v + (k + 1)>> \in R2
    OBVIOUS
  <2>1. PICK l : l = v + k
    OBVIOUS
  <2>2. /\ l \in Nat /\ l < F /\ v <= l /\ v + (k + 1) = l + 1
        /\ l + 1 \in v .. F /\ l + 1 # v /\ (l + 1) - 1 = l
        /\ l \in 0 .. TreeLevels - 1 /\ l \in level .. TMG!FreeLevel
    BY <1>1, <1>2, <2>1
  <2>3. tree[l] # <<>> /\ l \in TMG!Level
    BY <1>2, <2>2 DEF TMG!Level
  <2>4. node[l + 1] = TMG!Join(tree[l][1], node[l])
    <3>1. node[l + 1] = IF l + 1 = v THEN leaf
                        ELSE TMG!Join(tree[(l + 1) - 1][1], node[(l + 1) - 1])
      BY <1>2, <2>2
    <3> QED BY <2>2, <3>1
  <2>5. PICK R1 : R \subseteq R1 /\ Forest(G, n, p, R1) /\ <<node[l], at[l], l>> \in R1
    BY <1>2, <2>1, <2>2
  <2>6. Fresh(node[l])
    BY <2>2, CarriedIsFresh
  <2>7. /\ at[l] = tree[l][1].ts /\ <<tree[l][1], at[l + 1], l>> \in R1
        /\ tree[l][1].mg # <<>>
    BY <2>3, <2>5 DEF Spans, Rooted
  <2>8. <<node[l], tree[l][1].ts, l>> \in R1
    BY <2>5, <2>7
  <2>9. PICK R2 : R1 \subseteq R2 /\ Forest(G, n, p, R2)
                  /\ <<TMG!Join(tree[l][1], node[l]), at[l + 1], l + 1>> \in R2
    <3>1. PICK a, b, s : a = tree[l][1] /\ b = node[l] /\ s = at[l + 1]
      OBVIOUS
    <3>2. Forest(G, n, p, R1) /\ <<a, s, l>> \in R1 /\ a.mg # <<>> /\ <<b, a.ts, l>> \in R1 /\ Fresh(b)
      BY <2>5, <2>6, <2>7, <2>8, <3>1
    <3>3. \E R2 : R1 \subseteq R2 /\ Forest(G, n, p, R2) /\ <<TMG!Join(a, b), s, l + 1>> \in R2
      BY <3>2, JoinIsOk, SMTT(30)
    <3> QED BY <3>1, <3>3
  <2> QED BY <2>2, <2>4, <2>5, <2>9
<1> HIDE DEF W
<1>5. W = Nat
  <2>1. W \in SUBSET Nat
    BY DEF W
  <2> QED BY <1>3, <1>4, <2>1, NatSetInduction
<1>6. PICK k \in Nat : i = v + k
  <2>1. i - v \in Nat /\ i = v + (i - v)
    BY <1>1, <1>2
  <2> QED BY <2>1
<1>7. v + k <= F
  BY <1>1, <1>2, <1>6
<1> QED BY <1>5, <1>6, <1>7 DEF W

-----------------------------------------------------------------------------
(* The past is kept                                                        *)

\* G is the history of the n finished timestamps.
Remembered(n, G) ==
  /\ n \in Nat /\ Listed(closed) /\ Len(closed) = n
  /\ n = IF lastTs = 0 THEN 0 ELSE lastTs - 1
  /\ Ascends(G, n)
  /\ \A t \in 1 .. n : closed[t].exact = G[t].exact /\ closed[t].tot = G[t].tot
  /\ exact \in [Key -> Nat] /\ G[n].tot <= tot
  /\ \A x \in Key : /\ G[n].exact[x] <= exact[x]
                    /\ exact[x] + G[n].tot <= G[n].exact[x] + tot

\* The running sketch is of what came since the last leaf ended, at b, and of
\* the little that was left of what came before.
Running(G, b) ==
  /\ LittleLeft(G[b])
  /\ \E f, w : Open(sk, f, w) /\ IsSumOf(exact, G[b].f, f) /\ tot = G[b].w + w

InForest(n, G, R, at, b) ==
  /\ Forest(G, n, perNode, R) /\ Spans(n, R, at)
  /\ b \in 0 .. n /\ \A l \in 0 .. level : at[l] = b
  /\ target = G[b].tot + perNode
  /\ \A t \in 0 .. n : G[t].tot < target

TreePast ==
  \E n, G, R, at, b : Remembered(n, G) /\ Running(G, b) /\ InForest(n, G, R, at, b)

Begun ==
  /\ lastTs = 0 /\ tot = 0 /\ sk = TMG!EmptySketch
  /\ tree = [l \in TMG!Level |-> <<>>]
  /\ level = 0 /\ remaining = 2 * K /\ target = 1 /\ perNode = 1
  /\ exact = TMG!NoCounts /\ closed = <<>>

LEMMA AnnalsBegins == Begun => TreePast /\ RoomInv
<1> SUFFICES ASSUME Begun PROVE TreePast /\ RoomInv
  OBVIOUS
<1>1. PICK none : none = [x \in Key |-> 0]
  OBVIOUS
<1>2. none \in [Key -> Nat] /\ \A x \in Key : none[x] = 0
  BY <1>1
<1>3. exact = none
  BY <1>1 DEF Begun, TMG!NoCounts
<1>4. PICK e : e = [exact |-> none, tot |-> 0, f |-> none, w |-> 0]
  OBVIOUS
<1>5. e \in Entry /\ e.exact = none /\ e.tot = 0 /\ e.f = none /\ e.w = 0
  BY <1>2, <1>4 DEF Entry
<1>6. PICK G : G = [t \in 0 .. 0 |-> e]
  OBVIOUS
<1>7. G \in [0 .. 0 -> Entry] /\ G[0] = e
  BY <1>5, <1>6
<1>8. Ascends(G, 0)
  <2>1. \A s, t \in 0 .. 0 : s = 0 /\ t = 0
    OBVIOUS
  <2>2. G[0].tot = 0 /\ G[0].w = 0 /\ \A x \in Key : G[0].f[x] = 0 /\ G[0].exact[x] = 0
    BY <1>2, <1>5, <1>7
  <2>3. ASSUME NEW s \in 0 .. 0, NEW t \in 0 .. 0
        PROVE  /\ G[s].tot <= G[t].tot
               /\ \A x \in Key : /\ G[s].exact[x] <= G[t].exact[x]
                                 /\ G[t].exact[x] + G[s].tot <= G[s].exact[x] + G[t].tot
    BY <2>1, <2>2
  <2> QED BY <1>7, <2>2, <2>3 DEF Ascends
<1>9. Remembered(0, G)
  <2>1. Listed(closed) /\ Len(closed) = 0
    <3>1. Listed(<<>>) /\ Len(<<>>) = 0
      BY DEF Listed
    <3> QED BY <3>1 DEF Begun
  <2>2. /\ exact \in [Key -> Nat]
        /\ \A x \in Key : /\ G[0].exact[x] <= exact[x]
                          /\ exact[x] + G[0].tot <= G[0].exact[x] + tot
    BY <1>2, <1>3, <1>5, <1>7 DEF Begun
  <2> QED BY <1>5, <1>7, <1>8, <2>1, <2>2 DEF Remembered, Begun
<1>10. Running(G, 0)
  <2>1. LittleLeft(G[0])
    <3>1. EpsDen * 0 <= EpsDen * 0 + EpsNum * 0
      BY TreeConstants
    <3>2. e.w <= e.tot /\ \A x \in Key : e.f[x] = 0 /\ e.exact[x] = 0 /\ e.tot = 0
      BY <1>2, <1>5
    <3> QED BY <1>7, <3>1, <3>2 DEF LittleLeft
  <2>2. Open(sk, none, 0)
    BY <1>2, EmptyIsAtRest DEF Begun
  <2>3. IsSumOf(exact, G[0].f, none) /\ tot = G[0].w + 0
    BY <1>2, <1>3, <1>5, <1>7 DEF IsSumOf, Begun
  <2> QED BY <2>1, <2>2, <2>3 DEF Running
<1>11. PICK at : at = [l \in 0 .. TreeLevels |-> 0]
  OBVIOUS
<1>12. InForest(0, G, {}, at, 0)
  <2>1. Forest(G, 0, perNode, {})
    BY DEF Forest
  <2>2. Spans(0, {}, at)
    <3>1. at \in [0 .. TreeLevels -> 0 .. 0] /\ at[TreeLevels] = 0
      BY <1>11, TreeConstants
    <3>2. ASSUME NEW l \in TMG!Level PROVE tree[l] = <<>> /\ at[l] = at[l + 1]
      <4>1. l \in 0 .. TreeLevels /\ l + 1 \in 0 .. TreeLevels
        BY TreeConstants DEF TMG!Level
      <4> QED BY <1>11, <4>1 DEF Begun
    <3> QED BY <3>1, <3>2 DEF Spans
  <2>3. \A l \in 0 .. level : at[l] = 0
    BY <1>11, TreeConstants DEF Begun
  <2>4. target = G[0].tot + perNode /\ \A t \in 0 .. 0 : G[t].tot < target
    BY <1>5, <1>7 DEF Begun
  <2> QED BY <2>1, <2>2, <2>3, <2>4 DEF InForest
<1>13. RoomInv
  <2>1. PICK c : c = [l \in 0 .. TreeLevels |-> 0]
    OBVIOUS
  <2>2. c \in [0 .. TreeLevels -> Nat] /\ c[level] = 0 /\ c[level] + remaining = 2 * K
    BY <2>1, TreeConstants DEF Begun
  <2>3. ASSUME NEW l \in level .. TreeLevels - 1 PROVE c[l] = 2 * c[l + 1] + Bit(l)
    <3>1. l \in TMG!Level /\ l \in 0 .. TreeLevels /\ l + 1 \in 0 .. TreeLevels
      BY TreeConstants DEF TMG!Level, Begun
    <3> QED BY <2>1, <3>1 DEF Bit, Begun
  <2>4. Counter(c)
    BY <2>2, <2>3 DEF Counter
  <2>5. level < TreeLevels /\ perNode = TwoTo[level]
    BY SketchesAssumption, TwoToIs DEF Begun, SketchesAssumption
  <2>6. perNode * c[level] + 2 * perNode <= 2 * target
    BY <2>2 DEF Begun
  <2> QED BY <2>4, <2>5, <2>6, TreeConstants DEF RoomInv, Begun
<1> QED BY <1>9, <1>10, <1>12, <1>13 DEF TreePast

\* An arrival into the sketch q that is left running.
LEMMA ArrivalRuns ==
  ASSUME NEW G, NEW b, LittleLeft(G[b]), G[b] \in Entry,
         NEW q, NEW f, NEW w, Open(q, f, w), IsSumOf(exact, G[b].f, f), tot = G[b].w + w,
         NEW x \in Key, TMG!Arrive(q, x, 1)
  PROVE  Running(G, b)' /\ exact' \in [Key -> Nat]
<1>1. /\ tot + 1 <= TreeMaxTotal /\ sk' = TMG!UpdateImpl(q, x, 1)
      /\ tot' = tot + 1 /\ exact' = [exact EXCEPT ![x] = @ + 1]
  BY DEF TMG!Arrive
<1>2. G[b].w \in Nat /\ w \in Nat /\ f \in [Key -> Nat] /\ G[b].f \in [Key -> Nat]
  BY DEF Entry, Open
<1>3. w < TreeMaxTotal
  BY <1>1, <1>2, TreeConstants
<1>4. PICK g : g = [f EXCEPT ![x] = @ + 1]
  OBVIOUS
<1>5. Open(sk', g, w + 1)
  BY <1>1, <1>3, <1>4, OpenCounts
<1>6. exact \in [Key -> Nat] /\ \A y \in Key : exact[y] = G[b].f[y] + f[y]
  BY DEF IsSumOf
<1>7. exact' \in [Key -> Nat]
  BY <1>1, <1>6
<1>8. ASSUME NEW y \in Key PROVE exact'[y] = G[b].f[y] + g[y]
  <2>1. exact'[y] = (IF y = x THEN exact[y] + 1 ELSE exact[y]) /\ exact[y] \in Nat
    BY <1>1, <1>6
  <2>2. g[y] = (IF y = x THEN f[y] + 1 ELSE f[y]) /\ f[y] \in Nat /\ G[b].f[y] \in Nat
    BY <1>2, <1>4
  <2> QED BY <1>6, <2>1, <2>2
<1>9. IsSumOf(exact', G[b].f, g)
  BY <1>7, <1>8 DEF IsSumOf
<1>10. tot' = G[b].w + (w + 1)
  BY <1>1, <1>2
<1> QED BY <1>5, <1>7, <1>9, <1>10 DEF Running

LEMMA SameTsRemembered ==
  ASSUME NEW n, NEW G, Remembered(n, G), tot \in Nat, lastTs \in Nat, NEW x \in Key,
         tot' = tot + 1, exact' = [exact EXCEPT ![x] = @ + 1],
         lastTs' = IF lastTs = 0 THEN 1 ELSE lastTs, closed' = closed
  PROVE  Remembered(n, G)'
<1>1. n \in Nat /\ Ascends(G, n) /\ exact \in [Key -> Nat] /\ G[n].tot <= tot
  BY DEF Remembered
<1>2. G[n] \in Entry
  BY <1>1 DEF Ascends
<1>3. G[n].tot \in Nat /\ G[n].exact \in [Key -> Nat]
  BY <1>2 DEF Entry
<1>4. exact' \in [Key -> Nat]
  BY <1>1
<1>5. ASSUME NEW y \in Key
      PROVE  G[n].exact[y] <= exact'[y] /\ exact'[y] + G[n].tot <= G[n].exact[y] + tot'
  <2>1. exact'[y] = (IF y = x THEN exact[y] + 1 ELSE exact[y]) /\ exact[y] \in Nat
    BY <1>1
  <2>2. /\ G[n].exact[y] <= exact[y] /\ G[n].exact[y] \in Nat
        /\ exact[y] + G[n].tot <= G[n].exact[y] + tot
    BY <1>3 DEF Remembered
  <2> QED BY <1>3, <2>1, <2>2
<1>6. G[n].tot <= tot'
  BY <1>1, <1>3
<1>7. n = IF lastTs' = 0 THEN 0 ELSE lastTs' - 1
  BY DEF Remembered
<1> QED BY <1>4, <1>5, <1>6, <1>7 DEF Remembered

\* A timestamp ends: the history gets one more entry, with the counts h and
\* the weight v that have been moved into leaves.
Grown(H, G, n, h, v) ==
  H = [t \in 0 .. n + 1 |->
         IF t = n + 1 THEN [exact |-> exact, tot |-> tot, f |-> h, w |-> v] ELSE G[t]]

LEMMA GrownIs ==
  ASSUME NEW n, NEW G, Remembered(n, G), tot \in Nat,
         NEW h \in [Key -> Nat], NEW v \in Nat, NEW H, Grown(H, G, n, h, v)
  PROVE  /\ H \in [0 .. n + 1 -> Entry] /\ Ascends(H, n + 1) /\ GoesOn(H, n + 1, G, n)
         /\ H[n + 1].exact = exact /\ H[n + 1].tot = tot /\ H[n + 1].f = h /\ H[n + 1].w = v
<1>1. n \in Nat /\ Ascends(G, n) /\ exact \in [Key -> Nat] /\ G \in [0 .. n -> Entry]
  BY DEF Remembered, Ascends
<1>2. PICK e : e = [exact |-> exact, tot |-> tot, f |-> h, w |-> v]
  OBVIOUS
<1>3. e \in Entry /\ e.exact = exact /\ e.tot = tot /\ e.f = h /\ e.w = v
  BY <1>1, <1>2 DEF Entry
<1>4. H = [t \in 0 .. n + 1 |-> IF t = n + 1 THEN e ELSE G[t]]
  BY <1>2 DEF Grown
<1>5. PICK m \in Nat : m = n + 1
  BY <1>1
<1>6. H[m] = e /\ m # 0 /\ m \in 0 .. m
  <2>1. m # 0 /\ m \in 0 .. m /\ n + 1 \in 0 .. n + 1
    BY <1>1, <1>5
  <2>2. H[n + 1] = e
    BY <1>4, <2>1
  <2> QED BY <1>5, <2>1, <2>2
<1>7. ASSUME NEW t \in 0 .. n PROVE H[t] = G[t] /\ t \in 0 .. m
  <2>1. t \in 0 .. n + 1 /\ t # n + 1
    BY <1>1
  <2> QED BY <1>4, <1>5, <2>1
<1>8. H \in [0 .. m -> Entry]
  <2>1. ASSUME NEW t \in 0 .. m PROVE H[t] \in Entry
    <3>1. t = m \/ t \in 0 .. n
      BY <1>1, <1>5
    <3>2. \A i \in 0 .. n : G[i] \in Entry
      BY <1>1
    <3> QED BY <1>3, <1>6, <1>7, <3>1, <3>2
  <2>2. H = [t \in 0 .. m |-> H[t]]
    BY <1>4, <1>5
  <2> QED BY <2>1, <2>2
<1>9. \A t \in 0 .. n : G[t].tot \in Nat /\ G[t].exact \in [Key -> Nat]
  <2>1. \A t \in 0 .. n : G[t] \in Entry
    BY <1>1
  <2> QED BY <2>1 DEF Entry
<1>10. ASSUME NEW s \in 0 .. m, NEW t \in 0 .. m, s <= t
       PROVE  /\ H[s].tot <= H[t].tot
              /\ \A x \in Key : /\ H[s].exact[x] <= H[t].exact[x]
                                /\ H[t].exact[x] + H[s].tot <= H[s].exact[x] + H[t].tot
  <2>1. CASE t # m
    <3>1. s \in 0 .. n /\ t \in 0 .. n
      BY <1>1, <1>5, <1>10, <2>1
    <3> QED BY <1>1, <1>7, <1>10, <3>1 DEF Ascends
  <2>2. CASE t = m /\ s = m
    <3>1. H[m].tot \in Nat /\ H[m].exact \in [Key -> Nat]
      BY <1>1, <1>3, <1>6
    <3> QED BY <2>2, <3>1
  <2>3. CASE t = m /\ s # m
    <3>1. s \in 0 .. n /\ n \in 0 .. n /\ s <= n
      BY <1>1, <1>5, <2>3
    <3>2. /\ G[s].tot <= G[n].tot
          /\ \A x \in Key : /\ G[s].exact[x] <= G[n].exact[x]
                            /\ G[n].exact[x] + G[s].tot <= G[s].exact[x] + G[n].tot
      BY <1>1, <3>1 DEF Ascends
    <3>3. /\ G[n].tot <= tot
          /\ \A x \in Key : /\ G[n].exact[x] <= exact[x]
                            /\ exact[x] + G[n].tot <= G[n].exact[x] + tot
      BY DEF Remembered
    <3>4. /\ G[s].tot \in Nat /\ G[n].tot \in Nat
          /\ \A x \in Key : G[s].exact[x] \in Nat /\ G[n].exact[x] \in Nat /\ exact[x] \in Nat
      BY <1>1, <1>9, <3>1
    <3>5. G[s].tot <= tot
      BY <3>2, <3>3, <3>4
    <3>6. \A x \in Key : /\ G[s].exact[x] <= exact[x]
                         /\ exact[x] + G[s].tot <= G[s].exact[x] + tot
      BY <3>2, <3>3, <3>4
    <3> QED BY <1>3, <1>6, <1>7, <2>3, <3>1, <3>5, <3>6
  <2> QED BY <2>1, <2>2, <2>3
<1>11. H[0] = G[0]
  BY <1>1, <1>7
<1>12. Ascends(H, m)
  <2>1. H[0].tot = 0 /\ H[0].w = 0 /\ \A x \in Key : H[0].f[x] = 0 /\ H[0].exact[x] = 0
    BY <1>1, <1>11 DEF Ascends
  <2> QED BY <1>8, <1>10, <2>1 DEF Ascends
<1>13. GoesOn(H, m, G, n)
  BY <1>1, <1>5, <1>7 DEF GoesOn
<1> QED BY <1>3, <1>5, <1>6, <1>8, <1>12, <1>13

LEMMA NextTsRemembered ==
  ASSUME NEW n, NEW G, Remembered(n, G), tot \in Nat, lastTs \in Nat, lastTs # 0,
         NEW h \in [Key -> Nat], NEW v \in Nat, NEW H, Grown(H, G, n, h, v),
         NEW x \in Key, tot' = tot + 1, exact' = [exact EXCEPT ![x] = @ + 1],
         lastTs' = lastTs + 1, closed' = Append(closed, [exact |-> exact, tot |-> tot])
  PROVE  Remembered(n + 1, H)'
<1>1. /\ n \in Nat /\ Listed(closed) /\ Len(closed) = n /\ n + 1 = lastTs
      /\ \A t \in 1 .. n : closed[t].exact = G[t].exact /\ closed[t].tot = G[t].tot
      /\ exact \in [Key -> Nat]
  BY DEF Remembered
<1>2. /\ Ascends(H, n + 1) /\ GoesOn(H, n + 1, G, n)
      /\ H[n + 1].exact = exact /\ H[n + 1].tot = tot
  BY GrownIs
<1>3. PICK r : r = [exact |-> exact, tot |-> tot]
  OBVIOUS
<1>4. PICK s : Appended(closed, r, s)
  BY <1>1, ListedAppend
<1>5. closed' = s
  BY <1>3, <1>4 DEF Appended
<1>6. /\ Listed(closed') /\ Len(closed') = n + 1 /\ closed'[n + 1] = r
      /\ \A i \in 1 .. n : closed'[i] = closed[i]
  BY <1>1, <1>4, <1>5 DEF Appended
<1>7. ASSUME NEW t \in 1 .. n + 1
      PROVE  closed'[t].exact = H[t].exact /\ closed'[t].tot = H[t].tot
  <2>1. CASE t = n + 1
    <3>1. closed'[t].exact = exact /\ closed'[t].tot = tot
      BY <1>3, <1>6, <2>1
    <3> QED BY <1>2, <2>1, <3>1
  <2>2. CASE t # n + 1
    <3>1. t \in 1 .. n /\ t \in 0 .. n
      BY <1>1, <2>2
    <3>2. H[t] = G[t]
      BY <1>2, <3>1 DEF GoesOn
    <3> QED BY <1>1, <1>6, <3>1, <3>2
  <2> QED BY <2>1, <2>2
<1>8. exact' \in [Key -> Nat]
  BY <1>1
<1>9. ASSUME NEW y \in Key
      PROVE  /\ H[n + 1].exact[y] <= exact'[y]
             /\ exact'[y] + H[n + 1].tot <= H[n + 1].exact[y] + tot'
  <2>1. exact'[y] = (IF y = x THEN exact[y] + 1 ELSE exact[y]) /\ exact[y] \in Nat
    BY <1>1
  <2> QED BY <1>2, <2>1
<1>10. H[n + 1].tot <= tot'
  BY <1>2
<1>11. n + 1 = IF lastTs' = 0 THEN 0 ELSE lastTs' - 1
  BY <1>1
<1>12. n + 1 \in Nat
  BY <1>1
<1> QED BY <1>2, <1>6, <1>7, <1>8, <1>9, <1>10, <1>11, <1>12 DEF Remembered

LEMMA SameTsKeepsPast ==
  ASSUME ForestTypes, RoomInv, TreePast, NEW x \in Key, TMG!UpdateSameTs(x)
  PROVE  TreePast'
<1>1. PICK n, G, R, at, b : Remembered(n, G) /\ Running(G, b) /\ InForest(n, G, R, at, b)
  BY DEF TreePast
<1>2. /\ TMG!Arrive(sk, x, 1) /\ closed' = closed
      /\ tree' = tree /\ level' = level /\ target' = target /\ perNode' = perNode
      /\ lastTs' = IF lastTs = 0 THEN 1 ELSE lastTs
  BY DEF TMG!UpdateSameTs
<1>3. tot' = tot + 1 /\ exact' = [exact EXCEPT ![x] = @ + 1]
  BY <1>2 DEF TMG!Arrive
<1>4. Remembered(n, G)'
  BY <1>1, <1>2, <1>3, SameTsRemembered DEF RoomInv, ForestTypes
<1>5. LittleLeft(G[b]) /\ G[b] \in Entry
  BY <1>1 DEF Remembered, Ascends, Running, InForest
<1>6. PICK f, w : Open(sk, f, w) /\ IsSumOf(exact, G[b].f, f) /\ tot = G[b].w + w
  BY <1>1 DEF Running
<1>7. Running(G, b)'
  BY <1>2, <1>5, <1>6, ArrivalRuns
<1>8. InForest(n, G, R, at, b)'
  BY <1>1, <1>2 DEF InForest, Spans
<1> QED BY <1>4, <1>7, <1>8 DEF TreePast

\* A timestamp ends before a leaf is due.
LEMMA NoLeafKeepsPast ==
  ASSUME ForestTypes, RoomInv, TreePast, NEW x \in Key, TMG!UpdateNextTs(x),
         tot + 1 < target, UNCHANGED <<tree, level, target, perNode>>,
         TMG!Arrive(sk, x, 1)
  PROVE  TreePast'
<1>1. PICK n, G, R, at, b : Remembered(n, G) /\ Running(G, b) /\ InForest(n, G, R, at, b)
  BY DEF TreePast
<1>2. /\ lastTs \in Nat /\ lastTs # 0 /\ lastTs' = lastTs + 1 /\ tot \in Nat
      /\ closed' = Append(closed, [exact |-> exact, tot |-> tot])
      /\ tot' = tot + 1 /\ exact' = [exact EXCEPT ![x] = @ + 1]
  BY DEF TMG!UpdateNextTs, TMG!Arrive, ForestTypes, RoomInv
<1>3. PICK none : none = [y \in Key |-> 0]
  OBVIOUS
<1>4. none \in [Key -> Nat] /\ 0 \in Nat
  BY <1>3
<1>5. PICK H : Grown(H, G, n, none, 0)
  BY DEF Grown
<1>6. Remembered(n + 1, H)'
  BY <1>1, <1>2, <1>4, <1>5, NextTsRemembered
<1>7. /\ H \in [0 .. n + 1 -> Entry] /\ GoesOn(H, n + 1, G, n) /\ H[n + 1].tot = tot
  BY <1>1, <1>2, <1>4, <1>5, GrownIs
<1>8. n \in Nat /\ b \in 0 .. n /\ H[b] = G[b] /\ G \in [0 .. n -> Entry] /\ G[b] \in Entry
  <2>1. n \in Nat /\ b \in 0 .. n /\ G \in [0 .. n -> Entry]
    BY <1>1 DEF Remembered, Ascends, InForest
  <2> QED BY <1>7, <2>1 DEF GoesOn
<1>9. Running(H, b)'
  <2>1. LittleLeft(H[b])
    BY <1>1, <1>8 DEF Running
  <2>2. PICK f, w : Open(sk, f, w) /\ IsSumOf(exact, H[b].f, f) /\ tot = H[b].w + w
    BY <1>1, <1>8 DEF Running
  <2> QED BY <1>8, <2>1, <2>2, ArrivalRuns
<1>10. InForest(n + 1, H, R, at, b)'
  <2>1. perNode \in Nat /\ Forest(G, n, perNode, R)
    BY <1>1, TwoToIs DEF InForest, RoomInv, ForestTypes
  <2>2. Forest(H, n + 1, perNode, R)
    BY <1>7, <1>8, <2>1, ForestStaysOk
  <2>3. Spans(n + 1, R, at)'
    <3>1. Spans(n, R, at)
      BY <1>1 DEF InForest
    <3>2. at \in [0 .. TreeLevels -> 0 .. n + 1]
      <4>1. \A i \in 0 .. n : i \in 0 .. n + 1
        BY <1>8
      <4>2. at \in [0 .. TreeLevels -> 0 .. n]
        BY <3>1 DEF Spans
      <4> QED BY <4>1, <4>2
    <3> QED BY <3>1, <3>2 DEF Spans
  <2>4. ASSUME NEW t \in 0 .. n + 1 PROVE H[t].tot < target
    <3>1. CASE t = n + 1
      BY <1>2, <1>7, <3>1 DEF RoomInv
    <3>2. CASE t # n + 1
      <4>1. t \in 0 .. n
        BY <1>8, <3>2
      <4>2. H[t] = G[t]
        BY <1>7, <4>1 DEF GoesOn
      <4> QED BY <1>1, <4>1, <4>2 DEF InForest
    <3> QED BY <3>1, <3>2
  <2>5. b \in 0 .. n + 1
    BY <1>8
  <2> QED BY <1>1, <1>8, <2>2, <2>3, <2>4, <2>5 DEF InForest
<1> QED BY <1>6, <1>9, <1>10 DEF TreePast

\* What a leaf takes, and what it leaves.
LEMMA LeafTakes ==
  ASSUME tot \in Nat, NEW G, NEW b, Running(G, b), G[b] \in Entry
  PROVE  \E h \in [Key -> Nat], v \in Nat :
           /\ LittleLeft([exact |-> exact, tot |-> tot, f |-> h, w |-> v])
           /\ \E f, w : /\ AtRest(TMG!LeafSketch(TMG!ResetDelta(sk)), f, w)
                        /\ IsSumOf(h, G[b].f, f) /\ v = G[b].w + w
           /\ \E f, w : /\ Open(TMG!SmallPart(TMG!ResetDelta(sk)), f, w)
                        /\ IsSumOf(exact, h, f) /\ tot = v + w
<1>1. PICK f, w : Open(sk, f, w) /\ IsSumOf(exact, G[b].f, f) /\ tot = G[b].w + w
  BY DEF Running
<1>2. PICK f1, f2 : \E w1, w2 \in Nat :
           /\ IsSumOf(f, f1, f2) /\ w = w1 + w2
           /\ AtRest(TMG!LeafSketch(TMG!ResetDelta(sk)), f1, w1)
           /\ Open(TMG!SmallPart(TMG!ResetDelta(sk)), f2, w2)
           /\ \A x \in Key : EpsDen * f2[x] <= EpsNum * tot
  BY <1>1, SketchSplits
<1>3. PICK w1 \in Nat, w2 \in Nat :
           /\ IsSumOf(f, f1, f2) /\ w = w1 + w2
           /\ AtRest(TMG!LeafSketch(TMG!ResetDelta(sk)), f1, w1)
           /\ Open(TMG!SmallPart(TMG!ResetDelta(sk)), f2, w2)
           /\ \A x \in Key : EpsDen * f2[x] <= EpsNum * tot
  BY <1>2
<1>4. f1 \in [Key -> Nat] /\ f2 \in [Key -> Nat] /\ G[b].f \in [Key -> Nat] /\ G[b].w \in Nat
  BY <1>3 DEF AtRest, Open, Entry
<1>5. PICK h : h = [x \in Key |-> G[b].f[x] + f1[x]]
  OBVIOUS
<1>6. h \in [Key -> Nat] /\ \A x \in Key : h[x] = G[b].f[x] + f1[x]
  BY <1>4, <1>5
<1>7. PICK v \in Nat : v = G[b].w + w1
  BY <1>3, <1>4
<1>8. IsSumOf(h, G[b].f, f1)
  BY <1>6 DEF IsSumOf
<1>9. \A x \in Key : exact[x] = h[x] + f2[x] /\ exact[x] \in Nat /\ h[x] \in Nat /\ f2[x] \in Nat
  BY <1>1, <1>3, <1>4, <1>6 DEF IsSumOf
<1>10. IsSumOf(exact, h, f2) /\ tot = v + w2
  BY <1>1, <1>3, <1>4, <1>7, <1>9 DEF IsSumOf
<1>11. PICK e : e = [exact |-> exact, tot |-> tot, f |-> h, w |-> v]
  OBVIOUS
<1>12. e.exact = exact /\ e.tot = tot /\ e.f = h /\ e.w = v
  BY <1>11
<1>13. LittleLeft(e)
  <2>1. v <= tot
    BY <1>3, <1>10
  <2>2. ASSUME NEW x \in Key
        PROVE  h[x] <= exact[x] /\ EpsDen * exact[x] <= EpsDen * h[x] + EpsNum * tot
    <3>1. EpsDen * exact[x] = EpsDen * h[x] + EpsDen * f2[x]
      BY <1>9, TreeConstants
    <3>2. PICK a \in Nat, c \in Nat, d \in Nat :
            a = EpsDen * h[x] /\ c = EpsDen * f2[x] /\ d = EpsNum * tot
      BY <1>9, TreeConstants
    <3>3. c <= d
      BY <1>3, <3>2
    <3> QED BY <1>9, <3>1, <3>2, <3>3
  <2> QED BY <1>12, <2>1, <2>2 DEF LittleLeft
<1> QED BY <1>3, <1>6, <1>7, <1>8, <1>10, <1>11, <1>13

\* The leaf is in order, from the last leaf's end on.
LEMMA LeafIsOk ==
  ASSUME ForestTypes, RoomInv,
         NEW n, NEW G, NEW R, NEW at, NEW b, Remembered(n, G), InForest(n, G, R, at, b),
         lastTs # 0, tot + 1 >= target,
         NEW H, GoesOn(H, n + 1, G, n), H \in [0 .. n + 1 -> Entry], H[n + 1].tot = tot,
         LittleLeft(H[n + 1]),
         NEW mg, Holds(H, mg, b, n + 1)
  PROVE  /\ n + 1 = lastTs /\ b \in 0 .. n + 1
         /\ \E R1 : /\ R \subseteq R1 /\ Forest(H, n + 1, perNode, R1)
                    /\ <<TMG!Leaf(mg), b, level>> \in R1
<1>1. /\ n \in Nat /\ lastTs \in Nat /\ n + 1 = lastTs /\ level \in Nat /\ tot \in Nat
      /\ G \in [0 .. n -> Entry] /\ perNode \in Nat /\ target \in Nat
  BY TwoToIs DEF Remembered, Ascends, ForestTypes, RoomInv
<1>2. /\ Forest(G, n, perNode, R) /\ b \in 0 .. n /\ target = G[b].tot + perNode
      /\ \A t \in 0 .. n : G[t].tot < target
  BY DEF InForest
<1>3. Forest(H, n + 1, perNode, R)
  BY <1>1, <1>2, ForestStaysOk
<1>4. PICK leaf : leaf = TMG!Leaf(mg)
  OBVIOUS
<1>5. leaf = [ts |-> lastTs, tot |-> tot, mg |-> <<mg>>, kids |-> <<>>]
  BY <1>4 DEF TMG!Leaf
<1>6. leaf.ts = n + 1 /\ leaf.tot = tot /\ leaf.mg = <<mg>> /\ leaf.mg[1] = mg /\ leaf.kids = <<>>
  BY <1>1, <1>5
<1>7. \A t \in 0 .. n : H[t] = G[t]
  BY DEF GoesOn
<1>8. \A t \in 0 .. n + 1 : t < n + 1 => H[t].tot < H[b].tot + perNode
  <2>1. ASSUME NEW t \in 0 .. n + 1, t < n + 1 PROVE H[t].tot < H[b].tot + perNode
    <3>1. t \in 0 .. n
      BY <1>1, <2>1
    <3> QED BY <1>2, <1>7, <3>1
  <2> QED BY <2>1
<1>9. NodeOk(H, n + 1, perNode, R, leaf, b, level)
  <2>1. n + 1 \in 1 .. n + 1 /\ b \in 0 .. n + 1 /\ b < n + 1
    BY <1>1, <1>2
  <2> QED BY <1>1, <1>6, <1>8, <2>1 DEF NodeOk
<1>10. PICK R1 : R1 = R \cup {<<leaf, b, level>>}
  OBVIOUS
<1>11. n + 1 \in Nat /\ b \in 0 .. n + 1
  BY <1>1, <1>2
<1>12. Forest(H, n + 1, perNode, R1)
  BY <1>1, <1>3, <1>9, <1>10, <1>11, ForestTakes
<1> QED BY <1>1, <1>4, <1>10, <1>11, <1>12

\* What the carry of a leaf starts from, at the end of the timestamp m.
CarryStarts(n, m, G, p, R, R1, at, b, leaf) ==
  /\ n \in Nat /\ m = n + 1 /\ m = lastTs /\ tot = G[m].tot /\ p \in Nat
  /\ G \in [0 .. m -> Entry] /\ Forest(G, m, p, R1)
  /\ Spans(n, R, at) /\ R \subseteq R1 /\ \A l \in 0 .. level : at[l] = b
  /\ Fresh(leaf) /\ <<leaf, b, level>> \in R1 /\ tree' = TMG!Carried(leaf)

\* The roots after the carry: from the lowest up to the free level they reach
\* back to the leaf's end.
LEMMA CarrySpans ==
  ASSUME ForestTypes, Rooted, TMG!NothingBelowLevel,
         NEW n, NEW m, NEW G, NEW p, NEW R, NEW R1, NEW at, NEW b, NEW leaf,
         CarryStarts(n, m, G, p, R, R1, at, b, leaf),
         TMG!FreeLevel \in TMG!Level, level <= TMG!FreeLevel
  PROVE  \E R2, at2 : /\ Forest(G, m, p, R2) /\ Spans(m, R2, at2)'
                      /\ \A l \in 0 .. TMG!FreeLevel : at2[l] = m
<1>0. /\ n \in Nat /\ m = n + 1 /\ m = lastTs /\ tot = G[m].tot /\ p \in Nat
      /\ G \in [0 .. m -> Entry] /\ Forest(G, m, p, R1)
      /\ Spans(n, R, at) /\ R \subseteq R1 /\ \A l \in 0 .. level : at[l] = b
      /\ Fresh(leaf) /\ <<leaf, b, level>> \in R1 /\ tree' = TMG!Carried(leaf)
  BY DEF CarryStarts
<1>f. PICK F : F = TMG!FreeLevel /\ F \in TMG!Level /\ level <= F
  OBVIOUS
<1> USE <1>0, <1>f
<1>1. /\ F \in Nat /\ F < TreeLevels /\ level \in Nat /\ TreeLevels \in Nat
      /\ level \in 0 .. TreeLevels /\ TMG!Level = 0 .. TreeLevels - 1
      /\ level \in 0 .. level /\ m \in Nat /\ m \in 1 .. m /\ tree[F] = <<>>
  BY FreeLevelFacts, TreeConstants DEF ForestTypes, TMG!Level
<1>2. PICK node :
        /\ Carrying(node, leaf, F)
        /\ tree' = [l \in TMG!Level |->
                      CASE l \notin level .. F -> tree[l]
                        [] l \in level .. F - 1 -> <<>>
                        [] OTHER -> <<node[l]>>]
  BY CarriedIs
<1>3. F \in level .. F /\ F \notin level .. F - 1
  BY <1>1
<1>4. PICK R2 : R1 \subseteq R2 /\ Forest(G, m, p, R2) /\ <<node[F], at[F], F>> \in R2
  <2>1. <<leaf, at[level], level>> \in R1
    BY <1>1
  <2>2. Spans(n, R1, at)
    BY DEF Spans
  <2>3. lastTs \in 1 .. m /\ tot = G[lastTs].tot
    BY <1>1
  <2>4. Carrying(node, leaf, TMG!FreeLevel) /\ F \in level .. TMG!FreeLevel
    BY <1>2, <1>3
  <2>5. m \in Nat /\ level \in 0 .. TreeLevels
    BY <1>1
  <2> QED BY <2>1, <2>2, <2>3, <2>4, <2>5, CarriedIsOk, SMTT(30)
<1>5. Fresh(node[F])
  BY <1>2, <1>3, CarriedIsFresh
<1>6. tree'[F] = <<node[F]>> /\ node[F].ts = m
  <2>1. tree'[F] = <<node[F]>>
    BY <1>2, <1>3
  <2>2. node[F].ts = lastTs
    BY <1>5 DEF Fresh
  <2> QED BY <2>1, <2>2
<1>7. \A l \in TMG!Level :
        /\ l < level \/ l > F => tree'[l] = tree[l]
        /\ level <= l /\ l < F => tree'[l] = <<>>
  BY CarriedShape
<1>8. PICK at2 : at2 = [l \in 0 .. TreeLevels |-> IF l <= F THEN m ELSE at[l]]
  OBVIOUS
<1>9. /\ at \in [0 .. TreeLevels -> 0 .. n] /\ at[TreeLevels] = 0
      /\ \A l \in TMG!Level :
           /\ tree[l] = <<>> => at[l] = at[l + 1]
           /\ tree[l] # <<>> => at[l] = tree[l][1].ts /\ <<tree[l][1], at[l + 1], l>> \in R
  BY DEF Spans
<1>10. at2 \in [0 .. TreeLevels -> 0 .. m]
  <2>1. ASSUME NEW l \in 0 .. TreeLevels PROVE at2[l] \in 0 .. m
    <3>1. at[l] \in 0 .. n
      BY <1>9
    <3>2. at[l] \in 0 .. m /\ m \in 0 .. m
      BY <1>1, <3>1
    <3> QED BY <1>8, <3>2
  <2> QED BY <1>8, <2>1
<1>11. at2[TreeLevels] = 0
  <2>1. TreeLevels \in 0 .. TreeLevels /\ ~(TreeLevels <= F)
    BY <1>1
  <2> QED BY <1>8, <1>9, <2>1
<1>12. ASSUME NEW l \in TMG!Level
       PROVE  /\ tree'[l] = <<>> => at2[l] = at2[l + 1]
              /\ tree'[l] # <<>> => at2[l] = tree'[l][1].ts /\ <<tree'[l][1], at2[l + 1], l>> \in R2
  <2>1. l \in 0 .. TreeLevels /\ l + 1 \in 0 .. TreeLevels /\ l \in Nat
    BY <1>1
  <2>2. CASE l < F
    <3>1. tree'[l] = <<>>
      BY <1>1, <1>7, <2>1, <2>2 DEF TMG!NothingBelowLevel
    <3>2. l <= F /\ l + 1 <= F
      BY <1>1, <2>1, <2>2
    <3> QED BY <1>8, <2>1, <3>1, <3>2
  <2>3. CASE l = F
    <3>1. at2[l] = m /\ at2[l + 1] = at[l + 1]
      <4>1. l <= F /\ ~(l + 1 <= F)
        BY <1>1, <2>3
      <4> QED BY <1>8, <2>1, <4>1
    <3>2. at[F + 1] = at[F]
      BY <1>1, <1>9
    <3>3. tree'[l] # <<>> /\ tree'[l][1] = node[F]
      BY <1>6, <2>3
    <3> QED BY <1>4, <1>6, <2>3, <3>1, <3>2, <3>3
  <2>4. CASE l > F
    <3>1. tree'[l] = tree[l]
      BY <1>7, <2>4
    <3>2. at2[l] = at[l] /\ at2[l + 1] = at[l + 1]
      <4>1. ~(l <= F) /\ ~(l + 1 <= F)
        BY <1>1, <2>1, <2>4
      <4> QED BY <1>8, <2>1, <4>1
    <3> QED BY <1>4, <1>9, <3>1, <3>2
  <2> QED BY <1>1, <2>1, <2>2, <2>3, <2>4
<1>13. Spans(m, R2, at2)'
  BY <1>10, <1>11, <1>12 DEF Spans, TMG!Level
<1>14. ASSUME NEW l \in 0 .. F PROVE at2[l] = m
  <2>1. l \in 0 .. TreeLevels /\ l <= F
    BY <1>1
  <2> QED BY <1>8, <2>1
<1> QED BY <1>4, <1>13, <1>14

\* A timestamp ends with a leaf.
LEMMA LeafKeepsPast ==
  ASSUME ForestInv, RoomInv, TreePast, NEW x \in Key, TMG!UpdateNextTs(x),
         tot + 1 >= target, TMG!MergeCurSketch(1),
         TMG!Arrive(TMG!SmallPart(TMG!ResetDelta(sk)), x, 1)
  PROVE  TreePast'
<1>1. PICK n, G, R, at, b : Remembered(n, G) /\ Running(G, b) /\ InForest(n, G, R, at, b)
  BY DEF TreePast
<1>2. /\ lastTs \in Nat /\ lastTs # 0 /\ lastTs' = lastTs + 1 /\ tot \in Nat
      /\ closed' = Append(closed, [exact |-> exact, tot |-> tot])
      /\ tot' = tot + 1 /\ exact' = [exact EXCEPT ![x] = @ + 1]
      /\ ForestTypes /\ Rooted /\ TMG!NothingBelowLevel /\ CountsUp
  BY DEF TMG!UpdateNextTs, TMG!Arrive, ForestInv, ForestTypes, RoomInv
<1>3. /\ n \in Nat /\ G \in [0 .. n -> Entry] /\ G[b] \in Entry
      /\ b \in 0 .. n /\ \A l \in 0 .. level : at[l] = b
      /\ Spans(n, R, at)
  BY <1>1 DEF Remembered, Ascends, InForest
<1>4. PICK h \in [Key -> Nat], v \in Nat :
           /\ LittleLeft([exact |-> exact, tot |-> tot, f |-> h, w |-> v])
           /\ \E f, w : /\ AtRest(TMG!LeafSketch(TMG!ResetDelta(sk)), f, w)
                        /\ IsSumOf(h, G[b].f, f) /\ v = G[b].w + w
           /\ \E f, w : /\ Open(TMG!SmallPart(TMG!ResetDelta(sk)), f, w)
                        /\ IsSumOf(exact, h, f) /\ tot = v + w
  BY <1>1, <1>2, <1>3, LeafTakes
<1>5. PICK H : Grown(H, G, n, h, v)
  BY DEF Grown
<1>6. Remembered(n + 1, H)'
  BY <1>1, <1>2, <1>5, NextTsRemembered
<1>7. PICK m \in Nat : m = n + 1
  BY <1>3
<1>8. /\ H \in [0 .. m -> Entry] /\ Ascends(H, m) /\ GoesOn(H, m, G, n)
      /\ H[m].exact = exact /\ H[m].tot = tot /\ H[m].f = h /\ H[m].w = v
  BY <1>1, <1>2, <1>5, <1>7, GrownIs
<1>9. LittleLeft(H[m])
  <2>1. PICK e : e = [exact |-> exact, tot |-> tot, f |-> h, w |-> v]
    OBVIOUS
  <2>2. e.exact = exact /\ e.tot = tot /\ e.f = h /\ e.w = v /\ LittleLeft(e)
    BY <1>4, <2>1
  <2> QED BY <1>8, <2>2 DEF LittleLeft
<1>10. H[b] = G[b]
  BY <1>3, <1>8 DEF GoesOn
<1>11. PICK mg : mg = TMG!LeafSketch(TMG!ResetDelta(sk))
  OBVIOUS
<1>12. Holds(H, mg, b, m)
  <2>1. PICK f, w : AtRest(mg, f, w) /\ IsSumOf(h, G[b].f, f) /\ v = G[b].w + w
    BY <1>4, <1>11
  <2> QED BY <1>8, <1>10, <2>1 DEF Holds
<1>13. PICK leaf : leaf = TMG!Leaf(mg)
  OBVIOUS
<1>14. /\ m = lastTs
       /\ \E R1 : /\ R \subseteq R1 /\ Forest(H, m, perNode, R1)
                  /\ <<leaf, b, level>> \in R1
  <2>1. GoesOn(H, n + 1, G, n) /\ H \in [0 .. n + 1 -> Entry] /\ H[n + 1].tot = tot
    BY <1>7, <1>8
  <2>2. LittleLeft(H[n + 1]) /\ Holds(H, mg, b, n + 1)
    BY <1>7, <1>9, <1>12
  <2>3. /\ n + 1 = lastTs /\ b \in 0 .. n + 1
        /\ \E R1 : /\ R \subseteq R1 /\ Forest(H, n + 1, perNode, R1)
                   /\ <<TMG!Leaf(mg), b, level>> \in R1
    BY <1>1, <1>2, <2>1, <2>2, LeafIsOk
  <2> QED BY <1>7, <1>13, <2>3
<1>15. PICK R1 : R \subseteq R1 /\ Forest(H, m, perNode, R1) /\ <<leaf, b, level>> \in R1
  BY <1>14
<1>16. Fresh(leaf) /\ tree' = TMG!Carried(leaf)
  BY <1>11, <1>13, LeafIsFresh DEF TMG!MergeCurSketch
<1>17. PICK F : F = TMG!FreeLevel
  OBVIOUS
<1>18. F \in TMG!Level /\ level <= F
  BY <1>2, <1>17, RoomAbove
<1>19. perNode \in Nat \ {0}
  BY <1>2, TwoToIs DEF RoomInv, ForestTypes
<1>20. PICK R2, at2 : /\ Forest(H, m, perNode, R2) /\ Spans(m, R2, at2)'
                      /\ \A l \in 0 .. F : at2[l] = m
  <2>1. m = n + 1 /\ m = lastTs /\ tot = H[m].tot /\ perNode \in Nat
    BY <1>7, <1>8, <1>14, <1>19
  <2>2. CarryStarts(n, m, H, perNode, R, R1, at, b, leaf)
    BY <1>3, <1>8, <1>15, <1>16, <2>1 DEF CarryStarts
  <2> QED BY <1>2, <1>17, <1>18, <2>2, CarrySpans
<1>21. /\ target' = tot + perNode' /\ perNode' \in Nat \ {0} /\ perNode <= perNode'
       /\ target' > tot
  <2>1. target' = tot + perNode' /\ (perNode' = perNode \/ perNode' = 2 * perNode)
    BY DEF TMG!MergeCurSketch
  <2> QED BY <1>2, <1>19, <2>1
<1>22. Forest(H, m, perNode', R2)
  <2>1. GoesOn(H, m, H, m)
    BY <1>7 DEF GoesOn
  <2> QED BY <1>8, <1>19, <1>20, <1>21, <2>1, ForestStaysOk
<1>23. level' <= F /\ level' \in Nat
  <2>1. level' \in Nat /\ TMG!NothingBelowLevel'
    BY <1>2, MergeCounts
  <2>2. tree'[F] # <<>>
    BY <1>2, <1>16, <1>17, <1>18, CarriedShape
  <2>3. ~(F < level')
    BY <1>18, <2>1, <2>2 DEF TMG!NothingBelowLevel, TMG!Level
  <2>4. F \in Nat
    BY <1>18, TreeConstants DEF TMG!Level
  <2> QED BY <2>1, <2>3, <2>4
<1>24. \A l \in 0 .. level' : at2[l] = m
  <2>1. F \in Nat
    BY <1>18, TreeConstants DEF TMG!Level
  <2>2. \A l \in 0 .. level' : l \in 0 .. F
    BY <1>23, <2>1
  <2> QED BY <1>20, <2>2
<1>25. ASSUME NEW t \in 0 .. m PROVE H[t].tot < target'
  <2>1. m \in 0 .. m /\ t <= m
    BY <1>7
  <2>2. H[t].tot <= H[m].tot
    BY <1>8, <2>1 DEF Ascends
  <2>3. H[t] \in Entry
    BY <1>8
  <2>4. H[t].tot \in Nat
    BY <2>3 DEF Entry
  <2> QED BY <1>2, <1>8, <1>21, <2>2, <2>4
<1>26. InForest(m, H, R2, at2, m)'
  <2>1. m \in 0 .. m /\ target' = H[m].tot + perNode'
    BY <1>7, <1>8, <1>21
  <2> QED BY <1>20, <1>22, <1>24, <1>25, <2>1 DEF InForest
<1>27. Running(H, m)'
  <2>1. PICK f, w : Open(TMG!SmallPart(TMG!ResetDelta(sk)), f, w) /\ IsSumOf(exact, h, f) /\ tot = v + w
    BY <1>4
  <2>2. PICK q : q = TMG!SmallPart(TMG!ResetDelta(sk))
    OBVIOUS
  <2>3. /\ Open(q, f, w) /\ TMG!Arrive(q, x, 1) /\ IsSumOf(exact, H[m].f, f)
        /\ tot = H[m].w + w
    BY <1>8, <2>1, <2>2
  <2>4. H[m] \in Entry
    <3>1. m \in 0 .. m
      BY <1>7
    <3> QED BY <1>8, <3>1
  <2> QED BY <1>9, <2>3, <2>4, ArrivalRuns
<1>28. Remembered(m, H)'
  BY <1>6, <1>7
<1> QED BY <1>26, <1>27, <1>28 DEF TreePast

-----------------------------------------------------------------------------
(* The invariant of the history                                            *)

AnnalsKept == class = "TMG" => RoomInv /\ TreePast

LEMMA AnnalsStep ==
  ASSUME ForestInv, RoomInv, TreePast, TMG!Next
  PROVE  RoomInv' /\ TreePast'
<1>1. /\ ForestTypes /\ TMG!NothingBelowLevel /\ level \in Nat /\ lastTs \in Nat
      /\ tot \in Nat /\ target \in Nat
  <2>1. ForestTypes /\ TMG!NothingBelowLevel
    BY DEF ForestInv
  <2> QED BY <2>1 DEF ForestTypes, RoomInv
<1>2. ASSUME NEW x \in Key, TMG!UpdateSameTs(x) PROVE RoomInv' /\ TreePast'
  <2>1. TreePast'
    BY <1>1, <1>2, SameTsKeepsPast
  <2>2. /\ UNCHANGED <<tree, level, remaining, target, perNode>>
        /\ tot' = tot + 1 /\ tot' <= TreeMaxTotal /\ lastTs' # 0
    BY <1>2 DEF TMG!UpdateSameTs, TMG!Arrive
  <2> QED BY <1>1, <2>1, <2>2, RoomStays
<1>3. ASSUME NEW x \in Key, TMG!UpdateNextTs(x) PROVE RoomInv' /\ TreePast'
  <2>1. lastTs > 0 /\ lastTs' = lastTs + 1 /\ lastTs # 0 /\ lastTs' # 0
    BY <1>1, <1>3 DEF TMG!UpdateNextTs
  <2>2. CASE tot + 1 >= target
    <3>1. /\ TMG!MergeCurSketch(1)
          /\ TMG!Arrive(TMG!SmallPart(TMG!ResetDelta(sk)), x, 1)
      BY <1>3, <2>2 DEF TMG!UpdateNextTs
    <3>2. tot' = tot + 1 /\ tot' <= TreeMaxTotal
      BY <3>1 DEF TMG!Arrive
    <3>3. RoomInv'
      BY <1>1, <2>1, <2>2, <3>1, <3>2, MergeKeepsRoom
    <3>4. TreePast'
      BY <1>3, <2>2, <3>1, LeafKeepsPast
    <3> QED BY <3>3, <3>4
  <2>3. CASE ~(tot + 1 >= target)
    <3>1. /\ TMG!Arrive(sk, x, 1)
          /\ UNCHANGED <<tree, level, remaining, target, perNode>>
      BY <1>3, <2>3 DEF TMG!UpdateNextTs
    <3>2. tot' = tot + 1 /\ tot' <= TreeMaxTotal
      BY <3>1 DEF TMG!Arrive
    <3>3. RoomInv'
      BY <1>1, <2>1, <3>1, <3>2, RoomStays
    <3>4. tot + 1 < target
      BY <1>1, <2>3
    <3>5. TreePast'
      BY <1>1, <1>3, <3>1, <3>4, NoLeafKeepsPast
    <3> QED BY <3>3, <3>5
  <2> QED BY <2>2, <2>3
<1>4. ASSUME TMG!Clear PROVE RoomInv' /\ TreePast'
  <2>1. Begun'
    BY <1>4 DEF TMG!Clear, Begun, TMG!NoCounts, TMG!EmptySketch, TMG!Level
  <2>2. (Begun => TreePast /\ RoomInv)'
    BY AnnalsBegins, PTL
  <2> QED BY <2>1, <2>2
<1> QED BY <1>2, <1>3, <1>4 DEF TMG!Next

LEMMA AnnalsInitial == Init => AnnalsKept
<1>1. TMG!Init => Begun
  BY DEF TMG!Init, Begun
<1> QED BY <1>1, AnnalsBegins DEF Init, AnnalsKept

LEMMA AnnalsNext == SketchInv /\ AnnalsKept /\ [Next]_vars => AnnalsKept'
<1> SUFFICES ASSUME SketchInv, AnnalsKept, [Next]_vars, class' = "TMG"
             PROVE  RoomInv' /\ TreePast'
  BY DEF AnnalsKept
<1>1. class' = class
  BY DEF Next, vars
<1>2. ForestInv /\ RoomInv /\ TreePast
  BY <1>1 DEF SketchInv, AnnalsKept
<1>3. CASE TMG!Next
  BY <1>2, <1>3, AnnalsStep
<1>4. CASE UNCHANGED vars
  <2>1. UNCHANGED <<lastTs, tot, sk, exact, closed, tree, level, remaining, target, perNode>>
    BY <1>4 DEF vars, shared, ofTrees, ofTMG
  <2>2. RoomInv'
    BY <1>2, <2>1 DEF RoomInv, Counter, Bit
  <2>3. TreePast'
    <3>1. PICK n, G, R, at, b : Remembered(n, G) /\ Running(G, b) /\ InForest(n, G, R, at, b)
      BY <1>2 DEF TreePast
    <3>2. Remembered(n, G)' /\ Running(G, b)'
      BY <2>1, <3>1 DEF Remembered, Running
    <3>3. InForest(n, G, R, at, b)'
      BY <2>1, <3>1 DEF InForest, Spans
    <3> QED BY <3>2, <3>3 DEF TreePast
  <2> QED BY <2>2, <2>3
<1>5. TMG!Next \/ UNCHANGED vars
  BY <1>1 DEF Next
<1> QED BY <1>3, <1>4, <1>5

\* Of every tree sketch: there is always a free level for the next tree, and
\* the forest and the running sketch together still hold the whole history.
THEOREM AnnalsInvariance == Spec => [](SketchInv /\ AnnalsKept)
<1>1. Init => SketchInv /\ AnnalsKept
  BY SketchInitial, AnnalsInitial
<1>2. SketchInv /\ AnnalsKept /\ [Next]_vars => (SketchInv /\ AnnalsKept)'
  BY SketchStep, AnnalsNext
<1> QED BY <1>1, <1>2, PTL DEF Spec

-----------------------------------------------------------------------------
(* The query: down a tree                                                  *)

Walking(f, root, mg, est, ts, m) ==
  f = [i \in 0 .. m |->
         IF i = 0 THEN [node |-> root, mg |-> mg, est |-> est, hit |-> FALSE]
         ELSE TMG!DescendTurn(f[i - 1], ts)]

LEMMA WalkingExists ==
  ASSUME NEW root, NEW mg, NEW est, NEW ts
  PROVE  \A m \in Nat : \E f : Walking(f, root, mg, est, ts, m)
<1> DEFINE W == {m \in Nat : \E f : Walking(f, root, mg, est, ts, m)}
<1>1. 0 \in W
  <2>1. PICK f : f = [i \in 0 .. 0 |-> [node |-> root, mg |-> mg, est |-> est, hit |-> FALSE]]
    OBVIOUS
  <2>2. Walking(f, root, mg, est, ts, 0)
    BY <2>1 DEF Walking
  <2> QED BY <2>2
<1>2. ASSUME NEW m \in W PROVE m + 1 \in W
  <2>1. PICK f : Walking(f, root, mg, est, ts, m)
    OBVIOUS
  <2>2. PICK g : g = [i \in 0 .. m + 1 |->
                        IF i = m + 1 THEN TMG!DescendTurn(f[m], ts) ELSE f[i]]
    OBVIOUS
  <2>3. ASSUME NEW i \in 0 .. m + 1
        PROVE  g[i] = IF i = 0 THEN [node |-> root, mg |-> mg, est |-> est, hit |-> FALSE]
                      ELSE TMG!DescendTurn(g[i - 1], ts)
    <3>1. CASE i = m + 1
      <4>1. i # 0 /\ i - 1 = m /\ m \in 0 .. m + 1 /\ m # m + 1
        BY <3>1
      <4>2. g[m] = f[m]
        BY <2>2, <4>1
      <4> QED BY <2>2, <3>1, <4>1, <4>2
    <3>2. CASE i # m + 1
      <4>1. i \in 0 .. m /\ (i # 0 => i - 1 \in 0 .. m + 1 /\ i - 1 # m + 1)
        BY <3>2
      <4>2. f[i] = IF i = 0 THEN [node |-> root, mg |-> mg, est |-> est, hit |-> FALSE]
                   ELSE TMG!DescendTurn(f[i - 1], ts)
        BY <2>1, <4>1 DEF Walking
      <4>3. g[i] = f[i] /\ (i # 0 => g[i - 1] = f[i - 1])
        BY <2>2, <3>2, <4>1
      <4> QED BY <4>2, <4>3
    <3> QED BY <3>1, <3>2
  <2>4. Walking(g, root, mg, est, ts, m + 1)
    BY <2>2, <2>3 DEF Walking
  <2> QED BY <2>4
<1> HIDE DEF W
<1>3. W = Nat
  <2>1. W \in SUBSET Nat
    BY DEF W
  <2> QED BY <1>1, <1>2, <2>1, NatSetInduction
<1> QED BY <1>3 DEF W

\* The walk at the node of st: it is of the time from s on; what was merged
\* on the way is the history from s0 to s.
WalkAt(n, G, R, ts, s0, mg, est, l, st, i, s, d) ==
  /\ <<st.node, s, d>> \in R /\ s \in 0 .. n /\ d \in Nat
  /\ ts < st.node.ts
  /\ st.node.kids = <<>> \/ d + i <= l
  /\ Holds(G, st.mg, s0, s)
  /\ st.hit => s <= ts /\ st.est = G[s].tot /\ LittleLeft(G[s])
  /\ ~st.hit => s = s0 /\ st.mg = mg /\ st.est = est

WalkOk(n, G, R, ts, s0, mg, est, l, st, i) ==
  \E s, d : WalkAt(n, G, R, ts, s0, mg, est, l, st, i, s, d)

WalkState(st) ==
  \E a, b, c, h : st = [node |-> a, mg |-> b, est |-> c, hit |-> h]

LEMMA TurnIsOk ==
  ASSUME NEW n \in Nat, NEW G \in [0 .. n -> Entry], NEW p \in Nat, NEW R, Forest(G, n, p, R),
         NEW ts \in 1 .. n, NEW s0 \in 0 .. n, NEW mg, NEW est, NEW l \in Nat,
         NEW st, NEW i \in Nat, WalkState(st),
         WalkOk(n, G, R, ts, s0, mg, est, l, st, i)
  PROVE  /\ WalkOk(n, G, R, ts, s0, mg, est, l, TMG!DescendTurn(st, ts), i + 1)
         /\ WalkState(TMG!DescendTurn(st, ts))
<1>0. PICK a, b, c, h : st = [node |-> a, mg |-> b, est |-> c, hit |-> h]
  BY DEF WalkState
<1>1. PICK s, d : WalkAt(n, G, R, ts, s0, mg, est, l, st, i, s, d)
  BY DEF WalkOk
<1>2. st.node = a /\ st.mg = b /\ st.est = c /\ st.hit = h
  BY <1>0
<1>3. /\ <<a, s, d>> \in R /\ s \in 0 .. n /\ d \in Nat
      /\ ts < a.ts
      /\ a.kids = <<>> \/ d + i <= l
      /\ Holds(G, b, s0, s)
      /\ h => s <= ts /\ c = G[s].tot /\ LittleLeft(G[s])
      /\ ~h => s = s0 /\ b = mg /\ c = est
  BY <1>1, <1>2 DEF WalkAt
<1>4. CASE a.kids = <<>>
  <2>1. TMG!DescendTurn(st, ts) = st
    BY <1>2, <1>4 DEF TMG!DescendTurn
  <2>2. WalkAt(n, G, R, ts, s0, mg, est, l, st, i + 1, s, d)
    BY <1>2, <1>3, <1>4 DEF WalkAt
  <2> QED BY <2>1, <2>2 DEF WalkOk
<1>5. CASE a.kids # <<>>
  <2>1. PICK left, right : left = a.kids[1] /\ right = a.kids[2]
    OBVIOUS
  <2>2. NodeOk(G, n, p, R, a, s, d)
    BY <1>3 DEF Forest
  <2>3. /\ d > 0 /\ left.mg # <<>> /\ right.ts = a.ts
        /\ <<left, s, d - 1>> \in R /\ <<right, left.ts, d - 1>> \in R
    BY <1>5, <2>1, <2>2 DEF NodeOk
  <2>4. NodeOk(G, n, p, R, left, s, d - 1)
    BY <2>3 DEF Forest
  <2>5. d - 1 \in Nat /\ (d - 1) + (i + 1) <= l
    BY <1>3, <1>5, <2>3
  <2>6. CASE left.ts > ts
    <3>1. PICK r : r = [node |-> left, mg |-> b, est |-> c, hit |-> h]
      OBVIOUS
    <3>2. r.node = left /\ r.mg = b /\ r.est = c /\ r.hit = h
      BY <3>1
    <3>3. TMG!DescendTurn(st, ts) = r
      <4>1. TMG!DescendTurn(st, ts) = [st EXCEPT !.node = left]
        BY <1>2, <1>5, <2>1, <2>6 DEF TMG!DescendTurn
      <4> QED BY <1>0, <3>1, <4>1
    <3>4. ts < left.ts
      <4>1. left.ts \in Nat
        BY <2>4 DEF NodeOk
      <4> QED BY <2>6, <4>1
    <3>5. WalkAt(n, G, R, ts, s0, mg, est, l, r, i + 1, s, d - 1)
      BY <1>3, <2>3, <2>5, <3>2, <3>4 DEF WalkAt
    <3> QED BY <3>1, <3>3, <3>5 DEF WalkOk, WalkState
  <2>7. CASE ~(left.ts > ts)
    <3>1. PICK q : q = TMG!Merged(b, left.mg[1])
      OBVIOUS
    <3>2. PICK r : r = [node |-> right, mg |-> q, est |-> left.tot, hit |-> TRUE]
      OBVIOUS
    <3>3. r.node = right /\ r.mg = q /\ r.est = left.tot /\ r.hit = TRUE
      BY <3>2
    <3>4. TMG!DescendTurn(st, ts) = r
      BY <1>2, <1>5, <2>1, <2>7, <3>1, <3>2 DEF TMG!DescendTurn, TMG!MergeNode
    <3>5. PICK u : u = left.ts
      OBVIOUS
    <3>6. /\ u \in 1 .. n /\ u \in 0 .. n /\ left.tot = G[u].tot /\ LittleLeft(G[u])
          /\ Holds(G, left.mg[1], s, u)
      BY <2>3, <2>4, <3>5 DEF NodeOk
    <3>7. u <= ts
      BY <2>7, <3>5, <3>6
    <3>8. Holds(G, q, s0, u)
      BY <1>3, <3>1, <3>6, HoldsBoth
    <3>9. WalkAt(n, G, R, ts, s0, mg, est, l, r, i + 1, u, d - 1)
      BY <1>3, <2>3, <2>5, <3>3, <3>5, <3>6, <3>7, <3>8 DEF WalkAt
    <3> QED BY <3>2, <3>4, <3>9 DEF WalkOk, WalkState
  <2> QED BY <2>6, <2>7
<1> QED BY <1>4, <1>5

\* Down to a leaf, whose time is shorter than a node's share.
LEMMA DescendIsOk ==
  ASSUME NEW n \in Nat, NEW G \in [0 .. n -> Entry], NEW p \in Nat, NEW R, Forest(G, n, p, R),
         NEW ts \in 1 .. n, NEW s0 \in 0 .. n, NEW mg, NEW est, NEW l \in TMG!Level,
         NEW root, <<root, s0, l>> \in R, ts < root.ts, Holds(G, mg, s0, s0)
  PROVE  LET r == TMG!Descend(root, mg, est, ts)
         IN \E s \in 0 .. n :
              /\ Holds(G, r.mg, s0, s) /\ G[ts].tot < G[s].tot + p
              /\ r.hit => s <= ts /\ r.est = G[s].tot /\ LittleLeft(G[s])
              /\ ~r.hit => s = s0 /\ r.mg = mg /\ r.est = est
<1>1. TreeLevels \in Nat /\ l \in Nat /\ l < TreeLevels
  BY TreeConstants DEF TMG!Level
<1> DEFINE f == CHOOSE g : Walking(g, root, mg, est, ts, TreeLevels)
<1>2. Walking(f, root, mg, est, ts, TreeLevels)
  BY <1>1, WalkingExists
<1>3. TMG!Descend(root, mg, est, ts) = f[TreeLevels]
  BY DEF TMG!Descend, Walking
<1> HIDE DEF f
<1>4. PICK st0 : st0 = [node |-> root, mg |-> mg, est |-> est, hit |-> FALSE]
  OBVIOUS
<1>5. /\ f[0] = st0
      /\ \A i \in 0 .. TreeLevels - 1 : f[i + 1] = TMG!DescendTurn(f[i], ts)
  <2>1. f[0] = st0
    BY <1>1, <1>2, <1>4 DEF Walking
  <2>2. ASSUME NEW i \in 0 .. TreeLevels - 1 PROVE f[i + 1] = TMG!DescendTurn(f[i], ts)
    <3>1. i + 1 \in 0 .. TreeLevels /\ i + 1 # 0 /\ (i + 1) - 1 = i
      BY <1>1
    <3> QED BY <1>2, <3>1 DEF Walking
  <2> QED BY <2>1, <2>2
<1> DEFINE W == {i \in Nat : i <= TreeLevels =>
                    WalkOk(n, G, R, ts, s0, mg, est, l, f[i], i) /\ WalkState(f[i])}
<1>6. 0 \in W
  <2>1. st0.node = root /\ st0.mg = mg /\ st0.est = est /\ st0.hit = FALSE
    BY <1>4
  <2>2. WalkAt(n, G, R, ts, s0, mg, est, l, st0, 0, s0, l)
    BY <1>1, <2>1 DEF WalkAt
  <2>3. WalkOk(n, G, R, ts, s0, mg, est, l, f[0], 0)
    BY <1>5, <2>2 DEF WalkOk
  <2>4. WalkState(f[0])
    BY <1>4, <1>5 DEF WalkState
  <2> QED BY <2>3, <2>4
<1>7. ASSUME NEW i \in W PROVE i + 1 \in W
  <2> SUFFICES ASSUME i + 1 <= TreeLevels
               PROVE  WalkOk(n, G, R, ts, s0, mg, est, l, f[i + 1], i + 1) /\ WalkState(f[i + 1])
    OBVIOUS
  <2>1. i \in Nat /\ i \in 0 .. TreeLevels - 1 /\ i <= TreeLevels
    BY <1>1
  <2>2. PICK st : st = f[i]
    OBVIOUS
  <2>3. WalkOk(n, G, R, ts, s0, mg, est, l, st, i) /\ WalkState(st)
    BY <2>1, <2>2
  <2>5. f[i + 1] = TMG!DescendTurn(st, ts)
    BY <1>5, <2>1, <2>2
  <2> QED BY <1>1, <2>1, <2>3, <2>5, TurnIsOk
<1> HIDE DEF W
<1>8. W = Nat
  <2>1. W \in SUBSET Nat
    BY DEF W
  <2> QED BY <1>6, <1>7, <2>1, NatSetInduction
<1>9. PICK r : r = TMG!Descend(root, mg, est, ts)
  OBVIOUS
<1>10. WalkOk(n, G, R, ts, s0, mg, est, l, r, TreeLevels)
  BY <1>1, <1>3, <1>8, <1>9 DEF W
<1>11. PICK s, d : WalkAt(n, G, R, ts, s0, mg, est, l, r, TreeLevels, s, d)
  BY <1>10 DEF WalkOk
<1>12. /\ <<r.node, s, d>> \in R /\ s \in 0 .. n /\ d \in Nat /\ ts < r.node.ts
       /\ r.node.kids = <<>> \/ d + TreeLevels <= l
       /\ Holds(G, r.mg, s0, s)
       /\ r.hit => s <= ts /\ r.est = G[s].tot /\ LittleLeft(G[s])
       /\ ~r.hit => s = s0 /\ r.mg = mg /\ r.est = est
  BY <1>11 DEF WalkAt
<1>13. r.node.kids = <<>>
  BY <1>1, <1>12
<1>14. NodeOk(G, n, p, R, r.node, s, d)
  BY <1>12 DEF Forest
<1>15. G[ts].tot < G[s].tot + p
  <2>1. ts \in 0 .. n
    OBVIOUS
  <2> QED BY <1>12, <1>13, <1>14, <2>1 DEF NodeOk
<1> QED BY <1>9, <1>12, <1>15

-----------------------------------------------------------------------------
(* The query: over the trees                                               *)

Asked(ts) ==
  IF ts >= lastTs THEN [found |-> TRUE, mg |-> sk, est |-> tot]
  ELSE [found |-> FALSE, mg |-> TMG!EmptySketch, est |-> 0]

Searching(f, ts, m) ==
  f = [i \in 0 .. m |-> IF i > 0 THEN TMG!SearchTurn(f[i - 1], i - 1, ts) ELSE Asked(ts)]

LEMMA SearchingExists ==
  ASSUME NEW ts
  PROVE  \A m \in Nat : \E f : Searching(f, ts, m)
<1> DEFINE W == {m \in Nat : \E f : Searching(f, ts, m)}
<1>1. 0 \in W
  <2>1. PICK f : f = [i \in 0 .. 0 |-> Asked(ts)]
    OBVIOUS
  <2>2. Searching(f, ts, 0)
    BY <2>1 DEF Searching
  <2> QED BY <2>2
<1>2. ASSUME NEW m \in W PROVE m + 1 \in W
  <2>1. PICK f : Searching(f, ts, m)
    OBVIOUS
  <2>2. PICK g : g = [i \in 0 .. m + 1 |->
                        IF i = m + 1 THEN TMG!SearchTurn(f[m], m, ts) ELSE f[i]]
    OBVIOUS
  <2>3. ASSUME NEW i \in 0 .. m + 1
        PROVE  g[i] = IF i > 0 THEN TMG!SearchTurn(g[i - 1], i - 1, ts) ELSE Asked(ts)
    <3>1. CASE i = m + 1
      <4>1. i > 0 /\ i - 1 = m /\ m \in 0 .. m + 1 /\ m # m + 1
        BY <3>1
      <4>2. g[m] = f[m]
        BY <2>2, <4>1
      <4> QED BY <2>2, <3>1, <4>1, <4>2
    <3>2. CASE i # m + 1
      <4>1. i \in 0 .. m /\ (i > 0 => i - 1 \in 0 .. m + 1 /\ i - 1 # m + 1)
        BY <3>2
      <4>2. f[i] = IF i > 0 THEN TMG!SearchTurn(f[i - 1], i - 1, ts) ELSE Asked(ts)
        BY <2>1, <4>1 DEF Searching
      <4>3. g[i] = f[i] /\ (i > 0 => g[i - 1] = f[i - 1])
        BY <2>2, <3>2, <4>1
      <4> QED BY <4>2, <4>3
    <3> QED BY <3>1, <3>2
  <2>4. Searching(g, ts, m + 1)
    BY <2>2, <2>3 DEF Searching
  <2> QED BY <2>4
<1> HIDE DEF W
<1>3. W = Nat
  <2>1. W \in SUBSET Nat
    BY DEF W
  <2> QED BY <1>1, <1>2, <2>1, NatSetInduction
<1> QED BY <1>3 DEF W

\* The part of the history up to s, from u on, answers for ts.
Answers(n, G, p, ts, u, mg, est, s) ==
  /\ s \in 0 .. n /\ s <= ts /\ est = G[s].tot
  /\ Holds(G, mg, u, s) /\ LittleLeft(G[s]) /\ G[ts].tot < est + p

\* The search, when the trees that are newer than the time u are done.
SearchOk(n, G, p, ts, u, st) ==
  /\ \E a, b, c : st = [found |-> a, mg |-> b, est |-> c]
  /\ st.found => \E s : Answers(n, G, p, ts, u, st.mg, st.est, s)
  /\ ~st.found => st.mg = TMG!EmptySketch /\ st.est = 0 /\ G[ts].tot < G[u].tot + p

LEMMA SearchTurnIsOk ==
  ASSUME ForestTypes, Rooted, TMG!NothingBelowLevel,
         NEW n \in Nat, NEW G \in [0 .. n -> Entry], NEW p \in Nat, NEW R, Forest(G, n, p, R),
         NEW at, Spans(n, R, at), NEW ts \in 1 .. n, NEW l \in TMG!Level,
         NEW st, SearchOk(n, G, p, ts, at[l], st)
  PROVE  SearchOk(n, G, p, ts, at[l + 1], TMG!SearchTurn(st, l, ts))
<1>1. PICK a, b, c : st = [found |-> a, mg |-> b, est |-> c]
  BY DEF SearchOk
<1>2. st.found = a /\ st.mg = b /\ st.est = c
  BY <1>1
<1>3. /\ a => \E s : Answers(n, G, p, ts, at[l], b, c, s)
      /\ ~a => b = TMG!EmptySketch /\ c = 0 /\ G[ts].tot < G[at[l]].tot + p
  BY <1>2 DEF SearchOk
<1>4. PICK u, v : u = at[l] /\ v = at[l + 1]
  OBVIOUS
<1>5. u \in 0 .. n /\ v \in 0 .. n
  <2>1. l \in 0 .. TreeLevels /\ l + 1 \in 0 .. TreeLevels
    BY TreeConstants DEF TMG!Level
  <2> QED BY <1>4, <2>1 DEF Spans
<1>6. CASE l < level \/ tree[l] = <<>>
  <2>1. tree[l] = <<>>
    BY <1>6 DEF TMG!NothingBelowLevel
  <2>2. u = v
    BY <1>4, <2>1 DEF Spans
  <2>3. TMG!SearchTurn(st, l, ts) = st
    BY <1>6 DEF TMG!SearchTurn
  <2> QED BY <1>4, <2>2, <2>3
<1>7. CASE ~(l < level \/ tree[l] = <<>>)
  <2>1. PICK node : node = tree[l][1]
    OBVIOUS
  <2>2. node.ts = u /\ <<node, v, l>> \in R /\ node.mg # <<>>
    BY <1>4, <1>7, <2>1 DEF Spans, Rooted
  <2>3. NodeOk(G, n, p, R, node, v, l)
    BY <2>2 DEF Forest
  <2>4. Holds(G, node.mg[1], v, u) /\ node.tot = G[u].tot /\ LittleLeft(G[u])
    BY <2>2, <2>3 DEF NodeOk
  <2>5. PICK q : q = TMG!Merged(b, node.mg[1])
    OBVIOUS
  <2>6. CASE a
    <3>1. PICK s : Answers(n, G, p, ts, u, b, c, s)
      BY <1>3, <1>4, <2>6
    <3>2. PICK r : r = [found |-> a, mg |-> q, est |-> c]
      OBVIOUS
    <3>3. r.found = a /\ r.mg = q /\ r.est = c
      BY <3>2
    <3>4. TMG!SearchTurn(st, l, ts) = r
      <4>1. TMG!SearchTurn(st, l, ts) = [st EXCEPT !.mg = TMG!MergeNode(@, node)]
        BY <1>2, <1>7, <2>1, <2>6 DEF TMG!SearchTurn
      <4>2. [st EXCEPT !.mg = TMG!MergeNode(@, node)] = [st EXCEPT !.mg = q]
        BY <1>1, <1>2, <2>5 DEF TMG!MergeNode
      <4> QED BY <1>1, <3>2, <4>1, <4>2
    <3>5. Holds(G, q, v, s)
      <4>1. s \in 0 .. n /\ Holds(G, b, u, s)
        BY <3>1 DEF Answers
      <4> QED BY <1>5, <2>4, <2>5, <4>1, HoldsBoth
    <3>6. Answers(n, G, p, ts, v, q, c, s)
      BY <3>1, <3>5 DEF Answers
    <3> QED BY <1>4, <2>6, <3>2, <3>3, <3>4, <3>6 DEF SearchOk
  <2>7. CASE ~a /\ node.ts <= ts
    <3>1. PICK r : r = [found |-> TRUE, mg |-> q, est |-> node.tot]
      OBVIOUS
    <3>2. r.found = TRUE /\ r.mg = q /\ r.est = node.tot
      BY <3>1
    <3>3. TMG!SearchTurn(st, l, ts) = r
      BY <1>2, <1>7, <2>1, <2>5, <2>7, <3>1 DEF TMG!SearchTurn, TMG!MergeNode
    <3>4. Holds(G, q, v, u)
      <4>1. Holds(G, b, u, u)
        BY <1>3, <1>5, <2>7, NothingHeld
      <4> QED BY <1>5, <2>4, <2>5, <4>1, HoldsBoth
    <3>5. Answers(n, G, p, ts, v, q, node.tot, u)
      BY <1>3, <1>4, <1>5, <2>2, <2>4, <2>7, <3>4 DEF Answers
    <3> QED BY <1>4, <3>1, <3>2, <3>3, <3>5 DEF SearchOk
  <2>8. CASE ~a /\ ~(node.ts <= ts)
    <3>1. PICK r : r = TMG!Descend(node, b, c, ts)
      OBVIOUS
    <3>2. PICK t : t = [found |-> r.hit, mg |-> r.mg, est |-> r.est]
      OBVIOUS
    <3>3. t.found = r.hit /\ t.mg = r.mg /\ t.est = r.est
      BY <3>2
    <3>4. TMG!SearchTurn(st, l, ts) = t
      BY <1>2, <1>7, <2>1, <2>8, <3>1, <3>2 DEF TMG!SearchTurn
    <3>5. PICK s \in 0 .. n :
            /\ Holds(G, r.mg, v, s) /\ G[ts].tot < G[s].tot + p
            /\ r.hit => s <= ts /\ r.est = G[s].tot /\ LittleLeft(G[s])
            /\ ~r.hit => s = v /\ r.mg = b /\ r.est = c
      <4>1. ts < node.ts
        BY <1>5, <2>2, <2>8
      <4>2. Holds(G, b, v, v)
        BY <1>3, <1>5, <2>8, NothingHeld
      <4>3. LET r2 == TMG!Descend(node, b, c, ts)
            IN \E s \in 0 .. n :
                 /\ Holds(G, r2.mg, v, s) /\ G[ts].tot < G[s].tot + p
                 /\ r2.hit => s <= ts /\ r2.est = G[s].tot /\ LittleLeft(G[s])
                 /\ ~r2.hit => s = v /\ r2.mg = b /\ r2.est = c
        BY <1>5, <2>2, <3>1, <4>1, <4>2, DescendIsOk, SMTT(30)
      <4> QED BY <3>1, <4>3
    <3>6. r.hit => Answers(n, G, p, ts, v, r.mg, r.est, s)
      BY <3>5 DEF Answers
    <3>7. ~r.hit => r.mg = TMG!EmptySketch /\ r.est = 0 /\ G[ts].tot < G[v].tot + p
      BY <1>3, <2>8, <3>5
    <3> QED BY <1>4, <3>2, <3>3, <3>4, <3>6, <3>7 DEF SearchOk
  <2> QED BY <2>6, <2>7, <2>8
<1> QED BY <1>6, <1>7

\* The answer for ts is a sketch of the whole history up to some earlier s.
LEMMA AnswerIsOk ==
  ASSUME ForestTypes, Rooted, TMG!NothingBelowLevel, level \in 0 .. TreeLevels, perNode \in Nat,
         NEW n, NEW G, NEW R, NEW at, NEW b, Remembered(n, G), InForest(n, G, R, at, b),
         NEW ts \in 1 .. n
  PROVE  \E s : Answers(n, G, perNode, ts, 0, TMG!AnswerAt(ts).mg, TMG!AnswerAt(ts).est, s)
<1>1. /\ n \in Nat /\ G \in [0 .. n -> Entry] /\ lastTs \in Nat /\ ts < lastTs
      /\ TreeLevels \in Nat /\ ts \in 0 .. n
      /\ G[0].tot = 0 /\ G[0].w = 0 /\ \A x \in Key : G[0].f[x] = 0 /\ G[0].exact[x] = 0
  BY TreeConstants DEF Remembered, Ascends, ForestTypes
<1>2. /\ Forest(G, n, perNode, R) /\ Spans(n, R, at) /\ at[0] = b
      /\ target = G[b].tot + perNode /\ G[ts].tot < target /\ at[TreeLevels] = 0
  BY <1>1 DEF InForest, Spans
<1> DEFINE f == CHOOSE g : Searching(g, ts, TreeLevels)
<1>3. Searching(f, ts, TreeLevels)
  BY <1>1, SearchingExists
<1>4. TMG!AnswerAt(ts) = f[TreeLevels]
  BY DEF TMG!AnswerAt, Searching, Asked
<1> HIDE DEF f
<1>5. /\ f[0] = Asked(ts)
      /\ \A i \in 0 .. TreeLevels - 1 : f[i + 1] = TMG!SearchTurn(f[i], i, ts)
  <2>1. f[0] = Asked(ts)
    BY <1>1, <1>3 DEF Searching
  <2>2. ASSUME NEW i \in 0 .. TreeLevels - 1 PROVE f[i + 1] = TMG!SearchTurn(f[i], i, ts)
    <3>1. i + 1 \in 0 .. TreeLevels /\ i + 1 > 0 /\ (i + 1) - 1 = i
      BY <1>1
    <3> QED BY <1>3, <3>1 DEF Searching
  <2> QED BY <2>1, <2>2
<1> DEFINE W == {i \in Nat : i <= TreeLevels => SearchOk(n, G, perNode, ts, at[i], f[i])}
<1>6. 0 \in W
  <2>1. PICK st : st = [found |-> FALSE, mg |-> TMG!EmptySketch, est |-> 0]
    OBVIOUS
  <2>2. f[0] = st
    BY <1>1, <1>5, <2>1 DEF Asked
  <2>3. st.found = FALSE /\ st.mg = TMG!EmptySketch /\ st.est = 0
    BY <2>1
  <2>4. SearchOk(n, G, perNode, ts, at[0], st)
    BY <1>2, <2>1, <2>3 DEF SearchOk
  <2> QED BY <2>2, <2>4
<1>7. ASSUME NEW i \in W PROVE i + 1 \in W
  <2> SUFFICES ASSUME i + 1 <= TreeLevels
               PROVE  SearchOk(n, G, perNode, ts, at[i + 1], f[i + 1])
    OBVIOUS
  <2>1. i \in 0 .. TreeLevels - 1 /\ i \in TMG!Level /\ SearchOk(n, G, perNode, ts, at[i], f[i])
    BY <1>1 DEF TMG!Level
  <2> HIDE DEF W
  <2> QED BY <1>1, <1>2, <1>5, <2>1, SearchTurnIsOk
<1> HIDE DEF W
<1>8. W = Nat
  <2>1. W \in SUBSET Nat
    BY DEF W
  <2> QED BY <1>6, <1>7, <2>1, NatSetInduction
<1>9. PICK r : r = TMG!AnswerAt(ts)
  OBVIOUS
<1>10. SearchOk(n, G, perNode, ts, 0, r)
  BY <1>1, <1>2, <1>4, <1>8, <1>9 DEF W
<1>11. CASE r.found
  BY <1>9, <1>10, <1>11 DEF SearchOk
<1>12. CASE ~r.found
  <2>1. r.mg = TMG!EmptySketch /\ r.est = 0 /\ G[ts].tot < G[0].tot + perNode
    BY <1>10, <1>12 DEF SearchOk
  <2>2. Holds(G, TMG!EmptySketch, 0, 0)
    BY <1>1, NothingHeld
  <2>3. LittleLeft(G[0])
    <3>1. EpsDen * 0 <= EpsDen * 0 + EpsNum * 0
      BY TreeConstants
    <3> QED BY <1>1, <3>1 DEF LittleLeft
  <2>4. Answers(n, G, perNode, ts, 0, r.mg, r.est, 0)
    BY <1>1, <2>1, <2>2, <2>3 DEF Answers
  <2> QED BY <1>9, <2>4
<1> QED BY <1>11, <1>12

-----------------------------------------------------------------------------
(* What an answer about the past is worth                                  *)

LEMMA Multiplied ==
  \A a, b \in Int, c \in Nat : a <= b => c * a <= c * b
OBVIOUS

\* The two errors of an answer: little was left of the counts when the leaf
\* ended, and the sketches declined at most 1/k of the weight.
LEMMA ErrorsAddUp ==
  ASSUME NEW k \in Nat, NEW den \in Nat, NEW num \in Nat,
         NEW xs \in Nat, NEW xt \in Nat, NEW f \in Nat, NEW c \in Nat, NEW e \in Nat,
         NEW w \in Nat, NEW ss \in Nat, NEW tt \in Nat,
         xt + ss <= xs + tt, den * xs <= den * f + num * ss, f <= c + e,
         k * e <= w, w <= ss
  PROVE  k * den * ((xt - c) - (tt - ss)) <= (den + k * num) * ss
<1>1. PICK i \in Int, j \in Int : i = (xt - c) - (tt - ss) /\ j = xs - c /\ i <= j
  OBVIOUS
<1>2. den * i <= den * j
  BY <1>1, Multiplied
<1>3. den * j <= den * e + num * ss
  <2>1. den * f <= den * (c + e)
    BY Multiplied
  <2>2. den * (c + e) = den * c + den * e
    OBVIOUS
  <2>3. den * j = den * xs - den * c
    BY <1>1
  <2>4. PICK a \in Int, b \in Int, g \in Int, h \in Int, m \in Int :
          a = den * xs /\ b = den * c /\ g = den * f /\ h = den * e /\ m = num * ss
    OBVIOUS
  <2> QED BY <2>1, <2>2, <2>3, <2>4
<1>4. PICK a \in Int, h \in Int, m \in Int : a = den * i /\ h = den * e /\ m = num * ss
  BY <1>1
<1>5. a <= h + m
  <2>1. PICK g \in Int : g = den * j
    BY <1>1
  <2> QED BY <1>2, <1>3, <1>4, <2>1
<1>6. k * a <= k * (h + m)
  BY <1>4, <1>5, Multiplied
<1>7. k * (h + m) = k * h + k * m
  OBVIOUS
<1>8. k * h <= den * ss
  <2>1. k * h = den * (k * e)
    BY <1>4
  <2>2. PICK q \in Nat : q = k * e
    OBVIOUS
  <2>3. den * q <= den * ss
    BY <2>2, Multiplied
  <2> QED BY <2>1, <2>2, <2>3
<1>9. (den + k * num) * ss = den * ss + k * m
  <2>1. (den + k * num) * ss = den * ss + (k * num) * ss
    OBVIOUS
  <2>2. (k * num) * ss = k * (num * ss)
    OBVIOUS
  <2> QED BY <1>4, <2>1, <2>2
<1>10. k * den * i = k * a
  BY <1>1, <1>4
<1>11. PICK y \in Int, z \in Int, v \in Int, t \in Int :
         y = k * h /\ z = k * m /\ v = den * ss /\ t = k * a
  BY <1>4
<1>12. t <= v + z
  BY <1>6, <1>7, <1>8, <1>11
<1>13. k * den * i <= (den + k * num) * ss
  BY <1>9, <1>10, <1>11, <1>12
<1> QED BY <1>1, <1>13

LEMMA AnswerIsClose ==
  ASSUME NEW n \in Nat, NEW G, Ascends(G, n), NEW p, NEW ts \in 1 .. n,
         NEW mg, NEW est, NEW s, Answers(n, G, p, ts, 0, mg, est, s)
  PROVE  /\ G[ts].tot - est >= 0 /\ G[ts].tot < est + p
         /\ est \in Nat /\ G[ts].tot \in Nat
         /\ \A x \in Key :
              /\ G[ts].exact[x] - mg.cnt[x] >= 0
              /\ K * EpsDen * ((G[ts].exact[x] - mg.cnt[x]) - (G[ts].tot - est))
                   <= (EpsDen + K * EpsNum) * est
<1>1. /\ s \in 0 .. n /\ s <= ts /\ est = G[s].tot /\ LittleLeft(G[s])
      /\ G[ts].tot < est + p /\ Holds(G, mg, 0, s)
  BY DEF Answers
<1>2. /\ G \in [0 .. n -> Entry] /\ 0 \in 0 .. n /\ ts \in 0 .. n
      /\ G[0].w = 0 /\ \A x \in Key : G[0].f[x] = 0
  BY DEF Ascends
<1>3. G[s] \in Entry /\ G[ts] \in Entry
  BY <1>1, <1>2
<1>4. /\ G[s].tot \in Nat /\ G[ts].tot \in Nat /\ G[s].w \in Nat
      /\ G[s].exact \in [Key -> Nat] /\ G[ts].exact \in [Key -> Nat] /\ G[s].f \in [Key -> Nat]
  BY <1>3 DEF Entry
<1>5. /\ G[s].tot <= G[ts].tot
      /\ \A x \in Key : /\ G[s].exact[x] <= G[ts].exact[x]
                        /\ G[ts].exact[x] + G[s].tot <= G[s].exact[x] + G[ts].tot
  BY <1>1, <1>2 DEF Ascends
<1>6. PICK f, w : AtRest(mg, f, w) /\ IsSumOf(G[s].f, G[0].f, f) /\ G[s].w = G[0].w + w
  BY <1>1 DEF Holds
<1>7. /\ mg \in MG!SketchValue /\ mg.delta = 0 /\ f \in [Key -> Nat] /\ w \in Nat
      /\ \A x \in Key : G[s].f[x] = f[x]
      /\ G[s].w = w
  <2>1. mg \in MG!SketchValue /\ mg.delta = 0 /\ f \in [Key -> Nat] /\ w \in Nat
    BY <1>6 DEF AtRest
  <2>2. \A x \in Key : f[x] \in Nat /\ G[s].f[x] = 0 + f[x]
    BY <1>2, <1>6, <2>1 DEF IsSumOf
  <2>3. G[s].w = 0 + w
    BY <1>2, <1>6
  <2> QED BY <2>1, <2>2, <2>3
<1>8. PICK e \in Nat : MG!Sound(mg, f, e) /\ MG!Mass(mg, e, w, K)
  BY <1>6 DEF AtRest
<1>9. mg.cnt \in [Key -> Nat]
  BY <1>7 DEF MG!SketchValue
<1>10. K * e <= w
  <2>1. K * (e - mg.delta) + mg.delta + MG!Sum(mg.cnt, Key) <= w
    BY <1>8 DEF MG!Mass
  <2>2. MG!Sum(mg.cnt, Key) \in Nat
    BY <1>9, TreeConstants, MG!CountSum
  <2>3. PICK a \in Nat, b \in Nat : a = K * e /\ b = MG!Sum(mg.cnt, Key)
    <3>1. PICK k \in Nat : k = K
      BY TreeConstants
    <3>2. k * e \in Nat
      OBVIOUS
    <3> QED BY <2>2, <3>1, <3>2
  <2>4. K * (e - mg.delta) = a
    BY <1>7, <2>3
  <2> QED BY <1>7, <2>1, <2>3, <2>4
<1>11. ASSUME NEW x \in Key PROVE mg.cnt[x] <= f[x] /\ f[x] <= mg.cnt[x] + e
  <2>1. /\ mg.cnt[x] <= f[x]
        /\ x \in MG!InTable(mg.cnt) => f[x] <= mg.cnt[x] + e - mg.delta
        /\ x \notin MG!InTable(mg.cnt) => f[x] <= e
    BY <1>8 DEF MG!Sound
  <2>2. mg.cnt[x] \in Nat /\ f[x] \in Nat
    BY <1>7, <1>9
  <2> QED BY <1>7, <2>1, <2>2
<1>12. w <= G[s].tot /\ \A x \in Key : /\ f[x] <= G[s].exact[x]
                                     /\ EpsDen * G[s].exact[x] <= EpsDen * f[x] + EpsNum * G[s].tot
  BY <1>1, <1>7 DEF LittleLeft
<1>13. ASSUME NEW x \in Key
       PROVE  /\ G[ts].exact[x] - mg.cnt[x] >= 0
              /\ K * EpsDen * ((G[ts].exact[x] - mg.cnt[x]) - (G[ts].tot - est))
                   <= (EpsDen + K * EpsNum) * est
  <2>1. PICK xs \in Nat, xt \in Nat, c \in Nat, g \in Nat, ss \in Nat, tt \in Nat :
          /\ xs = G[s].exact[x] /\ xt = G[ts].exact[x] /\ c = mg.cnt[x] /\ g = f[x]
          /\ ss = G[s].tot /\ tt = G[ts].tot
    BY <1>4, <1>7, <1>9
  <2>2. /\ xt + ss <= xs + tt /\ xs <= xt /\ c <= g /\ g <= xs /\ g <= c + e /\ w <= ss
        /\ EpsDen * xs <= EpsDen * g + EpsNum * ss
    BY <1>5, <1>11, <1>12, <2>1
  <2>3. K * EpsDen * ((xt - c) - (tt - ss)) <= (EpsDen + K * EpsNum) * ss
    BY <1>7, <1>10, <2>1, <2>2, TreeConstants, ErrorsAddUp
  <2>4. xt - c >= 0
    BY <2>1, <2>2
  <2> QED BY <1>1, <2>1, <2>3, <2>4
<1> QED BY <1>1, <1>4, <1>5, <1>13

LEMMA PastIsClose ==
  ASSUME ForestInv, RoomInv, TreePast
  PROVE  TMG!PastWithinEps
<1>1. PICK n, G, R, at, b : Remembered(n, G) /\ Running(G, b) /\ InForest(n, G, R, at, b)
  BY DEF TreePast
<1>2. /\ n \in Nat /\ Len(closed) = n /\ Ascends(G, n)
      /\ \A t \in 1 .. n : closed[t].exact = G[t].exact /\ closed[t].tot = G[t].tot
  BY <1>1 DEF Remembered
<1>3. /\ ForestTypes /\ Rooted /\ TMG!NothingBelowLevel
      /\ level \in 0 .. TreeLevels /\ perNode \in Nat
  BY TwoToIs, TreeConstants DEF ForestInv, ForestTypes, RoomInv
<1>4. ASSUME NEW ts \in 1 .. n
      PROVE  LET a == TMG!AnswerAt(ts)
                 tail == closed[ts].tot - a.est
             IN /\ tail >= 0 /\ tail < perNode
                /\ \A x \in Key :
                     LET short == closed[ts].exact[x] - a.mg.cnt[x]
                     IN /\ short >= 0
                        /\ K * EpsDen * (short - tail) <= (EpsDen + K * EpsNum) * a.est
  <2>1. PICK a : a = TMG!AnswerAt(ts)
    OBVIOUS
  <2>2. PICK s : Answers(n, G, perNode, ts, 0, a.mg, a.est, s)
    BY <1>1, <1>3, <2>1, AnswerIsOk
  <2>3. PICK mg, est : mg = a.mg /\ est = a.est
    OBVIOUS
  <2>4. /\ G[ts].tot - est >= 0 /\ G[ts].tot < est + perNode
        /\ est \in Nat /\ G[ts].tot \in Nat
        /\ \A x \in Key :
             /\ G[ts].exact[x] - mg.cnt[x] >= 0
             /\ K * EpsDen * ((G[ts].exact[x] - mg.cnt[x]) - (G[ts].tot - est))
                  <= (EpsDen + K * EpsNum) * est
    BY <1>2, <2>2, <2>3, AnswerIsClose
  <2>5. G[ts].tot - est < perNode
    BY <1>3, <2>4
  <2>6. closed[ts].exact = G[ts].exact /\ closed[ts].tot = G[ts].tot
    BY <1>2
  <2> QED BY <2>1, <2>3, <2>4, <2>5, <2>6
<1> QED BY <1>2, <1>4 DEF TMG!PastWithinEps, TMG!Closed

\* What a tree sketch answers about a finished timestamp is never above the
\* truth; what came since the last leaf it can use weighs less than a node's
\* share; and up to that leaf no key is short by more than what the threshold
\* is lowered by: for any keys, error, number of levels and stream.
THEOREM TreeAnswersWithinEps == Spec => [](class = "TMG" => TMG!PastWithinEps)
<1>1. SketchInv /\ AnnalsKept => (class = "TMG" => TMG!PastWithinEps)
  BY PastIsClose DEF SketchInv, AnnalsKept
<1> QED BY <1>1, AnnalsInvariance, PTL

\* The error bounds of the two classes that answer about the past, together.
\* For the chain, 1/k and twice eps/3 of the weight, eps in all: more than the
\* 2 eps/3 by which get_heavy_hitters lowers its threshold (pmmg.cpp:680), so
\* this says how far a counter can be off, not that no heavy hitter is missed.
\* For the forest, 1/k and eps/3, which is what its threshold is lowered by,
\* not counting what came after the last leaf or tree that can be used.
THEOREM PastAnswersWithinEps ==
  ASSUME ChainWeights \subseteq {1}
  PROVE  Spec => []PastWithinEps
<1>1. (class = "CMG" => CMG!PastWithinEps) /\ (class = "TMG" => TMG!PastWithinEps)
        => PastWithinEps
  BY DEF PastWithinEps
<1> QED BY <1>1, ChainAnswersWithinEps, TreeAnswersWithinEps, PTL
=============================================================================
