------------------------------ MODULE MinHeap ------------------------------
(***************************************************************************)
(* The array heaps of min_heap.h, as operators on a sequence h of items,   *)
(* ordered by key (a function from items to integers); indices start at 1. *)
(* A max heap is a min heap over the negated keys.  The inverted index of  *)
(* the code, which is rewritten together with every array slot, is the     *)
(* operator Position.                                                      *)
(***************************************************************************)
EXTENDS Integers, Sequences, FiniteSetsExt

Position(h, x) == CHOOSE i \in 1 .. Len(h) : h[i] = x

\* A slot and the slots above it.
Chain[i \in Nat \ {0}] == IF i = 1 THEN {1} ELSE {i} \cup Chain[i \div 2]

\* The hole left by the item of slot i goes up as long as it meets larger items.
PushUp(h, key, i) ==
  LET top == Min({j \in Chain[i] :
                    \A k \in Chain[i] : k > j => key[h[i]] < key[h[k \div 2]]})
  IN [j \in 1 .. Len(h) |->
        IF j = top THEN h[i]
        ELSE IF j \in Chain[i] /\ j > top THEN h[j \div 2] ELSE h[j]]

\* The smaller child of slot j, the left one if they are equal.
SmallerChild(h, key, j) ==
  IF 2 * j < Len(h) /\ key[h[2 * j + 1]] < key[h[2 * j]] THEN 2 * j + 1 ELSE 2 * j

\* The hole goes down, always to the smaller child, as long as that is
\* smaller than the item.
PushDown(h, key, i) ==
  LET Child(j) == SmallerChild(h, key, j)
      bottom == Max({j \in 1 .. Len(h) :
                       /\ i \in Chain[j]
                       /\ \A k \in Chain[j] :
                            k > i => k = Child(k \div 2) /\ key[h[k]] < key[h[i]]})
  IN [j \in 1 .. Len(h) |->
        IF j = bottom THEN h[i]
        ELSE IF j \in Chain[bottom] /\ j >= i THEN h[Child(j)] ELSE h[j]]

\* mark_updated: the key of slot i changed in either direction.
MarkUpdated(h, key, i) == PushDown(PushUp(h, key, i), key, i)

\* push_back, then push_up.
HeapInsert(h, key, x) == PushUp(Append(h, x), key, Len(h) + 1)

\* The last item takes the slot, then pop_back.
HeapRemove(h, key, i) ==
  LET n == Len(h)
      short == SubSeq(h, 1, n - 1)
  IN IF i = n THEN short ELSE MarkUpdated([short EXCEPT ![i] = h[n]], key, i)

IsHeap(h, key) == \A i \in 2 .. Len(h) : key[h[i \div 2]] <= key[h[i]]
=============================================================================
