----------------------------- MODULE SortedBag -----------------------------
(***************************************************************************)
(* What a container of avl_container.h promises: its elements in the order *)
(* of their keys, an element inserted without a hint after its equals, and *)
(* a removal that disturbs the order of nothing else.                      *)
(***************************************************************************)
EXTENDS Integers, SequencesExt

CONSTANTS
  Elem, KeyOf,
  MaxBatch      \* bound on the elements inserted in one step

VARIABLE seq      \* the elements in iteration order

Sorted(s) == \A i, j \in 1 .. Len(s) : i < j => KeyOf[s[i]] <= KeyOf[s[j]]
Absent == Elem \ ToSet(seq)

Init == Sorted(seq) /\ IsInjective(seq)

AfterEquals(s, e) ==
  InsertAt(s, Len(SelectSeq(s, LAMBDA x : KeyOf[x] <= KeyOf[e])) + 1, e)

\* Elements go in one after the other, each after its equals.
Insert == \E new \in UNION {[1 .. n -> Absent] : n \in 1 .. MaxBatch} :
            /\ IsInjective(new)
            /\ seq' = FoldLeft(AfterEquals, seq, new)

InsertAmongEquals ==
  \E e \in Absent, i \in 1 .. Len(seq) + 1 :
    seq' = InsertAt(seq, i, e) /\ Sorted(seq')

Erase == \E gone \in SUBSET ToSet(seq) : seq' = SelectSeq(seq, LAMBDA e : e \notin gone)

Next == Insert \/ InsertAmongEquals \/ Erase
Spec == Init /\ [][Next]_seq
=============================================================================
