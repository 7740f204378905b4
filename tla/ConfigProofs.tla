---------------------------- MODULE ConfigProofs ----------------------------
(***************************************************************************)
(* What Config says of accepted files, of exceptions and of the sketches   *)
(* of the set-up, proved for every list of declared entries that looks     *)
(* like config_list.h, every file and every capacity of a list.            *)
(*                                                                         *)
(* Everything rests on Coherent: while no line was refused, every entry    *)
(* reads as the file last said, except the one whose list is being read,   *)
(* which holds the values so far (Partial).  A refused line ends that, and *)
(* a file with a refused line is neither accepted nor blamed on the code.  *)
(***************************************************************************)
EXTENDS Config, TLAPS

IsSeq(s) == s \in Seq({s[i] : i \in DOMAIN s})

\* An entry has its four fields, whatever its variant holds.
IsEntry(e) ==
    /\ e = [assigned |-> e.assigned, isList |-> e.isList,
            length |-> e.length, value |-> e.value]
    /\ e.assigned \in BOOLEAN /\ e.isList \in BOOLEAN /\ e.length \in Nat

\* The variant holds a list with room for at least what was stored.
HoldsList(e) ==
    /\ e.isList
    /\ e.value = [tag |-> "list", at |-> e.value.at]
    /\ IsSeq(e.value.at)
    /\ Len(e.value.at) >= ListCapacity
    /\ e.length <= Len(e.value.at)

\* The first values of the array are those of s, and they are its length.
Stores(e, s) ==
    /\ HoldsList(e)
    /\ IsSeq(s) /\ e.length = Len(s)
    /\ \A i \in 1..Len(s) : e.value.at[i] = s[i]

HoldsScalar(e, v) ==
    /\ ~e.isList
    /\ e.value = [tag |-> "scalar", at |-> v]

\* A value that get returned and that is not the absence of one.
Proper(k, v) == Declared[k].type # "string" => ~Failed(v)

Unset(k) ==
    /\ ~entries[k].assigned /\ ~entries[k].isList
    /\ given[k] = [kind |-> "unset"]
    /\ Default(k) = "none"

SetTo(k) ==
    \/ /\ given[k] = [kind |-> "scalar", at |-> given[k].at]
       /\ entries[k].assigned
       /\ HoldsScalar(entries[k], given[k].at)
       /\ Proper(k, given[k].at)
    \/ /\ given[k] = [kind |-> "list", at |-> given[k].at]
       /\ entries[k].assigned
       /\ Stores(entries[k], given[k].at)
       /\ \A i \in 1..Len(given[k].at) : Proper(k, given[k].at[i])

\* The entry of a list that is being read, with the values so far.
Partial(k) ==
    /\ Stores(entries[k], pending)
    /\ \A i \in 1..Len(pending) : Proper(k, pending[i])

Typed ==
    /\ entries = [k \in Keys |-> entries[k]]
    /\ given = [k \in Keys |-> given[k]]
    /\ \A k \in Keys : IsEntry(entries[k])
    /\ status \in {"AFTER_KEY", "AFTER_EQ", "IN_LIST_BEG"} \cup InList =>
          saved \in Keys
    /\ status = "IN_LIST_BEG" => pending = << >>

\* The status in which nothing is said of the entries: a list is open.
Open(k) == status \in InList /\ saved = k

Coherent ==
    \A k \in Keys : IF Open(k) THEN Partial(k) ELSE Unset(k) \/ SetTo(k)

Trusted == ok /\ status # "SPINNING"

\* What end of file checked is still so when the query is set up.
Settled ==
    outcome \in {"accepted", "running"} =>
        Trusted /\ \A k \in Keys : ~Missing(k)

ReadInv ==
    /\ ok \in BOOLEAN
    /\ status = "SPINNING" => line # << >>
    /\ Trusted => Typed /\ Coherent
    /\ Settled
    /\ AbortsExplained
    /\ SetupBuildsAsked
-----------------------------------------------------------------------------
(* Sequences without a set they are known to be over *)

LEMMA FunIsSeq ==
    ASSUME NEW n \in Nat, NEW s, s = [i \in 1..n |-> s[i]]
    PROVE  IsSeq(s) /\ Len(s) = n
<1> DEFINE V == {s[i] : i \in DOMAIN s}
<1>1. s \in [1..n -> V]
  OBVIOUS
<1>2. s \in Seq(V)
  BY <1>1
<1> QED BY <1>1, <1>2 DEF IsSeq

LEMMA SeqIsFun ==
    ASSUME NEW s, IsSeq(s)
    PROVE  Len(s) \in Nat /\ s = [i \in 1..Len(s) |-> s[i]]
BY DEF IsSeq

LEMMA AppendIsSeq ==
    ASSUME NEW s, IsSeq(s), NEW v
    PROVE  /\ IsSeq(Append(s, v))
           /\ Len(Append(s, v)) = Len(s) + 1
           /\ \A i \in 1..Len(s) : Append(s, v)[i] = s[i]
           /\ Append(s, v)[Len(s) + 1] = v
<1> DEFINE V == {s[i] : i \in DOMAIN s} \cup {v}
           a == Append(s, v)
<1>1. s \in Seq(V)
  <2>1. s \in [1..Len(s) -> V] /\ Len(s) \in Nat
    BY SeqIsFun
  <2> QED BY <2>1
<1>2. a \in Seq(V) /\ Len(a) = Len(s) + 1
  BY <1>1
<1>3. a = [i \in 1..(Len(s) + 1) |-> a[i]]
  <2> HIDE DEF a, V
  <2> QED BY <1>2
<1>4. IsSeq(a)
  <2>1. PICK n \in Nat : n = Len(s) + 1
    BY SeqIsFun
  <2> HIDE DEF a
  <2>2. a = [i \in 1..n |-> a[i]]
    BY <1>3, <2>1
  <2> QED BY <2>2, FunIsSeq
<1>5. \A i \in 1..Len(s) : a[i] = s[i]
  BY <1>1
<1>6. a[Len(s) + 1] = v
  BY <1>1
<1> QED BY <1>2, <1>4, <1>5, <1>6

LEMMA EmptyIsSeq == IsSeq(<< >>) /\ Len(<< >>) = 0
BY DEF IsSeq

-----------------------------------------------------------------------------
(* What the operations on an entry do to what it holds *)

LEMMA ListStarted ==
    ASSUME NEW e, IsEntry(e), e.assigned /\ e.isList => HoldsList(e)
    PROVE  IsEntry(StartList(e)) /\ Stores(StartList(e), << >>)
<1> DEFINE raw == [i \in 1..ListCapacity |-> "raw"]
<1>1. ListCapacity \in Nat
  BY ConfigAssumption
<1>2. IsSeq(raw) /\ Len(raw) = ListCapacity
  <2>1. raw = [i \in 1..ListCapacity |-> raw[i]]
    OBVIOUS
  <2> QED BY <1>1, <2>1, FunIsSeq
<1> HIDE DEF raw
<1>3. CASE e.assigned /\ e.isList
  <2> DEFINE f == [e EXCEPT !.length = 0]
  <2>1. StartList(e) = f
    BY <1>3 DEF StartList
  <2>2. /\ f = [assigned |-> e.assigned, isList |-> e.isList, length |-> 0,
                value |-> e.value]
    BY DEF IsEntry
  <2>3. HoldsList(e) /\ Len(e.value.at) \in Nat
    BY <1>3, SeqIsFun DEF HoldsList
  <2> HIDE DEF f
  <2>4. IsEntry(f)
    BY <2>2 DEF IsEntry
  <2>5. HoldsList(f)
    BY <2>2, <2>3 DEF HoldsList
  <2> QED BY <2>1, <2>2, <2>4, <2>5, EmptyIsSeq DEF Stores
<1>4. CASE ~(e.assigned /\ e.isList)
  <2> DEFINE f == [assigned |-> e.assigned, isList |-> TRUE, length |-> 0,
                   value |-> [tag |-> "list", at |-> raw]]
  <2>1. StartList(e) = f
    BY <1>4 DEF StartList, InitEntryList, IsEntry, Array, raw
  <2>2. IsEntry(f)
    BY DEF IsEntry
  <2>3. HoldsList(f)
    BY <1>1, <1>2 DEF HoldsList
  <2> QED BY <2>1, <2>2, <2>3, EmptyIsSeq DEF Stores
<1> QED BY <1>3, <1>4

\* Growing the array keeps what is stored and makes room for one more.
LEMMA DoubledKeeps ==
    ASSUME NEW e, NEW s, IsEntry(e), Stores(e, s)
    PROVE  /\ IsEntry(Doubled(e)) /\ Stores(Doubled(e), s)
           /\ Doubled(e).assigned = e.assigned
           /\ Doubled(e).length = e.length
           /\ e.length < Len(Doubled(e).value.at)
<1> DEFINE old == e.value.at
           new == [i \in 1..2 * Len(old) |->
                      IF i <= e.length THEN old[i] ELSE "raw"]
<1>1. /\ ListCapacity \in Nat \ {0} /\ Len(old) \in Nat
      /\ e.length \in Nat /\ e.length <= Len(old)
      /\ Len(old) >= ListCapacity
  BY ConfigAssumption, SeqIsFun DEF IsEntry, Stores, HoldsList
<1>2. CASE e.length < ListCapacity \/ e.length < Len(old)
  BY <1>1, <1>2 DEF Doubled
<1>3. CASE ~(e.length < ListCapacity \/ e.length < Len(old))
  <2>1. PICK m \in Nat : m = 2 * Len(old)
    BY <1>1
  <2>2. new = [i \in 1..m |-> new[i]]
    BY <2>1
  <2>3. \A i \in 1..m : i <= e.length => new[i] = old[i]
    BY <2>1
  <2>4. Doubled(e) = [e EXCEPT !.value = [tag |-> "list", at |-> new]]
    BY <1>3 DEF Doubled, Array
  <2> HIDE DEF new
  <2>5. IsSeq(new) /\ Len(new) = m
    BY <2>2, FunIsSeq
  <2> DEFINE f == [assigned |-> e.assigned, isList |-> e.isList,
                   length |-> e.length,
                   value |-> [tag |-> "list", at |-> new]]
  <2>6. Doubled(e) = f
    BY <2>4 DEF IsEntry
  <2>7. IsEntry(f)
    BY DEF IsEntry
  <2>8. HoldsList(f)
    BY <1>1, <2>1, <2>5 DEF HoldsList, Stores
  <2>9. Stores(f, s)
    <3>1. e.length = Len(s) /\ IsSeq(s)
      BY DEF Stores
    <3>2. \A i \in 1..Len(s) : new[i] = s[i]
      <4> SUFFICES ASSUME NEW i \in 1..Len(s) PROVE new[i] = s[i]
        OBVIOUS
      <4>1. i \in 1..m /\ i <= e.length
        BY <1>1, <2>1, <3>1
      <4> QED BY <2>3, <4>1 DEF Stores
    <3> QED BY <2>8, <3>1, <3>2 DEF Stores
  <2> QED BY <1>1, <2>1, <2>5, <2>6, <2>7, <2>9
<1> QED BY <1>2, <1>3

\* Storing a value at the end of the list appends it to what is stored.
LEMMA ItemStored ==
    ASSUME NEW e, NEW s, NEW v, IsEntry(e), Stores(e, s)
    PROVE  LET n == e.length + 1
               f == [Doubled(e) EXCEPT !.value.at[n] = v, !.length = n]
           IN  IsEntry(f) /\ Stores(f, Append(s, v))
<1>1. PICK d : d = Doubled(e)
  OBVIOUS
<1>2. /\ IsEntry(d) /\ Stores(d, s) /\ d.length = e.length
      /\ e.length < Len(d.value.at)
  BY <1>1, DoubledKeeps
<1>3. PICK n : n = e.length + 1
  OBVIOUS
<1>4. /\ n \in Nat /\ e.length \in Nat /\ n = Len(s) + 1
      /\ Len(d.value.at) \in Nat /\ n <= Len(d.value.at)
  BY <1>2, <1>3, SeqIsFun DEF IsEntry, Stores, HoldsList
<1>5. PICK a : a = [d.value.at EXCEPT ![n] = v]
  OBVIOUS
<1>6. IsSeq(a) /\ Len(a) = Len(d.value.at)
  <2>1. PICK m \in Nat : m = Len(d.value.at)
    BY <1>4
  <2>2. d.value.at = [i \in 1..m |-> d.value.at[i]]
    BY <1>2, <2>1, SeqIsFun DEF Stores, HoldsList
  <2>3. a = [i \in 1..m |-> a[i]]
    BY <1>5, <2>2
  <2> QED BY <2>1, <2>3, FunIsSeq
<1>7. /\ a[n] = v
      /\ \A i \in 1..Len(s) : a[i] = s[i]
  <2>1. d.value.at = [i \in 1..Len(d.value.at) |-> d.value.at[i]]
    BY <1>2, SeqIsFun DEF Stores, HoldsList
  <2>2. a[n] = v
    BY <1>4, <1>5, <2>1
  <2>3. ASSUME NEW i \in 1..Len(s) PROVE a[i] = s[i]
    <3>1. i # n /\ i \in 1..Len(d.value.at)
      BY <1>4
    <3>2. a[i] = d.value.at[i]
      BY <1>5, <2>1, <3>1
    <3> QED BY <1>2, <3>2 DEF Stores
  <2> QED BY <2>2, <2>3
<1> DEFINE f == [assigned |-> d.assigned, isList |-> d.isList, length |-> n,
                 value |-> [tag |-> "list", at |-> a]]
<1>8. [d EXCEPT !.value.at[n] = v, !.length = n] = f
  <2>1. d.value = [tag |-> "list", at |-> d.value.at]
    BY <1>2 DEF Stores, HoldsList
  <2>2. d = [assigned |-> d.assigned, isList |-> d.isList,
             length |-> d.length, value |-> d.value]
    BY <1>2 DEF IsEntry
  <2>3. PICK w : w = [d.value EXCEPT !.at = [d.value.at EXCEPT ![n] = v]]
    OBVIOUS
  <2>4. w = [tag |-> "list", at |-> a]
    BY <1>5, <2>1, <2>3
  <2>5. PICK g : g = [d EXCEPT !.value = w]
    OBVIOUS
  <2>6. [d EXCEPT !.value.at[n] = v, !.length = n] = [g EXCEPT !.length = n]
    BY <2>3, <2>5
  <2>7. g = [assigned |-> d.assigned, isList |-> d.isList,
             length |-> d.length, value |-> w]
    BY <2>2, <2>5
  <2> QED BY <2>4, <2>6, <2>7
<1>9. IsEntry(f)
  BY <1>2, <1>4 DEF IsEntry
<1>10. HoldsList(f)
  BY <1>2, <1>4, <1>6 DEF HoldsList, Stores
<1>11. Stores(f, Append(s, v))
  <2>1. PICK t : t = Append(s, v)
    OBVIOUS
  <2>2. /\ IsSeq(t) /\ Len(t) = n /\ t[n] = v
        /\ \A i \in 1..Len(s) : t[i] = s[i]
    BY <1>2, <1>4, <2>1, AppendIsSeq DEF Stores
  <2>3. \A i \in 1..n : a[i] = t[i]
    <3>1. Len(s) \in Nat
      BY <1>2, SeqIsFun DEF Stores
    <3> HIDE DEF f
    <3> QED BY ONLY <1>4, <1>7, <2>2, <3>1
  <2> QED BY <1>10, <2>1, <2>2, <2>3 DEF Stores
<1> QED BY <1>1, <1>3, <1>8, <1>9, <1>11

LEMMA EntryFields ==
    ASSUME NEW e, IsEntry(e)
    PROVE  \E p, q, l, w : e = [assigned |-> p, isList |-> q, length |-> l,
                               value |-> w]
BY DEF IsEntry

LEMMA ScalarStored ==
    ASSUME NEW e, IsEntry(e), ~e.assigned => ~e.isList, NEW v
    PROVE  LET e1 == IF e.assigned THEN ClearEntry(e) ELSE e
           IN  [e1 EXCEPT !.value = Scalar(v), !.assigned = TRUE]
               = [assigned |-> TRUE, isList |-> FALSE, length |-> e.length,
                  value |-> [tag |-> "scalar", at |-> v]]
<1>1. PICK p, q, l, w : e = [assigned |-> p, isList |-> q, length |-> l,
                             value |-> w]
  BY EntryFields
<1>2. PICK e1 : e1 = IF e.assigned THEN ClearEntry(e) ELSE e
  OBVIOUS
<1>3. PICK p1, q1 : /\ q1 = FALSE
                   /\ e1 = [assigned |-> p1, isList |-> q1, length |-> l,
                            value |-> w]
  <2>1. CASE e.assigned
    <3>1. e1 = [e EXCEPT !.assigned = FALSE, !.isList = FALSE]
      BY <1>2, <2>1 DEF ClearEntry
    <3> QED BY <1>1, <3>1
  <2>2. CASE ~e.assigned
    <3>1. e.isList = FALSE
      BY <2>2 DEF IsEntry
    <3> QED BY <1>1, <1>2, <2>2, <3>1
  <2> QED BY <2>1, <2>2
<1>4. [e1 EXCEPT !.value = Scalar(v), !.assigned = TRUE]
        = [assigned |-> TRUE, isList |-> FALSE, length |-> l,
           value |-> Scalar(v)]
  <2>1. ASSUME NEW b, NEW u, NEW q2,
               e1 = [assigned |-> p1, isList |-> q2, length |-> l, value |-> w]
        PROVE  [e1 EXCEPT !.value = u, !.assigned = b]
                 = [assigned |-> b, isList |-> q2, length |-> l, value |-> u]
    <3>1. PICK h : h = [e1 EXCEPT !.value = u]
      OBVIOUS
    <3>2. h = [assigned |-> p1, isList |-> q2, length |-> l, value |-> u]
      BY ONLY <2>1, <3>1
    <3>3. [h EXCEPT !.assigned = b]
            = [assigned |-> b, isList |-> q2, length |-> l, value |-> u]
      BY ONLY <3>2
    <3>4. [e1 EXCEPT !.value = u, !.assigned = b] = [h EXCEPT !.assigned = b]
      BY ONLY <3>1
    <3> QED BY ONLY <3>3, <3>4
  <2> QED BY ONLY <1>3, <2>1
<1>5. e.length = l
  BY <1>1
<1> QED BY ONLY <1>2, <1>4, <1>5 DEF Scalar

LEMMA FlagSet ==
    ASSUME NEW e, IsEntry(e)
    PROVE  [e EXCEPT !.assigned = TRUE]
           = [assigned |-> TRUE, isList |-> e.isList, length |-> e.length,
              value |-> e.value]
<1>1. PICK p, q, l, w : e = [assigned |-> p, isList |-> q, length |-> l,
                             value |-> w]
  BY EntryFields
<1>2. [e EXCEPT !.assigned = TRUE]
        = [assigned |-> TRUE, isList |-> q, length |-> l, value |-> w]
  <2>1. ASSUME NEW b
        PROVE  [e EXCEPT !.assigned = b]
                 = [assigned |-> b, isList |-> q, length |-> l, value |-> w]
    BY ONLY <1>1
  <2> QED BY ONLY <2>1
<1>3. e.isList = q /\ e.length = l /\ e.value = w
  BY <1>1
<1> QED BY ONLY <1>2, <1>3

-----------------------------------------------------------------------------
(* What list_length and get answer *)

LEMMA ReadsScalar ==
    ASSUME NEW e, NEW v, IsEntry(e), e.assigned, HoldsScalar(e, v)
    PROVE  /\ ListLength(e) = -1 /\ Get(e, -1) = v
           /\ \A idx \in Nat : Get(e, idx) = "none"
BY DEF ListLength, Get, HoldsScalar

LEMMA ReadsList ==
    ASSUME NEW e, NEW s, IsEntry(e), e.assigned, Stores(e, s)
    PROVE  /\ ListLength(e) = Len(s) /\ Len(s) \in Nat
           /\ Get(e, -1) = "none"
           /\ \A i \in 1..Len(s) : Get(e, i - 1) = s[i]
<1>1. /\ Len(s) \in Nat /\ e.length = Len(s) /\ e.isList
      /\ e.value.tag = "list" /\ \A i \in 1..Len(s) : e.value.at[i] = s[i]
  BY SeqIsFun DEF Stores, HoldsList
<1>2. ListLength(e) = Len(s)
  BY <1>1 DEF ListLength
<1>3. Get(e, -1) = "none"
  BY <1>1 DEF Get
<1>4. ASSUME NEW i \in 1..Len(s) PROVE Get(e, i - 1) = s[i]
  <2>1. i - 1 \in 0..(e.length - 1) /\ (i - 1) + 1 = i
    BY <1>1
  <2> QED BY <1>1, <2>1 DEF Get
<1> QED BY <1>1, <1>2, <1>3, <1>4

LEMMA EntryReads ==
    ASSUME NEW k \in Keys, IsEntry(entries[k]), Unset(k) \/ SetTo(k)
    PROVE  Reading(entries[k]) = given[k]
<1> DEFINE e == entries[k]
           g == given[k]
<1>1. CASE Unset(k)
  BY <1>1 DEF Unset, Reading, ListLength
<1>2. CASE g = [kind |-> "scalar", at |-> g.at] /\ e.assigned
           /\ HoldsScalar(e, g.at)
  <2>1. ListLength(e) = -1 /\ Get(e, -1) = g.at
    BY <1>2, ReadsScalar
  <2> QED BY <1>2, <2>1 DEF Reading
<1>3. CASE g = [kind |-> "list", at |-> g.at] /\ e.assigned
           /\ Stores(e, g.at)
  <2>1. PICK s : s = g.at
    OBVIOUS
  <2>2. /\ ListLength(e) = Len(s) /\ Len(s) \in Nat
        /\ \A i \in 1..Len(s) : Get(e, i - 1) = s[i]
    BY <1>3, <2>1, ReadsList
  <2>3. [i \in 1..ListLength(e) |-> Get(e, i - 1)] = s
    <3>1. s = [i \in 1..Len(s) |-> s[i]]
      BY <1>3, <2>1, SeqIsFun DEF Stores
    <3> QED BY <2>2, <3>1
  <2>4. ListLength(e) # -3 /\ ListLength(e) # -1
    BY <2>2
  <2> HIDE DEF e
  <2>5. Reading(e) = [kind |-> "list", at |-> s]
    BY <2>3, <2>4 DEF Reading
  <2> QED BY <1>3, <2>1, <2>5 DEF e
<1> QED BY <1>1, <1>2, <1>3 DEF SetTo

LEMMA ConvertProper ==
    ASSUME NEW k, NEW w, Convert(k, w).code = 0
    PROVE  Proper(k, Convert(k, w).val)
BY DEF Convert, Proper, Failed

LEMMA ValueStatus ==
    /\ ValueHere.status \in {status, "ERROR", "SPINNING", "IN_LIST_BEG"}
    /\ ValueHere.status # status /\ status # "AFTER_EQ" =>
          ValueHere.status \in {"ERROR", "SPINNING"}
BY DEF ValueHere, Here

-----------------------------------------------------------------------------
(* The initial state, and the steps that leave the entries alone *)

LEMMA InitRead == Init => ReadInv
<1> SUFFICES ASSUME Init PROVE ReadInv
  OBVIOUS
<1>1. ok = TRUE /\ status = "DONE" /\ outcome = "reading" /\ line = << >>
  BY DEF Init
<1>2. ASSUME NEW k \in Keys
      PROVE  IsEntry(entries[k]) /\ (Unset(k) \/ SetTo(k))
  <2>1. CASE Default(k) = "none"
    <3>1. entries[k] = [assigned |-> FALSE, isList |-> FALSE, length |-> 0,
                        value |-> [tag |-> "untouched"]]
      BY <2>1 DEF Init, NewEntry
    <3>2. given[k] = [kind |-> "unset"]
      BY <2>1 DEF Init
    <3> QED BY <2>1, <3>1, <3>2 DEF IsEntry, Unset
  <2>2. CASE Default(k) # "none"
    <3>1. entries[k] = [assigned |-> TRUE, isList |-> FALSE, length |-> 0,
                        value |-> [tag |-> "scalar", at |-> Default(k)]]
      BY <2>2 DEF Init, NewEntry, Scalar
    <3>2. given[k] = [kind |-> "scalar", at |-> Default(k)]
      BY <2>2 DEF Init
    <3>3. Proper(k, Default(k))
      BY <2>2, DeclaredAssumption DEF Proper, Failed, Default, Keys
    <3> QED BY <3>1, <3>2, <3>3 DEF IsEntry, SetTo, HoldsScalar
  <2> QED BY <2>1, <2>2
<1>3. Typed
  BY <1>1, <1>2 DEF Init, Typed, InList
<1>4. Coherent
  BY <1>1, <1>2 DEF Coherent, Open, InList
<1> QED BY <1>1, <1>3, <1>4
     DEF ReadInv, Settled, AbortsExplained, SetupBuildsAsked

\* A refusal is never taken back, nor is a loop that does not end.
LEMMA FlagsStep ==
    ASSUME ReadInv, Next
    PROVE  /\ ok' \in BOOLEAN
           /\ status' = "SPINNING" => line' # << >>
           /\ Trusted' => Trusted
<1> USE DEF ReadInv, Trusted
<1>1. CASE NextLine
  BY <1>1 DEF NextLine
<1>2. CASE ParseKey
  BY <1>2 DEF ParseKey, InLine, Goto
<1>3. CASE ParseEq
  BY <1>3 DEF ParseEq, InLine, Goto
<1>4. CASE ParseScalar
  BY <1>4 DEF ParseScalar, InLine, Goto
<1>5. CASE EndValue
  BY <1>5 DEF EndValue, InLine, Goto
<1>6. CASE BeginList
  BY <1>6 DEF BeginList, InLine, Goto
<1>7. CASE CloseList
  BY <1>7 DEF CloseList, InLine, Goto, InList
<1>8. CASE PauseList
  BY <1>8 DEF PauseList, InLine, Goto, InList
<1>9. CASE ParseItem
  BY <1>9 DEF ParseItem, InLine, Goto
<1>10. CASE ParseComma
  BY <1>10 DEF ParseComma, InLine, Goto
<1>11. CASE EndOfFile \/ Setup \/ Stopped
  BY <1>11 DEF EndOfFile, Setup, Stopped, vars
<1>12. CASE ListAsserts
  BY <1>12 DEF ListAsserts, InLine
<1> QED BY <1>1, <1>2, <1>3, <1>4, <1>5, <1>6, <1>7, <1>8, <1>9, <1>10, <1>11, <1>12
     DEF Next

QuietStep ==
    \/ NextLine \/ ParseKey \/ ParseEq \/ EndValue \/ PauseList
    \/ ParseComma \/ EndOfFile \/ Setup \/ Stopped

LEMMA QuietKeeps ==
    ASSUME Typed, Coherent, QuietStep, Trusted'
    PROVE  Typed' /\ Coherent'
<1>1. /\ entries' = entries /\ given' = given /\ pending' = pending
  BY DEF QuietStep, NextLine, ParseKey, ParseEq, EndValue, PauseList,
         ParseComma, EndOfFile, Setup, Stopped, vars, history
<1>2. /\ status' \in InList <=> status \in InList
      /\ status \in InList => saved' = saved
      /\ status' \in {"AFTER_KEY", "AFTER_EQ", "IN_LIST_BEG"} => saved' \in Keys
      /\ status' = "IN_LIST_BEG" => status = "IN_LIST_BEG"
  <2> USE DEF InList, Typed
  <2>1. CASE NextLine
    BY <2>1 DEF NextLine
  <2>2. CASE ParseKey
    BY <2>2 DEF ParseKey, InLine, Goto
  <2>3. CASE ParseEq
    BY <2>3 DEF ParseEq, InLine, Goto
  <2>4. CASE EndValue
    BY <2>4 DEF EndValue, InLine, Goto
  <2>5. CASE PauseList
    BY <2>5 DEF PauseList, InLine, Goto
  <2>6. CASE ParseComma
    BY <2>6 DEF ParseComma, InLine, Goto, Trusted
  <2>7. CASE EndOfFile \/ Setup \/ Stopped
    BY <2>7 DEF EndOfFile, Setup, Stopped, vars
  <2> QED BY <2>1, <2>2, <2>3, <2>4, <2>5, <2>6, <2>7 DEF QuietStep
<1>3. Typed'
  BY <1>1, <1>2 DEF Typed, InList
<1>4. ASSUME NEW k \in Keys
      PROVE  IF Open(k)' THEN Partial(k)' ELSE Unset(k)' \/ SetTo(k)'
  <2>1. Open(k)' <=> Open(k)
    BY <1>2 DEF Open
  <2>2. Partial(k) => Partial(k)'
    BY <1>1 DEF Partial
  <2>3. Unset(k) => Unset(k)'
    BY <1>1 DEF Unset
  <2>4. SetTo(k) => SetTo(k)'
    BY <1>1 DEF SetTo
  <2> QED BY <2>1, <2>2, <2>3, <2>4 DEF Coherent
<1> QED BY <1>3, <1>4 DEF Coherent

\* A step that changes one entry: the others stand as they are.
LEMMA OneEntryChanges ==
    ASSUME Typed, Coherent, saved \in Keys, saved' = saved,
           NEW f, NEW g, IsEntry(f),
           entries' = [entries EXCEPT ![saved] = f],
           given' = [given EXCEPT ![saved] = g],
           status' # "IN_LIST_BEG",
           entries'[saved] = f /\ given'[saved] = g =>
              IF Open(saved)' THEN Partial(saved)'
              ELSE Unset(saved)' \/ SetTo(saved)'
    PROVE  Typed' /\ Coherent'
<1>1. /\ entries' = [k \in Keys |-> entries'[k]]
      /\ given' = [k \in Keys |-> given'[k]]
      /\ entries'[saved] = f /\ given'[saved] = g
      /\ \A k \in Keys \ {saved} : /\ entries'[k] = entries[k]
                                   /\ given'[k] = given[k]
  BY DEF Typed
<1>2. Typed'
  BY <1>1 DEF Typed
<1>3. ASSUME NEW k \in Keys
      PROVE  IF Open(k)' THEN Partial(k)' ELSE Unset(k)' \/ SetTo(k)'
  <2>1. CASE k = saved
    BY <1>1, <2>1
  <2>2. CASE k # saved
    <3>1. ~Open(k) /\ ~Open(k)'
      BY <2>2 DEF Open
    <3>2. entries'[k] = entries[k] /\ given'[k] = given[k]
      BY <1>1, <2>2
    <3>3. Unset(k) => Unset(k)'
      BY <3>2 DEF Unset
    <3>4. SetTo(k) => SetTo(k)'
      BY <3>2 DEF SetTo
    <3> QED BY <3>1, <3>3, <3>4 DEF Coherent
  <2> QED BY <2>1, <2>2
<1> QED BY <1>2, <1>3 DEF Coherent

-----------------------------------------------------------------------------
(* The steps that change an entry *)

\* The entries and what was given of them stay, and no list is opened.
LEMMA NothingChanges ==
    ASSUME Typed, Coherent, UNCHANGED <<entries, given, saved>>,
           saved \in Keys, status \notin InList, status' \notin InList,
           status' = "IN_LIST_BEG" => pending' = << >>
    PROVE  Typed' /\ Coherent'
<1>1. Typed'
  BY DEF Typed
<1>2. ASSUME NEW k \in Keys
      PROVE  ~Open(k)' /\ (Unset(k)' \/ SetTo(k)')
  <2>1. ~Open(k) /\ ~Open(k)'
    BY DEF Open
  <2>2. Unset(k) => Unset(k)'
    BY DEF Unset
  <2>3. SetTo(k) => SetTo(k)'
    BY DEF SetTo
  <2> QED BY <2>1, <2>2, <2>3 DEF Coherent
<1> QED BY <1>1, <1>2 DEF Coherent

LEMMA ScalarStep ==
    ASSUME Typed, Coherent, ParseScalar, Trusted'
    PROVE  /\ Typed' /\ Coherent'
           /\ outcome' = outcome
<1>1. saved \in Keys /\ status = "AFTER_EQ" /\ saved' = saved
  BY DEF ParseScalar, InLine, Typed
<1>2. PICK v : v = ValueHere
  OBVIOUS
<1> DEFINE e == entries[saved]
           e1 == IF e.assigned THEN ClearEntry(e) ELSE e
           c == Convert(saved, v.word)
           f == [e1 EXCEPT !.value = Scalar(c.val), !.assigned = TRUE]
           g == [kind |-> "scalar", at |-> c.val]
<1>3. Unset(saved) \/ SetTo(saved)
  BY <1>1 DEF Coherent, Open, InList
<1>4. ~(e.assigned /\ ClearThrows(e))
  <2>1. CASE Unset(saved)
    BY <2>1 DEF Unset
  <2>2. CASE SetTo(saved)
    BY <2>2 DEF SetTo, ClearThrows, HoldsScalar, Stores, HoldsList
  <2> QED BY <1>3, <2>1, <2>2
<1>5. CASE v.status # "AFTER_EQ"
  <2>1. /\ UNCHANGED <<entries, given, saved, outcome>> /\ pending' = << >>
        /\ status' = v.status
    BY <1>2, <1>5 DEF ParseScalar, Goto
  <2>2. status' \notin InList
    BY <1>1, <1>2, <2>1, ValueStatus DEF InList
  <2> QED BY <1>1, <2>1, <2>2, NothingChanges DEF InList
<1>6. CASE v.status = "AFTER_EQ" /\ c.code = 0
  <2>1. /\ entries' = [entries EXCEPT ![saved] = f]
        /\ given' = [given EXCEPT ![saved] = g]
        /\ status' = "AFTER_VALUE" /\ outcome' = outcome
    BY <1>2, <1>4, <1>6 DEF ParseScalar, Goto
  <2>2. IsEntry(e) /\ (~e.assigned => ~e.isList)
    <3>1. ~e.assigned => ~e.isList
      BY <1>3 DEF Unset, SetTo
    <3> QED BY <1>1, <3>1 DEF Typed
  <2>3. f = [assigned |-> TRUE, isList |-> FALSE, length |-> e.length,
             value |-> [tag |-> "scalar", at |-> c.val]]
    <3> HIDE DEF e, c
    <3> QED BY <2>2, ScalarStored
  <2>4. IsEntry(f) /\ e.length \in Nat
    <3>1. e.length \in Nat
      BY <1>1 DEF Typed, IsEntry
    <3> HIDE DEF f
    <3> QED BY <2>3, <3>1 DEF IsEntry
  <2>5. Proper(saved, c.val)
    BY <1>6, ConvertProper
  <2> HIDE DEF e1, f
  <2>6. entries'[saved] = f /\ given'[saved] = g => SetTo(saved)'
    BY <1>1, <2>3, <2>5 DEF SetTo, HoldsScalar, Proper
  <2>7. ~Open(saved)'
    BY <2>1 DEF Open, InList
  <2> HIDE DEF e, g
  <2> QED BY <1>1, <2>1, <2>4, <2>6, <2>7, OneEntryChanges
<1>7. CASE v.status = "AFTER_EQ" /\ c.code # 0
  <2>1. Goto("ERROR", v.p)
    BY <1>2, <1>4, <1>7 DEF ParseScalar
  <2> QED BY <2>1 DEF Goto, Trusted
<1> QED BY <1>5, <1>6, <1>7

LEMMA BeginStep ==
    ASSUME Typed, Coherent, BeginList
    PROVE  Typed' /\ Coherent'
<1>1. /\ saved \in Keys /\ status = "IN_LIST_BEG" /\ saved' = saved
      /\ pending' = pending /\ given' = given /\ pending = << >>
      /\ status' = "IN_LIST_VALUE"
  BY DEF BeginList, InLine, Typed, Goto, history
<1> DEFINE e == entries[saved]
           f == StartList(e)
<1>2. IsEntry(e)
  BY <1>1 DEF Typed
<1>3. e.assigned /\ e.isList => HoldsList(e)
  <2>1. Unset(saved) \/ SetTo(saved)
    BY <1>1 DEF Coherent, Open, InList
  <2> QED BY <2>1 DEF Unset, SetTo, HoldsScalar, Stores
<1>4. entries' = [entries EXCEPT ![saved] = f]
  BY DEF BeginList
<1>5. given' = [given EXCEPT ![saved] = given[saved]]
  BY <1>1 DEF Typed
<1> HIDE DEF e
<1>6. IsEntry(f) /\ Stores(f, << >>)
  BY <1>2, <1>3, ListStarted
<1> HIDE DEF f
<1>7. entries'[saved] = f => Partial(saved)'
  BY <1>1, <1>6, EmptyIsSeq DEF Partial
<1>8. Open(saved)'
  BY <1>1 DEF Open, InList
<1> QED BY <1>1, <1>4, <1>5, <1>6, <1>7, <1>8, OneEntryChanges

\* The assertion only sees a list that an error left unfinished.
LEMMA AssertionHolds ==
    ASSUME Typed, Coherent, Trusted
    PROVE  ~ListAsserts
<1> SUFFICES ASSUME ListAsserts PROVE FALSE
  OBVIOUS
<1>1. /\ saved \in Keys /\ status = "IN_LIST_BEG"
      /\ ~entries[saved].assigned /\ entries[saved].isList
  BY DEF ListAsserts, InLine, Typed
<1>2. Unset(saved) \/ SetTo(saved)
  BY <1>1 DEF Coherent, Open, InList
<1> QED BY <1>1, <1>2 DEF Unset, SetTo

LEMMA CloseStep ==
    ASSUME Typed, Coherent, CloseList
    PROVE  Typed' /\ Coherent'
<1>1. /\ saved \in Keys /\ status \in InList /\ saved' = saved
      /\ pending' = pending /\ status' = "AFTER_VALUE"
  BY DEF CloseList, InLine, Typed, Goto
<1> DEFINE e == entries[saved]
           f == [e EXCEPT !.assigned = TRUE]
           g == [kind |-> "list", at |-> pending]
<1>2. IsEntry(e) /\ Partial(saved)
  BY <1>1 DEF Typed, Coherent, Open
<1>3. /\ entries' = [entries EXCEPT ![saved] = f]
      /\ given' = [given EXCEPT ![saved] = g]
  BY DEF CloseList
<1>4. f = [assigned |-> TRUE, isList |-> e.isList, length |-> e.length,
           value |-> e.value]
  <2> HIDE DEF e
  <2> QED BY <1>2, FlagSet
<1>5. IsEntry(f) /\ Stores(f, pending)
  <2>1. Stores(e, pending)
    BY <1>2 DEF Partial
  <2> HIDE DEF e, f
  <2>2. IsEntry(f)
    BY <1>2, <1>4 DEF IsEntry
  <2> QED BY <1>4, <2>1, <2>2 DEF Stores, HoldsList
<1>6. \A i \in 1..Len(pending) : Proper(saved, pending[i])
  BY <1>2 DEF Partial
<1>7. f.assigned
  BY <1>4
<1> HIDE DEF f
<1>8. entries'[saved] = f /\ given'[saved] = g => SetTo(saved)'
  BY <1>1, <1>5, <1>6, <1>7 DEF SetTo, Proper
<1>9. ~Open(saved)'
  BY <1>1 DEF Open, InList
<1> HIDE DEF g
<1> QED BY <1>1, <1>3, <1>5, <1>8, <1>9, OneEntryChanges

LEMMA ItemStep ==
    ASSUME Typed, Coherent, ParseItem, Trusted'
    PROVE  /\ Typed' /\ Coherent'
           /\ outcome' = outcome
<1>1. saved \in Keys /\ status = "IN_LIST_VALUE" /\ saved' = saved
  BY DEF ParseItem, InLine, Typed, InList
<1>2. PICK v : v = ValueHere
  OBVIOUS
<1> DEFINE e == entries[saved]
           c == Convert(saved, v.word)
           n == e.length + 1
           f == [Doubled(e) EXCEPT !.value.at[n] = c.val, !.length = n]
           more == Append(pending, c.val)
<1>3. IsEntry(e) /\ Partial(saved)
  BY <1>1 DEF Typed, Coherent, Open, InList
<1>4. Stores(e, pending) /\ ~ClearThrows(e)
  <2>1. Stores(e, pending)
    BY <1>3 DEF Partial
  <2> QED BY <2>1 DEF Stores, HoldsList, ClearThrows
<1>5. v.status = "IN_LIST_VALUE" /\ c.code = 0
  <2>1. v.status # "IN_LIST_VALUE" => v.status \in {"ERROR", "SPINNING"}
    BY <1>1, <1>2, ValueStatus
  <2>2. CASE v.status # "IN_LIST_VALUE"
    BY <1>2, <2>1, <2>2 DEF ParseItem, Goto, Trusted
  <2>3. CASE v.status = "IN_LIST_VALUE" /\ c.code # 0
    BY <1>2, <1>4, <2>3 DEF ParseItem, Goto, Trusted
  <2> QED BY <2>2, <2>3
<1>6. /\ entries' = [entries EXCEPT ![saved] = f]
      /\ pending' = more /\ given' = given /\ outcome' = outcome
      /\ status' = "IN_LIST_AFTER_VALUE"
  BY <1>2, <1>4, <1>5 DEF ParseItem, Goto
<1>7. given' = [given EXCEPT ![saved] = given[saved]]
  BY <1>6 DEF Typed
<1>8. Proper(saved, c.val)
  BY <1>5, ConvertProper
<1>9. \A i \in 1..Len(more) : Proper(saved, more[i])
  <2>1. IsSeq(pending) /\ \A i \in 1..Len(pending) : Proper(saved, pending[i])
    BY <1>3 DEF Partial, Stores
  <2> HIDE DEF c
  <2>2. /\ Len(more) = Len(pending) + 1 /\ Len(pending) \in Nat
        /\ \A i \in 1..Len(pending) : more[i] = pending[i]
        /\ more[Len(pending) + 1] = c.val
    BY <2>1, AppendIsSeq, SeqIsFun
  <2> QED BY <1>8, <2>1, <2>2
<1>10. IsEntry(f) /\ Stores(f, more)
  <2> HIDE DEF e, c
  <2> QED BY <1>3, <1>4, ItemStored
<1> HIDE DEF f, more, e
<1>11. entries'[saved] = f => Partial(saved)'
  BY <1>1, <1>6, <1>9, <1>10 DEF Partial, Proper
<1>12. Open(saved)'
  BY <1>1, <1>6 DEF Open, InList
<1> QED BY <1>1, <1>6, <1>7, <1>10, <1>11, <1>12, OneEntryChanges

LEMMA CoherentStep ==
    ASSUME ReadInv, Next, Trusted'
    PROVE  Typed' /\ Coherent'
<1>1. Typed /\ Coherent
  BY FlagsStep DEF ReadInv
<1>2. CASE QuietStep
  BY <1>1, <1>2, QuietKeeps
<1>3. CASE ParseScalar
  BY <1>1, <1>3, ScalarStep
<1>4. CASE BeginList
  BY <1>1, <1>4, BeginStep
<1>5. CASE CloseList
  BY <1>1, <1>5, CloseStep
<1>6. CASE ParseItem
  BY <1>1, <1>6, ItemStep
<1>7. CASE ListAsserts
  BY <1>1, <1>7, FlagsStep, AssertionHolds
<1> QED BY <1>2, <1>3, <1>4, <1>5, <1>6, <1>7 DEF Next, QuietStep

-----------------------------------------------------------------------------
(* The exceptions, the end of the file and the set-up *)

\* An exception while lines are parsed follows a refused line, or comes from
\* inside a list.
LEMMA ParsingThrows ==
    ASSUME ReadInv, Next, ~EndOfFile, ~Setup, outcome' = "threw", ok',
           status' \notin InList
    PROVE  outcome = "threw" /\ UNCHANGED vars
<1>1. CASE ParseScalar
  <2>1. status = "AFTER_EQ"
    BY <1>1 DEF ParseScalar, InLine
  <2>2. Trusted'
    BY <1>1, <2>1, ValueStatus DEF ParseScalar, Goto, Trusted, InLine
  <2>3. Typed /\ Coherent
    BY <2>2, FlagsStep DEF ReadInv
  <2> QED BY <1>1, <2>2, <2>3, ScalarStep DEF ParseScalar, InLine
<1>2. CASE ParseItem
  BY <1>2 DEF ParseItem, InLine, Goto, InList
<1>3. CASE NextLine \/ ParseKey \/ ParseEq \/ EndValue \/ BeginList \/ CloseList
           \/ PauseList \/ ParseComma
  BY <1>3 DEF NextLine, ParseKey, ParseEq, EndValue, BeginList, CloseList,
              PauseList, ParseComma, InLine
<1>4. CASE Stopped
  BY <1>4 DEF Stopped, vars
<1>5. CASE ListAsserts
  <2>1. Trusted'
    BY <1>5 DEF ListAsserts, InLine, Trusted
  <2>2. Trusted /\ Typed /\ Coherent
    BY <1>5, <2>1, FlagsStep DEF ReadInv, ListAsserts, history
  <2> QED BY <1>5, <2>2, AssertionHolds
<1> QED BY <1>1, <1>2, <1>3, <1>4, <1>5 DEF Next

\* A set entry that is not a string, as the two calls that read it see it.
LEMMA SetReads ==
    ASSUME NEW k \in Keys, IsEntry(entries[k]), SetTo(k),
           Declared[k].type # "string"
    PROVE  \/ \E v : /\ given[k] = [kind |-> "scalar", at |-> v]
                    /\ entries[k].value = [tag |-> "scalar", at |-> v]
                    /\ ListLength(entries[k]) = -1
                    /\ Get(entries[k], -1) = v /\ ~Failed(v)
           \/ \E s : /\ given[k] = [kind |-> "list", at |-> s]
                    /\ Len(s) \in Nat
                    /\ ListLength(entries[k]) = Len(s)
                    /\ Get(entries[k], -1) = "none"
                    /\ \A i \in 1..Len(s) : /\ Get(entries[k], i - 1) = s[i]
                                           /\ ~Failed(s[i])
<1> DEFINE e == entries[k]
           g == given[k]
<1>1. CASE /\ g = [kind |-> "scalar", at |-> g.at] /\ e.assigned
           /\ HoldsScalar(e, g.at) /\ Proper(k, g.at)
  <2>1. PICK v : v = g.at
    OBVIOUS
  <2>2. ListLength(e) = -1 /\ Get(e, -1) = v
    BY <1>1, <2>1, ReadsScalar
  <2>3. ~Failed(v) /\ e.value = [tag |-> "scalar", at |-> v]
    BY <1>1, <2>1 DEF Proper, HoldsScalar
  <2>4. g = [kind |-> "scalar", at |-> v]
    BY <1>1, <2>1
  <2> QED BY <2>2, <2>3, <2>4
<1>2. CASE /\ g = [kind |-> "list", at |-> g.at] /\ e.assigned
           /\ Stores(e, g.at) /\ \A i \in 1..Len(g.at) : Proper(k, g.at[i])
  <2>1. PICK s : s = g.at
    OBVIOUS
  <2>2. /\ ListLength(e) = Len(s) /\ Len(s) \in Nat /\ Get(e, -1) = "none"
        /\ \A i \in 1..Len(s) : Get(e, i - 1) = s[i]
    BY <1>2, <2>1, ReadsList
  <2>3. \A i \in 1..Len(s) : ~Failed(s[i])
    BY <1>2, <2>1 DEF Proper
  <2>4. g = [kind |-> "list", at |-> s]
    BY <1>2, <2>1
  <2> HIDE DEF e, g
  <2>5. \A i \in 1..Len(s) : Get(e, i - 1) = s[i] /\ ~Failed(s[i])
    BY <2>2, <2>3
  <2> QED BY <2>2, <2>4, <2>5 DEF e, g
<1> QED BY <1>1, <1>2 DEF SetTo

\* The sketches that Setup is about to create.
Plan ==
    LET n == NumConfigs
    IN  IF Get(entries["CMG.enabled"], -1) # "true" THEN << >>
        ELSE IF n = -1 THEN <<Created(-1)>>
        ELSE [i \in 1..n |-> Created(i - 1)]

FaultyPlan ==
    \E i \in DOMAIN Plan : Failed(Plan[i].epsilon) \/ Failed(Plan[i].new)

Whole ==
    \A k \in Keys : IsEntry(entries[k]) /\ (Unset(k) \/ SetTo(k))

LEMMA Known ==
    /\ "out_limit" \in Keys /\ "CMG.enabled" \in Keys
    /\ "CMG.epsilon" \in Keys /\ "CMG.use_update_new" \in Keys
BY DeclaredAssumption DEF Keys

LEMMA EnabledScalar ==
    ASSUME Whole
    PROVE  /\ Get(entries["CMG.enabled"], -1) = "true" =>
                entries["CMG.enabled"].value.at = "true"
           /\ /\ given["CMG.enabled"].kind = "scalar"
              /\ given["CMG.enabled"].at = "true"
              => Get(entries["CMG.enabled"], -1) = "true"
<1> DEFINE k == "CMG.enabled"
<1>1. IsEntry(entries[k]) /\ SetTo(k)
  BY Known, DeclaredAssumption DEF Whole, Unset, Default
<1>2. CASE given[k] = [kind |-> "scalar", at |-> given[k].at]
           /\ entries[k].assigned /\ HoldsScalar(entries[k], given[k].at)
  <2>1. PICK v : v = given[k].at
    OBVIOUS
  <2>2. Get(entries[k], -1) = v /\ entries[k].value = [tag |-> "scalar", at |-> v]
    BY <1>1, <1>2, <2>1, ReadsScalar DEF HoldsScalar
  <2> QED BY <2>1, <2>2
<1>3. CASE given[k] = [kind |-> "list", at |-> given[k].at]
           /\ entries[k].assigned /\ Stores(entries[k], given[k].at)
  <2>1. Get(entries[k], -1) = "none"
    <3>1. PICK s : s = given[k].at
      OBVIOUS
    <3> QED BY <1>1, <1>3, <3>1, ReadsList
  <2>2. given[k].kind = "list"
    BY <1>3
  <2> QED BY <2>1, <2>2
<1> QED BY <1>1, <1>2, <1>3 DEF SetTo

\* With the sketch enabled, the plan is what was asked for and has no fault,
\* except for a list of use_update_new next to a scalar epsilon.
LEMMA PlanIsAsked ==
    ASSUME Whole, \A k \in Keys : ~Missing(k),
           Get(entries["CMG.enabled"], -1) = "true"
    PROVE  \/ Plan = Asked /\ ~FaultyPlan
           \/ /\ given["CMG.use_update_new"].kind = "list"
              /\ given["CMG.epsilon"].kind = "scalar"
              /\ FaultyPlan
<1> DEFINE ke == "CMG.epsilon"
           kn == "CMG.use_update_new"
<1>1. SetTo(ke)
  <2>1. entries[ke].assigned
    BY EnabledScalar, Known, DeclaredAssumption DEF Missing, Keys
  <2> QED BY <2>1, Known DEF Whole, Unset
<1>2. SetTo(kn)
  BY Known, DeclaredAssumption DEF Whole, Unset, Default
<1>3. /\ Declared[ke].type # "string" /\ Declared[kn].type # "string"
      /\ ke \in Keys /\ kn \in Keys
      /\ IsEntry(entries[ke]) /\ IsEntry(entries[kn])
  BY Known, DeclaredAssumption DEF Whole
<1> DEFINE Scalars(k, v) ==
             /\ given[k] = [kind |-> "scalar", at |-> v]
             /\ ListLength(entries[k]) = -1
             /\ Get(entries[k], -1) = v /\ ~Failed(v)
           Lists(k, s) ==
             /\ given[k] = [kind |-> "list", at |-> s]
             /\ Len(s) \in Nat /\ ListLength(entries[k]) = Len(s)
             /\ Get(entries[k], -1) = "none"
             /\ \A i \in 1..Len(s) : Get(entries[k], i - 1) = s[i] /\ ~Failed(s[i])
<1>4. (\E v : Scalars(ke, v)) \/ (\E s : Lists(ke, s))
  BY <1>1, <1>3, SetReads
<1>5. (\E v : Scalars(kn, v)) \/ (\E s : Lists(kn, s))
  BY <1>2, <1>3, SetReads
<1>6. ASSUME NEW v, Scalars(ke, v), NEW w, Scalars(kn, w)
      PROVE  Plan = Asked /\ ~FaultyPlan
  <2>1. NumConfigs = -1
    BY <1>6 DEF NumConfigs
  <2>2. Created(-1) = [epsilon |-> v, new |-> w]
    BY <1>6 DEF Created
  <2>3. Plan = <<[epsilon |-> v, new |-> w]>>
    BY <2>1, <2>2 DEF Plan
  <2>4. Asked = [i \in 1..1 |-> [epsilon |-> v, new |-> w]]
    BY <1>6 DEF Asked
  <2> QED BY <1>6, <2>3, <2>4 DEF FaultyPlan
<1>7. ASSUME NEW v, Scalars(ke, v), NEW t, Lists(kn, t)
      PROVE  /\ given[kn].kind = "list" /\ given[ke].kind = "scalar"
             /\ FaultyPlan
  <2>1. NumConfigs = -1
    BY <1>7 DEF NumConfigs
  <2>2. Created(-1).new = "none"
    BY <1>7 DEF Created
  <2>3. Plan = <<Created(-1)>>
    BY <2>1 DEF Plan
  <2>4. FaultyPlan
    BY <2>2, <2>3 DEF FaultyPlan, Failed
  <2> QED BY <1>7, <2>4
<1>8. ASSUME NEW s, Lists(ke, s), NEW w, Scalars(kn, w)
      PROVE  Plan = Asked /\ ~FaultyPlan
  <2> DEFINE F == [i \in 1..Len(s) |-> [epsilon |-> s[i], new |-> w]]
  <2>1. NumConfigs = Len(s)
    BY <1>8 DEF NumConfigs
  <2>2. \A i \in 1..Len(s) : Created(i - 1) = [epsilon |-> s[i], new |-> w]
    BY <1>8 DEF Created
  <2>3. Plan = F
    BY <1>8, <2>1, <2>2 DEF Plan
  <2>4. Asked = F
    BY <1>8 DEF Asked
  <2> QED BY <1>8, <2>3, <2>4 DEF FaultyPlan
<1>9. ASSUME NEW s, Lists(ke, s), NEW t, Lists(kn, t)
      PROVE  Plan = Asked /\ ~FaultyPlan
  <2> DEFINE F == [i \in 1..Len(s) |-> [epsilon |-> s[i], new |-> t[i]]]
  <2>1. CASE Len(t) = Len(s)
    <3>1. NumConfigs = Len(s)
      BY <1>9, <2>1 DEF NumConfigs
    <3>2. \A i \in 1..Len(s) : Created(i - 1) = [epsilon |-> s[i], new |-> t[i]]
      BY <1>9, <2>1 DEF Created
    <3>3. Plan = F
      BY <1>9, <3>1, <3>2 DEF Plan
    <3>4. Asked = F
      BY <1>9, <2>1 DEF Asked
    <3> QED BY <1>9, <2>1, <3>3, <3>4 DEF FaultyPlan
  <2>2. CASE Len(t) # Len(s)
    <3>1. NumConfigs = 0
      BY <1>9, <2>2 DEF NumConfigs
    <3>2. Plan = << >>
      BY <3>1 DEF Plan
    <3>3. Asked = << >>
      BY <1>9, <2>2 DEF Asked
    <3> QED BY <3>2, <3>3 DEF FaultyPlan
  <2> QED BY <2>1, <2>2
<1> QED BY <1>4, <1>5, <1>6, <1>7, <1>8, <1>9

LEMMA FinishedIsWhole ==
    ASSUME Typed, Coherent, Finished
    PROVE  Whole
BY DEF Typed, Coherent, Finished, Open, Whole

\* An entry others depend on has a default and takes no list.
LEMMA DependencyIsExplained ==
    ASSUME Whole, NEW k \in Keys, DependencyThrows(k)
    PROVE  \E j \in Keys : given[j].kind = "list" /\ ~Declared[j].list
<1>1. PICK d : d = Declared[k].needs
  OBVIOUS
<1>2. d \in Keys /\ entries[d].value.tag # "scalar"
  BY <1>1 DEF DependencyThrows
<1>3. Declared[d].default # "none" /\ ~Declared[d].list
  BY <1>1, <1>2, DeclaredAssumption DEF Keys
<1>4. SetTo(d)
  BY <1>2, <1>3 DEF Whole, Unset, Default
<1>5. given[d].kind = "list"
  BY <1>2, <1>4 DEF SetTo, HoldsScalar
<1> QED BY <1>2, <1>3, <1>5

LEMMA EndStep ==
    ASSUME ReadInv, EndOfFile
    PROVE  Settled' /\ AbortsExplained' /\ SetupBuildsAsked'
<1>1. /\ UNCHANGED <<entries, status, saved, line, ok, given>>
      /\ line = << >> /\ outcome' \in {"threw", "accepted", "refused"}
  BY DEF EndOfFile, history
<1>2. SetupBuildsAsked'
  BY <1>1 DEF SetupBuildsAsked
<1>3. Settled'
  <2> SUFFICES ASSUME outcome' = "accepted" PROVE Settled'
    BY <1>1 DEF Settled
  <2>1. ok /\ \A k \in Keys : ~Missing(k)
    BY DEF EndOfFile
  <2>2. status # "SPINNING"
    BY <1>1 DEF ReadInv
  <2>3. \A k \in Keys : Missing(k)' <=> Missing(k)
    BY <1>1 DEF Missing
  <2> QED BY <1>1, <2>1, <2>2, <2>3 DEF Settled, Trusted
<1>4. AbortsExplained'
  <2> SUFFICES ASSUME outcome' = "threw", ok, Finished
               PROVE  \E j \in Keys : given[j].kind = "list" /\ ~Declared[j].list
    BY <1>1 DEF AbortsExplained, Finished
  <2>1. PICK k \in Keys : DependencyThrows(k)
    BY DEF EndOfFile
  <2>2. Typed /\ Coherent
    BY <1>1 DEF ReadInv, Trusted
  <2> QED BY <2>1, <2>2, FinishedIsWhole, DependencyIsExplained
<1> QED BY <1>2, <1>3, <1>4

LEMMA SetupStep ==
    ASSUME ReadInv, Setup
    PROVE  Settled' /\ AbortsExplained' /\ SetupBuildsAsked'
<1>1. /\ UNCHANGED <<entries, status, saved, ok, given>>
      /\ outcome = "accepted" /\ outcome' \in {"threw", "running"}
  BY DEF Setup, history
<1>2. Trusted /\ \A k \in Keys : ~Missing(k)
  BY <1>1 DEF ReadInv, Settled
<1>3. Settled'
  <2>1. \A k \in Keys : Missing(k)' <=> Missing(k)
    BY <1>1 DEF Missing
  <2> QED BY <1>1, <1>2, <2>1 DEF Settled, Trusted
<1>4. Finished => Whole
  BY <1>2, FinishedIsWhole DEF ReadInv
<1>5. IF Failed(Get(entries["out_limit"], -1)) \/ FaultyPlan
      THEN outcome' = "threw"
      ELSE outcome' = "running" /\ sketches' = Plan
  BY DEF Setup, Plan, FaultyPlan
<1>6. CASE outcome' = "threw"
  <2>1. SetupBuildsAsked'
    BY <1>6 DEF SetupBuildsAsked
  <2> SUFFICES ASSUME Finished
               PROVE  \/ \E k \in Keys : given[k].kind = "list" /\ ~Declared[k].list
                      \/ /\ given["CMG.use_update_new"].kind = "list"
                         /\ given["CMG.epsilon"].kind = "scalar"
    BY <1>1, <1>3, <2>1 DEF AbortsExplained, Finished
  <2>2. CASE Failed(Get(entries["out_limit"], -1))
    <3> DEFINE k == "out_limit"
    <3>1. /\ k \in Keys /\ SetTo(k) /\ IsEntry(entries[k])
          /\ Declared[k].type # "string" /\ ~Declared[k].list
      BY <1>4, Known, DeclaredAssumption DEF Whole, Unset, Default
    <3>2. PICK x : x = k
      OBVIOUS
    <3>3. /\ x \in Keys /\ SetTo(x) /\ IsEntry(entries[x])
          /\ Declared[x].type # "string" /\ Failed(Get(entries[x], -1))
      BY <2>2, <3>1, <3>2
    <3>4. \/ \E v : Get(entries[x], -1) = v /\ ~Failed(v)
          \/ \E s : given[x] = [kind |-> "list", at |-> s]
      BY <3>3, SetReads
    <3>5. given[x].kind = "list"
      <4>1. ASSUME NEW v, Get(entries[x], -1) = v, ~Failed(v) PROVE FALSE
        BY <3>3, <4>1
      <4>2. ASSUME NEW s, given[x] = [kind |-> "list", at |-> s]
            PROVE  given[x].kind = "list"
        BY ONLY <4>2
      <4> QED BY <3>4, <4>1, <4>2
    <3> QED BY <3>1, <3>2, <3>5
  <2>3. CASE ~Failed(Get(entries["out_limit"], -1))
    <3>1. FaultyPlan
      BY <1>5, <1>6, <2>3
    <3>2. Get(entries["CMG.enabled"], -1) = "true"
      <4> SUFFICES ASSUME Get(entries["CMG.enabled"], -1) # "true" PROVE FALSE
        OBVIOUS
      <4>1. Plan = << >>
        BY DEF Plan
      <4> QED BY <3>1, <4>1 DEF FaultyPlan
    <3> QED BY <1>2, <1>4, <3>1, <3>2, PlanIsAsked
  <2> QED BY <2>2, <2>3
<1>7. CASE outcome' = "running"
  <2>1. AbortsExplained'
    BY <1>7 DEF AbortsExplained
  <2>2. sketches' = Plan /\ ~FaultyPlan
    BY <1>5, <1>7
  <2> SUFFICES ASSUME Finished, given["CMG.enabled"].kind = "scalar",
                      given["CMG.enabled"].at = "true"
               PROVE  Plan = Asked
    <3>1. Asked' = Asked
      BY <1>1 DEF Asked
    <3> QED BY <1>1, <1>3, <2>1, <2>2, <3>1 DEF SetupBuildsAsked, Finished
  <2> QED BY <1>2, <1>4, <2>2, EnabledScalar, PlanIsAsked
<1> QED BY <1>1, <1>3, <1>6, <1>7

LEMMA ReadInvStep ==
    ASSUME ReadInv, [Next]_vars
    PROVE  ReadInv'
<1>1. CASE UNCHANGED vars
  <2>1. UNCHANGED <<entries, status, saved, line, p0, read, ok, outcome,
                    sketches, given, pending>>
    BY <1>1 DEF vars
  <2>2. Typed => Typed'
    BY <2>1 DEF Typed
  <2>3. Coherent => Coherent'
    BY <2>1 DEF Coherent, Open, Partial, Unset, SetTo
  <2>4. Settled => Settled'
    <3>1. \A k \in Keys : Missing(k)' <=> Missing(k)
      BY <2>1 DEF Missing
    <3> QED BY <2>1, <3>1 DEF Settled, Trusted
  <2>5. AbortsExplained => AbortsExplained'
    BY <2>1 DEF AbortsExplained, Finished
  <2>6. SetupBuildsAsked => SetupBuildsAsked'
    <3>1. Asked' = Asked
      BY <2>1 DEF Asked
    <3> QED BY <2>1, <3>1 DEF SetupBuildsAsked, Finished
  <2> QED BY <2>1, <2>2, <2>3, <2>4, <2>5, <2>6 DEF ReadInv, Trusted
<1>2. CASE Next
  <2>1. /\ ok' \in BOOLEAN
        /\ status' = "SPINNING" => line' # << >>
        /\ Trusted' => Typed' /\ Coherent'
    BY <1>2, FlagsStep, CoherentStep
  <2>2. Settled' /\ AbortsExplained' /\ SetupBuildsAsked'
    <3>1. CASE EndOfFile
      BY <3>1, EndStep
    <3>2. CASE Setup
      BY <3>2, SetupStep
    <3>3. CASE Stopped
      <4>1. UNCHANGED <<entries, status, ok, outcome, sketches, given>>
        BY <3>3 DEF Stopped, vars
      <4>2. \A k \in Keys : Missing(k)' <=> Missing(k)
        BY <4>1 DEF Missing
      <4>3. Asked' = Asked
        BY <4>1 DEF Asked
      <4> QED BY <4>1, <4>2, <4>3 DEF ReadInv, Settled, Trusted,
                AbortsExplained, SetupBuildsAsked, Finished
    <3>4. CASE ~EndOfFile /\ ~Setup /\ ~Stopped
      <4>1. outcome = "reading" /\ outcome' \in {"reading", "threw"}
        BY <1>2, <3>4
           DEF Next, NextLine, ParseKey, ParseEq, ParseScalar, EndValue,
               ListAsserts, BeginList, CloseList, PauseList, ParseItem,
               ParseComma, InLine
      <4>2. Settled' /\ SetupBuildsAsked'
        BY <4>1 DEF Settled, SetupBuildsAsked
      <4>3. AbortsExplained'
        <5> SUFFICES ASSUME outcome' = "threw", ok', status' \notin InList
                     PROVE  FALSE
          BY DEF AbortsExplained, Finished
        <5> QED BY <1>2, <3>4, <4>1, ParsingThrows
      <4> QED BY <4>2, <4>3
    <3> QED BY <3>1, <3>2, <3>3, <3>4
  <2> QED BY <2>1, <2>2 DEF ReadInv
<1> QED BY <1>1, <1>2

-----------------------------------------------------------------------------
(* The theorems *)

THEOREM ReaderInvariance == Spec => []ReadInv
BY InitRead, ReadInvStep, PTL DEF Spec

\* Whatever the file holds and however often it assigns a key, an accepted
\* file reads back (is_list, list_length, get) as its last complete
\* assignment to each key, or as the default.
THEOREM AcceptedFilesRead == Spec => []AcceptedReads
<1>1. ReadInv => AcceptedReads
  <2> SUFFICES ASSUME ReadInv, outcome \in {"accepted", "running"}, Finished,
                      NEW k \in Keys
               PROVE  Reading(entries[k]) = given[k]
    BY DEF AcceptedReads
  <2>1. Typed /\ Coherent
    BY DEF ReadInv, Settled
  <2>2. Whole
    BY <2>1, FinishedIsWhole
  <2> QED BY <2>2, EntryReads DEF Whole
<1> QED BY <1>1, ReaderInvariance, PTL

\* No file of which every line was understood ends in an exception or a
\* failed assertion, except over a list for a key that takes none, or a list of use_update_new next
\* to a scalar epsilon.
THEOREM ExceptionsAreExplained == Spec => []AbortsExplained
<1>1. ReadInv => AbortsExplained
  BY DEF ReadInv
<1> QED BY <1>1, ReaderInvariance, PTL

\* A query that starts builds the sketches the file asked for, position by
\* position of its lists.
THEOREM SetupIsFaithful == Spec => []SetupBuildsAsked
<1>1. ReadInv => SetupBuildsAsked
  BY DEF ReadInv
<1> QED BY <1>1, ReaderInvariance, PTL
=============================================================================
