----------------------- MODULE ChainMisraGriesProofs -----------------------
(***************************************************************************)
(* What PersistentMisraGries says of the past of a ChainMisraGries, proved *)
(* for every set of keys, error and stream, and for both implementations   *)
(* of update.                                                              *)
(***************************************************************************)
EXTENDS PersistentMisraGries, DataLemmas, SequenceTheorems, FiniteSetTheorems

Listed(s) == Len(s) \in Nat /\ s = [i \in 1 .. Len(s) |-> s[i]]

\* A checkpoint of a finished timestamp, with delta nodes of finished ones.
IsCheckpoint(p) ==
  /\ p = [ts |-> p.ts, tot |-> p.tot, cnt |-> p.cnt, deltas |-> p.deltas]
  /\ p.ts \in 1 .. Len(closed)
  /\ Listed(p.deltas)
  /\ \A n \in 1 .. Len(p.deltas) : p.deltas[n].ts \in 1 .. Len(closed)

ChainInv ==
  /\ lastTs \in Nat
  /\ Listed(closed)
  /\ Len(closed) = IF lastTs = 0 THEN 0 ELSE lastTs - 1
  /\ Listed(chkpts)
  /\ \A j \in 1 .. Len(chkpts) : IsCheckpoint(chkpts[j])
  /\ closed # <<>> => chkpts # <<>> /\ chkpts[1].ts = 1

-----------------------------------------------------------------------------
(* Sequences *)

LEMMA ListedIsSeq ==
  ASSUME NEW s, Listed(s)
  PROVE  s \in Seq({s[i] : i \in 1 .. Len(s)}) /\ DOMAIN s = 1 .. Len(s)
BY DEF Listed

\* s grown by e at its end.
Appended(s, e, t) ==
  /\ t = Append(s, e)
  /\ Listed(t) /\ Len(t) = Len(s) + 1
  /\ t[Len(s) + 1] = e
  /\ \A i \in 1 .. Len(s) : t[i] = s[i]

LEMMA ListedAppend ==
  ASSUME NEW s, Listed(s), NEW e
  PROVE  \E t : Appended(s, e, t)
<1>1. PICK A : A = {s[i] : i \in 1 .. Len(s)} \cup {e}
  OBVIOUS
<1>2. s \in Seq(A) /\ e \in A
  BY <1>1 DEF Listed
<1>3. PICK t : t = Append(s, e)
  OBVIOUS
<1>4. t \in Seq(A) /\ Len(t) = Len(s) + 1
  BY <1>2, <1>3
<1>5. Listed(t)
  <2>1. Len(t) \in Nat /\ t \in [1 .. Len(t) -> A]
    BY <1>4, LenProperties
  <2> QED BY ONLY <2>1 DEF Listed
<1>6. t[Len(s) + 1] = e /\ \A i \in 1 .. Len(s) : t[i] = s[i]
  BY <1>2, <1>3
<1> QED BY <1>3, <1>4, <1>5, <1>6 DEF Appended

LEMMA ListedEmpty ==
  ASSUME NEW s, Listed(s)
  PROVE  s = <<>> <=> Len(s) = 0
BY DEF Listed

LEMMA GreatestElement ==
  ASSUME NEW n \in Nat, NEW S \in SUBSET (1 .. n), S # {}
  PROVE  CMG!Max(S) \in S /\ \A y \in S : y <= CMG!Max(S)
<1> DEFINE T == {n - y : y \in S}
<1>1. T \in SUBSET Nat /\ T # {}
  <2>1. \A y \in S : n - y \in Nat
    OBVIOUS
  <2>2. PICK y \in S : TRUE
    OBVIOUS
  <2> QED BY <2>1, <2>2
<1>2. PICK m \in T : \A y \in T : m <= y
  <2> HIDE DEF T
  <2> QED BY <1>1, LeastElement
<1>3. PICK x \in S : m = n - x
  BY <1>2
<1>4. \A y \in S : y <= x
  <2> SUFFICES ASSUME NEW y \in S PROVE y <= x
    OBVIOUS
  <2>1. n - y \in T
    OBVIOUS
  <2>2. m <= n - y
    BY <1>2, <2>1
  <2> QED BY <1>3, <2>2
<1>5. CMG!Max(S) = CHOOSE z \in S : \A y \in S : z >= y
  BY DEF CMG!Max
<1>6. \A y \in S : x >= y
  BY <1>4
<1>7. CMG!Max(S) \in S /\ \A y \in S : CMG!Max(S) >= y
  BY <1>5, <1>6
<1> QED BY <1>7

-----------------------------------------------------------------------------
(* The end of a timestamp *)

\* A new checkpoint, nothing, or a batch of delta nodes at the last one.
Extends(new) ==
  \/ \E c : new = Append(chkpts, [ts |-> lastTs, tot |-> tot, cnt |-> c, deltas |-> <<>>])
  \/ chkpts # <<>> /\ new = chkpts
  \/ /\ chkpts # <<>>
     /\ \E b : /\ b.ts = lastTs
              /\ new = [chkpts EXCEPT ![Len(chkpts)].deltas = Append(@, b)]

\* The record that passes from the end of a timestamp to the arrival.
IsNow(now) ==
  now = [sk |-> now.sk, chkpts |-> now.chkpts, num |-> now.num,
         snap |-> now.snap, ctr |-> now.ctr]

LEMMA CheckpointExtends ==
  ASSUME NEW q, NEW c
  PROVE  IsNow(CMG!Checkpointed(q, c)) /\ Extends(CMG!Checkpointed(q, c).chkpts)
<1>1. PICK cps, sn :
        /\ CMG!Checkpointed(q, c) =
             [sk |-> q, chkpts |-> cps, num |-> 0, snap |-> sn, ctr |-> c]
        /\ cps = Append(chkpts, [ts |-> lastTs, tot |-> tot, cnt |-> q.cnt, deltas |-> <<>>])
  BY DEF CMG!Checkpointed
<1>2. PICK k : k = q.cnt
  OBVIOUS
<1>3. Extends(cps)
  BY <1>1, <1>2 DEF Extends
<1>4. PICK now : now = CMG!Checkpointed(q, c)
  OBVIOUS
<1>5. now.chkpts = cps /\ IsNow(now)
  BY <1>1, <1>4 DEF IsNow
<1> QED BY <1>3, <1>4, <1>5

LEMMA ChainExtends ==
  ASSUME NEW q, NEW batch, NEW n, NEW c, chkpts # <<>>
  PROVE  IsNow(CMG!Chained(q, batch, n, c)) /\ Extends(CMG!Chained(q, batch, n, c).chkpts)
<1>1. PICK cps, sn :
        /\ CMG!Chained(q, batch, n, c) =
             [sk |-> q, chkpts |-> cps, num |-> n, snap |-> sn, ctr |-> c]
        /\ cps = IF DOMAIN batch = {} THEN chkpts
                 ELSE [chkpts EXCEPT ![Len(chkpts)].deltas =
                         Append(@, [ts |-> lastTs, tot |-> tot, new |-> batch])]
  BY DEF CMG!Chained
<1>2. Extends(cps)
  <2>1. PICK b : b = [ts |-> lastTs, tot |-> tot, new |-> batch]
    OBVIOUS
  <2>2. b.ts = lastTs
    BY <2>1
  <2> QED BY <1>1, <2>1, <2>2 DEF Extends
<1> QED BY <1>1, <1>2 DEF IsNow

LEMMA CloseExtends ==
  ASSUME NEW now, now = CMG!CloseOld \/ \E phantom : now = CMG!CloseNew(phantom)
  PROVE  IsNow(now) /\ Extends(now.chkpts)
<1>1. \/ \E q, c : now = CMG!Checkpointed(q, c)
      \/ chkpts # <<>> /\ \E q, batch, n, c : now = CMG!Chained(q, batch, n, c)
  BY DEF CMG!CloseOld, CMG!CloseNew
<1> QED BY <1>1, CheckpointExtends, ChainExtends

LEMMA CountKeepsCheckpoints ==
  ASSUME NEW now, IsNow(now), NEW x, NEW c, CMG!Count(now, x, c)
  PROVE  chkpts' = now.chkpts
<1>1. ASSUME NEW l, NEW r, r = CMG!CountNew(now, x, c, l)
      PROVE  r.chkpts = now.chkpts
  <2>1. PICK q, ct : r = [now EXCEPT !.sk = q, !.ctr = ct]
    BY <1>1 DEF CMG!CountNew
  <2> QED BY <2>1 DEF IsNow
<1>2. ASSUME NEW r, r = CMG!CountOld(now, x, c)
      PROVE  r.chkpts = now.chkpts
  BY <1>2 DEF CMG!CountOld, IsNow
<1> QED BY <1>1, <1>2 DEF CMG!Count, CMG!Become

\* A checkpoint p, and what it is (r) after the end of a timestamp.
Grows(p, r) ==
  /\ r = [ts |-> p.ts, tot |-> p.tot, cnt |-> p.cnt, deltas |-> r.deltas]
  /\ Listed(r.deltas) /\ Len(p.deltas) <= Len(r.deltas)
  /\ \A n \in 1 .. Len(p.deltas) : r.deltas[n] = p.deltas[n]
  /\ \A n \in (Len(p.deltas) + 1) .. Len(r.deltas) : r.deltas[n].ts = lastTs

Continues(new) ==
  /\ Listed(new) /\ Len(chkpts) <= Len(new)
  /\ \A j \in 1 .. Len(chkpts) : Grows(chkpts[j], new[j])
  /\ \A j \in (Len(chkpts) + 1) .. Len(new) :
       \E c : new[j] = [ts |-> lastTs, tot |-> tot, cnt |-> c, deltas |-> <<>>]

LEMMA GrowsByNothing ==
  ASSUME NEW p, IsCheckpoint(p)
  PROVE  Grows(p, p)
BY DEF IsCheckpoint, Grows, Listed

LEMMA GrowsByBatch ==
  ASSUME NEW p, IsCheckpoint(p), NEW b, b.ts = lastTs, NEW r,
         r = [p EXCEPT !.deltas = Append(@, b)]
  PROVE  Grows(p, r)
<1>1. PICK t, w, c, d : p = [ts |-> t, tot |-> w, cnt |-> c, deltas |-> d]
  BY DEF IsCheckpoint
<1>2. Listed(d)
  BY <1>1 DEF IsCheckpoint
<1>3. PICK e : Appended(d, b, e)
  BY <1>2, ListedAppend
<1>4. r = [ts |-> t, tot |-> w, cnt |-> c, deltas |-> e]
  BY <1>1, <1>3 DEF Appended
<1>5. p.ts = t /\ p.tot = w /\ p.cnt = c /\ p.deltas = d /\ r.deltas = e
  BY <1>1, <1>4
<1>6. Len(d) \in Nat /\ Len(d) <= Len(e)
  BY <1>3, <1>2 DEF Listed, Appended
<1>7. \A n \in (Len(d) + 1) .. Len(e) : e[n].ts = lastTs
  BY <1>3, <1>6 DEF Appended
<1> QED BY <1>3, <1>4, <1>5, <1>6, <1>7 DEF Grows, Appended

LEMMA ExtendsContinues ==
  ASSUME ChainInv, NEW new, Extends(new)
  PROVE  Continues(new)
<1>1. /\ Listed(chkpts) /\ Len(chkpts) \in Nat
      /\ \A j \in 1 .. Len(chkpts) : IsCheckpoint(chkpts[j])
  BY DEF ChainInv, Listed
<1>2. \A j \in 1 .. Len(chkpts) : Grows(chkpts[j], chkpts[j])
  BY <1>1, GrowsByNothing
<1>3. ASSUME NEW e, NEW c, e = [ts |-> lastTs, tot |-> tot, cnt |-> c, deltas |-> <<>>],
             new = Append(chkpts, e)
      PROVE  Continues(new)
  <2>0. Appended(chkpts, e, new)
    <3>1. PICK t : Appended(chkpts, e, t)
      BY <1>1, ListedAppend
    <3> QED BY <1>3, <3>1 DEF Appended
  <2>1. /\ Listed(new) /\ Len(new) = Len(chkpts) + 1 /\ new[Len(chkpts) + 1] = e
        /\ \A i \in 1 .. Len(chkpts) : new[i] = chkpts[i]
    BY <2>0 DEF Appended
  <2>2. Len(chkpts) <= Len(new) /\ \A j \in (Len(chkpts) + 1) .. Len(new) : new[j] = e
    BY <1>1, <2>1
  <2> QED BY <1>2, <1>3, <2>1, <2>2 DEF Continues
<1>4. ASSUME new = chkpts PROVE Continues(new)
  BY <1>1, <1>2, <1>4 DEF Continues
<1>5. ASSUME chkpts # <<>>, NEW b, b.ts = lastTs,
             new = [chkpts EXCEPT ![Len(chkpts)].deltas = Append(@, b)]
      PROVE  Continues(new)
  <2>1. Len(chkpts) \in 1 .. Len(chkpts)
    BY <1>1, <1>5, ListedEmpty
  <2>2. PICK m \in 1 .. Len(chkpts) : m = Len(chkpts)
    BY <2>1
  <2>3. PICK p, r : p = chkpts[m] /\ r = [p EXCEPT !.deltas = Append(@, b)]
    OBVIOUS
  <2>4. new = [chkpts EXCEPT ![m] = r]
    BY <1>5, <2>2, <2>3
  <2>5. DOMAIN chkpts = 1 .. m /\ chkpts \in Seq({chkpts[i] : i \in 1 .. m})
    BY <1>1, <2>2, ListedIsSeq
  <2>6. /\ new = [i \in 1 .. m |-> IF i = m THEN r ELSE chkpts[i]]
    BY <2>4, <2>5
  <2>7. m \in Nat /\ Len(new) = m
    BY <2>6
  <2>8. Listed(new)
    BY <2>6, <2>7 DEF Listed
  <2>9. Grows(p, r)
    BY <1>1, <1>5, <2>3, GrowsByBatch
  <2>10. \A j \in 1 .. m : Grows(chkpts[j], new[j])
    BY <1>2, <2>3, <2>2, <2>6, <2>9
  <2> QED BY <2>2, <2>7, <2>8, <2>10 DEF Continues
<1> QED BY <1>3, <1>4, <1>5 DEF Extends

-----------------------------------------------------------------------------
(* What a query reads *)

\* RecordAt of the checkpoints cps.
Started(cps, ts) == {j \in DOMAIN cps : cps[j].ts <= ts}
Moved(d, ts, x) == {j \in DOMAIN d : d[j].ts <= ts /\ x \in DOMAIN d[j].new}
ReadFrom(p, ts, x) ==
  LET newest == p.deltas[CMG!Max(Moved(p.deltas, ts, x))]
  IN IF Moved(p.deltas, ts, x) = {} THEN [cnt |-> p.cnt[x], tot |-> p.tot]
     ELSE [cnt |-> newest.new[x], tot |-> newest.tot]

LEMMA RecordIsRead ==
  ASSUME NEW ts, NEW x
  PROVE  /\ CMG!RecordAt(ts, x) = ReadFrom(chkpts[CMG!Max(Started(chkpts, ts))], ts, x)
         /\ CMG!RecordAt(ts, x)' = ReadFrom(chkpts'[CMG!Max(Started(chkpts', ts))], ts, x)
BY DEF CMG!RecordAt, ReadFrom, Moved, Started

LEMMA ReadKept ==
  ASSUME NEW p, IsCheckpoint(p), NEW r, Grows(p, r),
         NEW ts \in Nat, ts < lastTs, lastTs \in Nat, NEW x
  PROVE  ReadFrom(r, ts, x) = ReadFrom(p, ts, x)
<1>1. PICK d, e : d = p.deltas /\ e = r.deltas
  OBVIOUS
<1>2. Listed(d) /\ Listed(e) /\ Len(d) <= Len(e)
  BY <1>1 DEF IsCheckpoint, Grows
<1>3. DOMAIN d = 1 .. Len(d) /\ DOMAIN e = 1 .. Len(e) /\ Len(d) \in Nat /\ Len(e) \in Nat
  BY <1>2 DEF Listed
<1>4. /\ \A n \in 1 .. Len(d) : e[n] = d[n]
      /\ \A n \in (Len(d) + 1) .. Len(e) : e[n].ts = lastTs
  BY <1>1 DEF Grows
<1>5. Moved(e, ts, x) = Moved(d, ts, x)
  <2>1. ASSUME NEW n \in DOMAIN e, e[n].ts <= ts
        PROVE  n \in DOMAIN d
    <3>1. e[n].ts # lastTs
      BY <2>1
    <3> QED BY <1>2, <1>3, <1>4, <3>1
  <2>2. ASSUME NEW n \in DOMAIN d
        PROVE  n \in DOMAIN e /\ e[n] = d[n]
    BY <1>2, <1>3, <1>4
  <2> QED BY <2>1, <2>2 DEF Moved
<1>6. PICK M, m : M = Moved(d, ts, x) /\ m = CMG!Max(M)
  OBVIOUS
<1>7. M # {} => e[m] = d[m]
  <2> SUFFICES ASSUME M # {} PROVE e[m] = d[m]
    OBVIOUS
  <2>1. M \in SUBSET (1 .. Len(d))
    BY <1>3, <1>6 DEF Moved
  <2>2. m \in M
    BY <1>3, <1>6, <2>1, GreatestElement
  <2> QED BY <1>4, <2>1, <2>2
<1>8. r.cnt = p.cnt /\ r.tot = p.tot
  BY DEF Grows
<1> QED BY <1>1, <1>5, <1>6, <1>7, <1>8 DEF ReadFrom

LEMMA RecordKept ==
  ASSUME ChainInv, NEW new, Continues(new), NEW ts \in 1 .. Len(closed), NEW x
  PROVE  ReadFrom(new[CMG!Max(Started(new, ts))], ts, x)
           = ReadFrom(chkpts[CMG!Max(Started(chkpts, ts))], ts, x)
<1>1. /\ lastTs \in Nat /\ ts \in Nat /\ ts < lastTs /\ ts >= 1
      /\ Listed(closed) /\ Len(closed) \in Nat
      /\ Listed(chkpts) /\ Len(chkpts) \in Nat
      /\ \A j \in 1 .. Len(chkpts) : IsCheckpoint(chkpts[j])
  BY DEF ChainInv, Listed
<1>2. /\ DOMAIN chkpts = 1 .. Len(chkpts)
      /\ DOMAIN new = 1 .. Len(new) /\ Len(new) \in Nat
      /\ Len(chkpts) <= Len(new)
  BY <1>1 DEF Continues, Listed
<1>3. ASSUME NEW j \in DOMAIN chkpts
      PROVE  j \in DOMAIN new /\ new[j].ts = chkpts[j].ts
  <2>1. j \in DOMAIN new
    BY <1>2
  <2>2. Grows(chkpts[j], new[j])
    BY <1>2 DEF Continues
  <2> QED BY <2>1, <2>2 DEF Grows
<1>4. ASSUME NEW j \in DOMAIN new, new[j].ts <= ts
      PROVE  j \in DOMAIN chkpts
  <2>1. SUFFICES ASSUME j \in (Len(chkpts) + 1) .. Len(new) PROVE FALSE
    BY <1>1, <1>2
  <2>2. PICK c : new[j] = [ts |-> lastTs, tot |-> tot, cnt |-> c, deltas |-> <<>>]
    BY <2>1 DEF Continues
  <2>3. new[j].ts = lastTs
    BY <2>2
  <2> QED BY <1>1, <1>4, <2>3
<1>5. Started(new, ts) = Started(chkpts, ts)
  BY <1>3, <1>4 DEF Started
<1>6. PICK S, m : S = Started(chkpts, ts) /\ m = CMG!Max(S)
  OBVIOUS
<1>7. m \in 1 .. Len(chkpts)
  <2>1. closed # <<>>
    BY <1>1, ListedEmpty
  <2>2. chkpts # <<>> /\ chkpts[1].ts = 1
    BY <2>1 DEF ChainInv
  <2>3. 1 \in S
    BY <1>1, <1>2, <1>6, <2>2, ListedEmpty DEF Started
  <2>4. S \in SUBSET (1 .. Len(chkpts))
    BY <1>2, <1>6 DEF Started
  <2> QED BY <1>1, <1>6, <2>3, <2>4, GreatestElement
<1>8. IsCheckpoint(chkpts[m]) /\ Grows(chkpts[m], new[m])
  BY <1>1, <1>7 DEF Continues
<1>9. ReadFrom(new[m], ts, x) = ReadFrom(chkpts[m], ts, x)
  <2>1. PICK p, r : p = chkpts[m] /\ r = new[m]
    OBVIOUS
  <2>2. IsCheckpoint(p) /\ Grows(p, r)
    BY <1>8, <2>1
  <2>3. ts \in Nat /\ ts < lastTs /\ lastTs \in Nat
    BY <1>1
  <2>4. ReadFrom(r, ts, x) = ReadFrom(p, ts, x)
    BY ONLY <2>2, <2>3, ReadKept
  <2> QED BY <2>1, <2>4
<1> QED BY <1>5, <1>6, <1>9

-----------------------------------------------------------------------------
(* Invariance *)

LEMMA InitChain == CMG!Init => ChainInv
<1> SUFFICES ASSUME CMG!Init PROVE ChainInv
  OBVIOUS
<1>1. lastTs = 0 /\ closed = <<>> /\ chkpts = <<>>
  BY DEF CMG!Init
<1>2. Listed(<<>>)
  BY DEF Listed
<1> QED BY <1>1, <1>2 DEF ChainInv

LEMMA ExtendsSome ==
  ASSUME ChainInv, NEW new, Extends(new), Continues(new)
  PROVE  Len(new) >= 1
<1>1. Listed(chkpts) /\ Listed(new) /\ Len(chkpts) <= Len(new)
  BY DEF ChainInv, Continues
<1>2. CASE chkpts # <<>>
  BY <1>1, <1>2, ListedEmpty DEF Listed
<1>3. CASE chkpts = <<>>
  <2>1. PICK e : new = Append(chkpts, e)
    BY <1>3 DEF Extends
  <2>2. Len(new) = Len(chkpts) + 1
    <3>1. PICK t : Appended(chkpts, e, t)
      BY <1>1, ListedAppend
    <3> QED BY <2>1, <3>1 DEF Appended
  <2> QED BY <1>1, <2>2 DEF Listed
<1> QED BY <1>2, <1>3

LEMMA CloseStep ==
  ASSUME ChainInv, lastTs > 0, Extends(chkpts'), lastTs' = lastTs + 1,
         NEW e, closed' = Append(closed, e)
  PROVE  ChainInv'
<1>1. /\ lastTs \in Nat /\ Listed(closed) /\ Listed(chkpts)
      /\ Len(closed) \in Nat /\ Len(chkpts) \in Nat
      /\ lastTs = Len(closed) + 1
      /\ \A j \in 1 .. Len(chkpts) : IsCheckpoint(chkpts[j])
  BY DEF ChainInv, Listed
<1>2. PICK new : new = chkpts'
  OBVIOUS
<1>3. Continues(new) /\ Len(new) >= 1
  BY <1>2, ExtendsContinues, ExtendsSome
<1>4. Listed(closed') /\ Len(closed') = lastTs
  <2>1. PICK t : Appended(closed, e, t)
    BY <1>1, ListedAppend
  <2>2. t = closed'
    BY <2>1 DEF Appended
  <2> QED BY <1>1, <2>1, <2>2 DEF Appended, Listed
<1>5. ASSUME NEW j \in 1 .. Len(new)
      PROVE  IsCheckpoint(new[j])'
  <2>1. PICK r : r = new[j]
    OBVIOUS
  <2>2. CASE j \in 1 .. Len(chkpts)
    <3>1. PICK p : p = chkpts[j]
      OBVIOUS
    <3>2. IsCheckpoint(p) /\ Grows(p, r)
      BY <1>1, <1>3, <2>1, <2>2, <3>1 DEF Continues
    <3>3. PICK e1 : /\ r = [ts |-> p.ts, tot |-> p.tot, cnt |-> p.cnt, deltas |-> e1]
                    /\ r.deltas = e1
      BY <3>2 DEF Grows
    <3>4. r.ts = p.ts /\ r.tot = p.tot /\ r.cnt = p.cnt
      BY <3>3
    <3>5. r.ts \in 1 .. lastTs
      BY <1>1, <3>2, <3>4 DEF IsCheckpoint
    <3>6. ASSUME NEW n \in 1 .. Len(e1)
          PROVE  e1[n].ts \in 1 .. lastTs
      <4>1. Listed(p.deltas) /\ Listed(e1)
        BY <3>2, <3>3 DEF IsCheckpoint, Grows
      <4>2. CASE n \in 1 .. Len(p.deltas)
        <5>1. e1[n] = p.deltas[n]
          BY <3>2, <3>3, <4>2 DEF Grows
        <5>2. p.deltas[n].ts \in 1 .. Len(closed)
          BY <3>2, <4>2 DEF IsCheckpoint
        <5> QED BY <1>1, <5>1, <5>2
      <4>3. CASE n \in (Len(p.deltas) + 1) .. Len(e1)
        <5>1. e1[n].ts = lastTs
          BY <3>2, <3>3, <4>3 DEF Grows
        <5> QED BY <1>1, <5>1
      <4> QED BY <4>1, <4>2, <4>3 DEF Listed
    <3>7. Listed(r.deltas)
      BY <3>2 DEF Grows
    <3> QED BY <1>4, <2>1, <3>3, <3>4, <3>5, <3>6, <3>7 DEF IsCheckpoint
  <2>3. CASE j \in (Len(chkpts) + 1) .. Len(new)
    <3>1. PICK c : r = [ts |-> lastTs, tot |-> tot, cnt |-> c, deltas |-> <<>>]
      BY <1>3, <2>1, <2>3 DEF Continues
    <3>2. r.ts = lastTs /\ r.deltas = <<>> /\ r.tot = tot /\ r.cnt = c
      BY <3>1
    <3>3. Listed(r.deltas) /\ Len(r.deltas) = 0
      BY <3>2 DEF Listed
    <3>4. r.ts \in 1 .. lastTs
      BY <1>1, <3>2
    <3> QED BY <1>4, <2>1, <3>1, <3>2, <3>3, <3>4 DEF IsCheckpoint
  <2> QED BY <1>1, <1>3, <2>2, <2>3 DEF Continues, Listed
<1>6. chkpts' # <<>> /\ chkpts'[1].ts = 1
  <2>1. Listed(new)
    BY <1>3 DEF Continues
  <2>2. new # <<>>
    BY <1>3, <2>1, ListedEmpty
  <2>3. CASE Len(chkpts) = 0
    <3>1. PICK c : new[1] = [ts |-> lastTs, tot |-> tot, cnt |-> c, deltas |-> <<>>]
      BY <1>3, <2>1, <2>3 DEF Continues, Listed
    <3>2. closed = <<>>
      BY <2>3, ListedEmpty, <1>1 DEF ChainInv
    <3>3. lastTs = 1
      BY <1>1, <3>2
    <3>4. new[1].ts = lastTs
      BY <3>1
    <3> QED BY <1>2, <2>2, <3>3, <3>4
  <2>4. CASE Len(chkpts) >= 1
    <3>1. IsCheckpoint(chkpts[1]) /\ Grows(chkpts[1], new[1])
      BY <1>1, <1>3, <2>4 DEF Continues
    <3>2. chkpts[1].ts \in 1 .. Len(closed)
      BY <3>1 DEF IsCheckpoint
    <3>3. closed # <<>>
      BY <1>1, <3>2, ListedEmpty
    <3>4. chkpts[1].ts = 1
      BY <3>3 DEF ChainInv
    <3>5. new[1].ts = chkpts[1].ts
      BY <3>1 DEF Grows
    <3> QED BY <1>2, <2>2, <3>4, <3>5
  <2> QED BY <1>1, <2>3, <2>4
<1>7. Listed(chkpts')
  BY <1>2, <1>3 DEF Continues
<1>8. (\A j \in 1 .. Len(chkpts) : IsCheckpoint(chkpts[j]))'
  BY <1>2, <1>5 DEF IsCheckpoint
<1> QED BY <1>1, <1>4, <1>6, <1>7, <1>8 DEF ChainInv

\* What a step does to the past.
Within == /\ chkpts' = chkpts /\ closed' = closed
          /\ lastTs' = IF lastTs = 0 THEN 1 ELSE lastTs
Closes == /\ lastTs > 0 /\ lastTs' = lastTs + 1
          /\ Extends(chkpts') /\ \E e : closed' = Append(closed, e)
Clears == chkpts' = <<>> /\ closed' = <<>> /\ lastTs' = 0

LEMMA StepKinds == CMG!Next => Within \/ Closes \/ Clears
<1>1. ASSUME NEW x \in Key, NEW c \in ChainWeights, CMG!UpdateSameTs(x, c)
      PROVE  Within
  <2>1. PICK now : now = CMG!Now
    OBVIOUS
  <2>2. IsNow(now) /\ now.chkpts = chkpts
    BY <2>1 DEF CMG!Now, IsNow
  <2>3. CMG!Count(now, x, c)
    BY <1>1, <2>1 DEF CMG!UpdateSameTs
  <2>4. chkpts' = chkpts
    BY <2>2, <2>3, CountKeepsCheckpoints
  <2> QED BY <1>1, <2>4 DEF CMG!UpdateSameTs, Within
<1>2. ASSUME NEW x \in Key, NEW c \in ChainWeights, CMG!UpdateNextTs(x, c)
      PROVE  Closes
  <2>1. PICK now :
          /\ now = CMG!CloseOld \/ \E phantom : now = CMG!CloseNew(phantom)
          /\ CMG!Count(now, x, c)
    BY <1>2 DEF CMG!UpdateNextTs
  <2>2. IsNow(now) /\ Extends(now.chkpts)
    BY <2>1, CloseExtends
  <2>3. chkpts' = now.chkpts
    BY <2>1, <2>2, CountKeepsCheckpoints
  <2> QED BY <1>2, <2>2, <2>3 DEF CMG!UpdateNextTs, Closes
<1>3. CMG!Clear => Clears
  BY DEF CMG!Clear, Clears
<1> QED BY <1>1, <1>2, <1>3 DEF CMG!Next

LEMMA ChainStep ==
  ASSUME ChainInv, CMG!Next \/ UNCHANGED <<lastTs, closed, chkpts>>
  PROVE  ChainInv'
<1>1. CASE UNCHANGED <<lastTs, closed, chkpts>>
  BY <1>1 DEF ChainInv, IsCheckpoint
<1>2. CASE Within
  <2>1. lastTs' \in Nat /\ Len(closed') = IF lastTs' = 0 THEN 0 ELSE lastTs' - 1
    BY <1>2 DEF Within, ChainInv
  <2> QED BY <1>2, <2>1 DEF Within, ChainInv, IsCheckpoint
<1>3. CASE Closes
  BY <1>3, CloseStep DEF Closes
<1>4. CASE Clears
  <2>1. Listed(<<>>) /\ Len(<<>>) = 0
    BY DEF Listed
  <2> QED BY <1>4, <2>1 DEF Clears, ChainInv
<1> QED BY <1>1, <1>2, <1>3, <1>4, StepKinds

\* The invariant of the chain; it says nothing of the other classes.
HistoryInv == class = "CMG" => ChainInv

LEMMA HistoryInitial == Init => HistoryInv
BY InitChain DEF Init, HistoryInv

LEMMA HistoryStep == HistoryInv /\ [Next]_vars => HistoryInv'
<1> SUFFICES ASSUME HistoryInv, [Next]_vars, class' = "CMG" PROVE ChainInv'
  BY DEF HistoryInv
<1>1. CASE UNCHANGED vars
  <2>1. class = "CMG" /\ UNCHANGED <<lastTs, closed, chkpts>>
    BY <1>1 DEF vars, shared, ofCMG
  <2> QED BY <2>1, ChainStep DEF HistoryInv
<1>2. CASE Next
  <2>1. class = "CMG" /\ CMG!Next
    BY <1>2 DEF Next
  <2> QED BY <2>1, ChainStep DEF HistoryInv
<1> QED BY <1>1, <1>2

-----------------------------------------------------------------------------
(* The operators of the class and those the lemmas are about               *)

MG == INSTANCE MGSketchProofs

LEMMA SameSize ==
  /\ \A S : (MG!IsFiniteSet(S) <=> IsFiniteSet(S)) /\ MG!Cardinality(S) = Cardinality(S)
  /\ \A S : CMG!Cardinality(S) = Cardinality(S)
BY DEF MG!IsFiniteSet, IsFiniteSet, MG!Cardinality, CMG!Cardinality, Cardinality

LEMMA ChainConstants ==
  /\ MG!SketchAssumption
  /\ IsFiniteSet(Key) /\ K \in Nat /\ K >= 2 /\ NoMin \in Nat
  /\ EpsNum \in Nat /\ EpsDen \in Nat \ {0}
  /\ ChainWeights \in SUBSET (Nat \ {0}) /\ ChainMaxTotal \in Nat /\ ChainMaxTotal < NoMin
<1>1. ChainMaxTotal \in Nat /\ ChainMaxTotal < NoMin
  BY SketchesAssumption DEF SketchesAssumption
<1>2. NoMin \in Nat \ {0}
  BY <1>1, SketchesAssumption DEF SketchesAssumption
<1>3. EpsNum \in Nat /\ EpsDen \in Nat \ {0}
  BY SketchesAssumption DEF SketchesAssumption
<1>4. QED
  BY <1>1, <1>2, <1>3, SameSize, SketchesAssumption DEF SketchesAssumption, MG!SketchAssumption

LEMMA SameSketch ==
  /\ CMG!EmptySketch = MG!EmptySketch /\ CMG!SketchValue = MG!SketchValue
  /\ \A cnt : CMG!InTable(cnt) = MG!InTable(cnt)
  /\ \A q : CMG!ResetDelta(q) = MG!ResetDelta(q)
  /\ \A q, x, c : CMG!UpdateImpl(q, x, c) = MG!UpdateImpl(q, x, c)
<1>1. CMG!EmptySketch = MG!EmptySketch /\ CMG!SketchValue = MG!SketchValue
  BY DEF CMG!EmptySketch, MG!EmptySketch, CMG!SketchValue, MG!SketchValue
<1>2. \A cnt : CMG!InTable(cnt) = MG!InTable(cnt)
  BY DEF CMG!InTable, MG!InTable
<1>3. \A cnt : CMG!MinOf(cnt) = MG!MinOf(cnt)
  BY <1>2 DEF CMG!MinOf, MG!MinOf
<1>4. \A q : CMG!ResetDelta(q) = MG!ResetDelta(q)
  BY <1>2, <1>3 DEF CMG!ResetDelta, MG!ResetDelta
<1>5. \A q : CMG!SubtractMin(q) = MG!SubtractMin(q)
  BY <1>2, <1>3 DEF CMG!SubtractMin, MG!SubtractMin
<1>6. \A q : CMG!SubtractPasses(q) = MG!SubtractPasses(q)
  BY <1>5 DEF CMG!SubtractPasses, MG!SubtractPasses
<1>7. \A q, x : CMG!InsertLeftover(q, x) = MG!InsertLeftover(q, x)
  BY DEF CMG!InsertLeftover, MG!InsertLeftover, CMG!Lesser, MG!Lesser
<1>8. \A cnt : CMG!HasRoom(cnt) = MG!HasRoom(cnt)
  BY <1>2, SameSize DEF CMG!HasRoom, MG!HasRoom
<1>9. ASSUME NEW q, NEW x, NEW c PROVE CMG!UpdateImpl(q, x, c) = MG!UpdateImpl(q, x, c)
  BY <1>2, <1>6, <1>7, <1>8 DEF CMG!UpdateImpl, MG!UpdateImpl, CMG!Lesser, MG!Lesser
<1>10. QED
  BY <1>1, <1>2, <1>4, <1>9

LEMMA SameHeap ==
  /\ \A h, x : CMG!Position(h, x) = Position(h, x)
  /\ \A h, key : CMG!IsHeap(h, key) <=> IsHeap(h, key)
  /\ \A h, key, i : CMG!PushUp(h, key, i) = PushUp(h, key, i)
  /\ \A h, key, i : CMG!MarkUpdated(h, key, i) = MarkUpdated(h, key, i)
  /\ \A h, key, i : CMG!HeapRemove(h, key, i) = HeapRemove(h, key, i)
  /\ \A h, key, x : CMG!HeapInsert(h, key, x) = HeapInsert(h, key, x)
<1>1. \A h, x : CMG!Position(h, x) = Position(h, x)
  BY DEF CMG!Position, Position
<1>2. \A h, key : CMG!IsHeap(h, key) <=> IsHeap(h, key)
  BY DEF CMG!IsHeap, IsHeap
<1>3. CMG!Chain = Chain
  BY DEF CMG!Chain, Chain
<1>4. \A S : CMG!Min(S) = Min(S) /\ CMG!Max(S) = Max(S)
  BY DEF CMG!Min, Min, CMG!Max, Max
<1>5. \A h, key, i : CMG!PushUp(h, key, i) = PushUp(h, key, i)
  BY <1>3, <1>4 DEF CMG!PushUp, PushUp
<1>6. \A h, key, j : CMG!SmallerChild(h, key, j) = SmallerChild(h, key, j)
  BY DEF CMG!SmallerChild, SmallerChild
<1>7. ASSUME NEW h, NEW key, NEW i PROVE CMG!PushDown(h, key, i) = PushDown(h, key, i)
  BY <1>3, <1>4, <1>6 DEF CMG!PushDown, PushDown
<1>8. \A h, key, i : CMG!MarkUpdated(h, key, i) = MarkUpdated(h, key, i)
  BY <1>5, <1>7 DEF CMG!MarkUpdated, MarkUpdated
<1>9. ASSUME NEW h, NEW key, NEW i PROVE CMG!HeapRemove(h, key, i) = HeapRemove(h, key, i)
  BY <1>8 DEF CMG!HeapRemove, HeapRemove
<1>10. ASSUME NEW h, NEW key, NEW x PROVE CMG!HeapInsert(h, key, x) = HeapInsert(h, key, x)
  BY <1>5 DEF CMG!HeapInsert, HeapInsert
<1>11. QED
  BY <1>1, <1>2, <1>5, <1>8, <1>9, <1>10

-----------------------------------------------------------------------------
(* The sketch of the running timestamp                                     *)

\* The driver passes the weight 1.
UnitWeights == ChainWeights \subseteq {1}

\* The counters q summarise the counts f of a stream of weight t.
SketchOk(q, t, f) ==
  /\ t \in Nat /\ t <= ChainMaxTotal
  /\ f \in [Key -> Nat]
  /\ q \in CMG!SketchValue /\ MG!LazyMin(q)
  /\ \E e \in Nat : MG!Sound(q, f, e) /\ (UnitWeights => MG!Mass(q, e, t, K))
  /\ UnitWeights => Cardinality(CMG!InTable(q.cnt)) <= K - 1

LEMMA TableIs ==
  ASSUME NEW cnt
  PROVE  /\ CMG!InTable(cnt) \in SUBSET Key
         /\ \A x \in Key : x \in CMG!InTable(cnt) <=> cnt[x] # 0
BY DEF CMG!InTable

LEMMA EmptySketchOk ==
  ASSUME NEW f \in [Key -> Nat], \A x \in Key : f[x] = 0
  PROVE  SketchOk(CMG!EmptySketch, 0, f)
<1>1. MG!EmptySketch \in MG!SketchValue /\ MG!Sound(MG!EmptySketch, f, 0) /\ MG!LazyMin(MG!EmptySketch)
  BY ChainConstants, MG!EmptyIsSound
<1>2. MG!Rate(K)
  BY DEF MG!Rate
<1>3. MG!Mass(MG!EmptySketch, 0, 0, K)
  BY <1>2, ChainConstants, MG!EmptyBalances
<1>4. CMG!InTable(CMG!EmptySketch.cnt) = {}
  BY DEF CMG!InTable, CMG!EmptySketch
<1>5. Cardinality(CMG!InTable(CMG!EmptySketch.cnt)) <= K - 1
  BY <1>4, FS_EmptySet, ChainConstants
<1>6. QED
  BY <1>1, <1>3, <1>5, SameSketch, ChainConstants DEF SketchOk

LEMMA SketchCounts ==
  ASSUME NEW q, NEW t, NEW f, SketchOk(q, t, f),
         NEW x \in Key, NEW c \in ChainWeights, t + c <= ChainMaxTotal
  PROVE  SketchOk(CMG!UpdateImpl(q, x, c), t + c, [f EXCEPT ![x] = @ + c])
<1>1. PICK r, g : r = CMG!UpdateImpl(q, x, c) /\ g = [f EXCEPT ![x] = @ + c]
  OBVIOUS
<1>2. r = MG!UpdateImpl(q, x, c) /\ q \in MG!SketchValue /\ f \in [Key -> Nat] /\ MG!LazyMin(q)
  BY <1>1, SameSketch DEF SketchOk
<1>3. PICK e \in Nat : MG!Sound(q, f, e) /\ (UnitWeights => MG!Mass(q, e, t, K))
  BY DEF SketchOk
<1>4. c \in Nat \ {0} /\ t \in Nat /\ t + c < NoMin /\ t + c \in Nat
  BY ChainConstants DEF SketchOk
<1>5. PICK h \in Nat : h = e + c - (r.cnt[x] - q.cnt[x]) /\ MG!Sound(r, g, h)
                       /\ r \in MG!SketchValue /\ MG!LazyMin(r)
  <2>1. LET ff == [f EXCEPT ![x] = @ + c]
            ee == e + c - (r.cnt[x] - q.cnt[x])
        IN /\ r \in MG!SketchValue /\ MG!Sound(r, ff, ee) /\ MG!LazyMin(r)
           /\ ee \in Nat
    BY <1>2, <1>3, <1>4, ChainConstants, MG!UpdateKeeps
  <2>2. QED
    BY <1>1, <2>1
<1>6. UnitWeights => MG!Mass(r, h, t + c, K)
  <2>1. SUFFICES ASSUME UnitWeights PROVE MG!Mass(r, h, t + c, K)
    OBVIOUS
  <2>2. MG!Rate(K) /\ (K # 2 => c = 1) /\ MG!Mass(q, e, t, K)
    BY <1>3, <2>1 DEF MG!Rate, UnitWeights
  <2>3. q.delta <= e
    BY <1>3 DEF MG!Sound
  <2>4. MG!Mass(MG!UpdateImpl(q, x, c),
                e + c - (MG!UpdateImpl(q, x, c).cnt[x] - q.cnt[x]), t + c, K)
    BY <1>2, <1>4, <2>2, <2>3, ChainConstants, MG!UpdateBalances
  <2>5. QED
    BY <1>2, <1>5, <2>4
<1>7. UnitWeights => Cardinality(CMG!InTable(r.cnt)) <= K - 1
  <2>1. SUFFICES ASSUME UnitWeights PROVE Cardinality(CMG!InTable(r.cnt)) <= K - 1
    OBVIOUS
  <2>2. c = 1 /\ MG!Cardinality(MG!InTable(q.cnt)) <= K - 1
    BY <2>1, SameSketch, SameSize DEF UnitWeights, SketchOk
  <2>3. MG!Cardinality(MG!InTable(MG!UpdateImpl(q, x, 1).cnt)) <= K - 1
    BY <1>2, <2>2, ChainConstants, MG!UpdateFits
  <2>4. QED
    BY <1>2, <2>2, <2>3, SameSketch, SameSize
<1>8. g \in [Key -> Nat]
  BY <1>1, <1>2, <1>4
<1>9. QED
  BY <1>1, <1>4, <1>5, <1>6, <1>7, <1>8, SameSketch DEF SketchOk

LEMMA SketchMoves ==
  ASSUME NEW q, NEW t, NEW f, SketchOk(q, t, f), NEW x \in Key, NEW c \in ChainWeights
  PROVE  LET r == CMG!UpdateImpl(q, x, c)
             s == q.cnt[x] + c - r.cnt[x] + q.delta - r.delta
         IN /\ r \in CMG!SketchValue /\ s \in Nat
            /\ \A y \in CMG!InTable(r.cnt) :
                 y # x => y \in CMG!InTable(q.cnt) /\ r.cnt[y] = q.cnt[y] - s
            /\ x \in CMG!InTable(q.cnt) =>
                 /\ s = 0 /\ r.cnt[x] = q.cnt[x] + c
                 /\ CMG!InTable(r.cnt) = CMG!InTable(q.cnt)
<1>1. q \in MG!SketchValue /\ MG!LazyMin(q) /\ c \in Nat \ {0}
  BY SameSketch, ChainConstants DEF SketchOk
<1>2. LET r == MG!UpdateImpl(q, x, c)
          s == q.cnt[x] + c - r.cnt[x] + q.delta - r.delta
      IN /\ r \in MG!SketchValue /\ s \in Nat
         /\ \A y \in MG!InTable(r.cnt) :
              y # x => y \in MG!InTable(q.cnt) /\ r.cnt[y] = q.cnt[y] - s
         /\ x \in MG!InTable(q.cnt) =>
              /\ s = 0 /\ r.cnt[x] = q.cnt[x] + c
              /\ MG!InTable(r.cnt) = MG!InTable(q.cnt)
  BY <1>1, ChainConstants, MG!UpdateTakes
<1>3. QED
  BY <1>2, SameSketch

\* What the end of a timestamp writes down of the sketch q.
LEMMA SketchSettles ==
  ASSUME NEW q, NEW t, NEW f, SketchOk(q, t, f)
  PROVE  /\ SketchOk(CMG!ResetDelta(q), t, f)
         /\ CMG!ResetDelta(q).delta = 0 /\ CMG!ResetDelta(q).cnt = CMG!CntPrime(q)
         /\ CMG!CntPrime(q) \in [Key -> Nat]
         /\ CMG!InTable(CMG!CntPrime(q)) = CMG!InTable(q.cnt)
         /\ q.cnt \in [Key -> Nat] /\ q.delta \in Nat
         /\ \A x \in CMG!InTable(q.cnt) : CMG!CntPrime(q)[x] = q.cnt[x] - q.delta
         /\ \A x \in Key : /\ CMG!CntPrime(q)[x] <= f[x]
                           /\ UnitWeights => K * (f[x] - CMG!CntPrime(q)[x]) <= t
<1>1. PICK r : r = CMG!ResetDelta(q) /\ r = MG!ResetDelta(q)
  BY SameSketch
<1>2. /\ t \in Nat /\ f \in [Key -> Nat] /\ q \in MG!SketchValue /\ MG!LazyMin(q)
      /\ t <= ChainMaxTotal /\ (UnitWeights => Cardinality(CMG!InTable(q.cnt)) <= K - 1)
  BY SameSketch DEF SketchOk
<1>3. PICK e \in Nat : MG!Sound(q, f, e) /\ (UnitWeights => MG!Mass(q, e, t, K))
  BY DEF SketchOk
<1>4. r \in MG!SketchValue /\ r.delta = 0 /\ MG!Sound(r, f, e) /\ MG!LazyMin(r)
  <2>1. LET w == MG!ResetDelta(q)
        IN w \in MG!SketchValue /\ w.delta = 0 /\ MG!Sound(w, f, e) /\ (MG!LazyMin(q) => MG!LazyMin(w))
    BY <1>2, <1>3, ChainConstants, MG!ResetDeltaKeeps
  <2>2. QED
    BY <1>1, <1>2, <2>1
<1>5. /\ q.cnt \in [Key -> Nat] /\ q.delta \in Nat
      /\ r.cnt \in [Key -> Nat]
  BY <1>2, <1>4 DEF MG!SketchValue
<1>6. \A x \in CMG!InTable(q.cnt) : q.delta < q.cnt[x]
  BY <1>3, SameSketch DEF MG!Sound, CMG!InTable
<1>7. r.cnt = [x \in Key |-> IF x \in CMG!InTable(q.cnt) THEN q.cnt[x] - q.delta ELSE 0]
  <2>1. CASE q.delta = 0
    <3>1. r = q
      BY <1>1, <2>1 DEF CMG!ResetDelta
    <3>2. \A x \in Key : q.cnt[x] = IF x \in CMG!InTable(q.cnt) THEN q.cnt[x] - q.delta ELSE 0
      BY <1>5, <2>1, TableIs
    <3>3. QED
      BY <1>5, <3>1, <3>2
  <2>2. CASE q.delta # 0
    BY <1>1, <2>2 DEF CMG!ResetDelta
  <2>3. QED
    BY <2>1, <2>2
<1>8. r.cnt = CMG!CntPrime(q)
  <2>1. \A x \in Key : (IF x \in CMG!InTable(q.cnt) THEN q.cnt[x] - q.delta ELSE 0)
                       = (IF q.cnt[x] < q.delta THEN 0 ELSE q.cnt[x] - q.delta)
    <3>1. SUFFICES ASSUME NEW x \in Key
                   PROVE  (IF x \in CMG!InTable(q.cnt) THEN q.cnt[x] - q.delta ELSE 0)
                          = (IF q.cnt[x] < q.delta THEN 0 ELSE q.cnt[x] - q.delta)
      OBVIOUS
    <3>2. q.cnt[x] \in Nat
      BY <1>5
    <3>3. CASE x \in CMG!InTable(q.cnt)
      BY <1>5, <1>6, <3>2, <3>3
    <3>4. CASE x \notin CMG!InTable(q.cnt)
      BY <1>5, <3>2, <3>4, TableIs
    <3>5. QED
      BY <3>3, <3>4
  <2>2. QED
    BY <1>7, <2>1 DEF CMG!CntPrime
<1>9. CMG!InTable(r.cnt) = CMG!InTable(q.cnt)
  <2>1. \A x \in Key : r.cnt[x] # 0 <=> q.cnt[x] # 0
    BY <1>5, <1>6, <1>7, TableIs
  <2>2. QED
    BY <2>1 DEF CMG!InTable
<1>10. \A x \in CMG!InTable(q.cnt) : r.cnt[x] = q.cnt[x] - q.delta
  BY <1>7, TableIs
<1>11. \A x \in Key : r.cnt[x] <= f[x] /\ f[x] <= r.cnt[x] + e
  <2>1. SUFFICES ASSUME NEW x \in Key PROVE r.cnt[x] <= f[x] /\ f[x] <= r.cnt[x] + e
    OBVIOUS
  <2>2. r.cnt[x] \in Nat /\ f[x] \in Nat
    BY <1>2, <1>5
  <2>3. /\ r.cnt[x] <= f[x]
        /\ x \in MG!InTable(r.cnt) => f[x] <= r.cnt[x] + e - 0
        /\ x \notin MG!InTable(r.cnt) => f[x] <= e
    BY <1>4 DEF MG!Sound
  <2>4. QED
    BY <2>2, <2>3
<1>12. UnitWeights => K * e <= t /\ MG!Mass(r, e, t, K)
  <2>1. SUFFICES ASSUME UnitWeights PROVE K * e <= t /\ MG!Mass(r, e, t, K)
    OBVIOUS
  <2>2. MG!Rate(K) /\ (q.delta = 0 \/ MG!LazyMin(q)) /\ MG!Mass(q, e, t, K)
    BY <1>2, <1>3, <2>1 DEF MG!Rate
  <2>3. K * e + MG!Sum(MG!ResetDelta(q).cnt, Key) <= t
    BY <1>2, <1>3, <2>2, ChainConstants, MG!ResetBalances
  <2>4. MG!Sum(r.cnt, Key) \in Nat
    BY <1>5, ChainConstants, MG!CountSum
  <2>5. K * e \in Nat
    BY ChainConstants
  <2>6. K * (e - 0) + 0 + MG!Sum(r.cnt, Key) <= t
    <3>1. e - 0 = e /\ K * e + 0 = K * e
      BY <2>5
    <3>2. QED
      BY <1>1, <2>3, <3>1
  <2>7. MG!Mass(r, e, t, K)
    BY <1>4, <2>6 DEF MG!Mass
  <2>8. QED
    BY <1>1, <1>2, <2>3, <2>4, <2>5, <2>7
<1>13. ASSUME UnitWeights, NEW x \in Key
       PROVE  K * (f[x] - r.cnt[x]) <= t
  <2>1. PICK k \in Nat : k = f[x] - r.cnt[x]
    BY <1>2, <1>5, <1>11
  <2>2. k <= e
    BY <1>2, <1>5, <1>11, <2>1
  <2>3. K \in Nat /\ K * e <= t
    BY <1>12, <1>13, ChainConstants
  <2>4. K * k <= K * e
    BY ONLY <2>2, <2>3, e \in Nat, k \in Nat
  <2>5. QED
    BY <1>2, <2>1, <2>3, <2>4
<1>14. SketchOk(r, t, f)
  <2>1. UnitWeights => Cardinality(CMG!InTable(r.cnt)) <= K - 1
    BY <1>2, <1>9
  <2>2. QED
    BY <1>2, <1>4, <1>12, <2>1, SameSketch DEF SketchOk
<1>15. QED
  BY <1>1, <1>4, <1>5, <1>8, <1>9, <1>10, <1>11, <1>13, <1>14

-----------------------------------------------------------------------------
(* The counters that leave the heaps                                       *)

Lefts(g, h, key, gone, n) ==
  g = [i \in 0 .. n |->
         IF i = 0 THEN h
         ELSE CMG!HeapRemove(g[i - 1], key, CMG!Position(g[i - 1], gone[i]))]

LEMMA LeftsExist ==
  ASSUME NEW h, NEW key, NEW gone, NEW m \in Nat
  PROVE  \E g : Lefts(g, h, key, gone, m)
<1> DEFINE W == {n \in Nat : \E g : Lefts(g, h, key, gone, n)}
<1>1. 0 \in W
  <2>1. Lefts([i \in 0 .. 0 |-> h], h, key, gone, 0)
    BY DEF Lefts
  <2>2. QED
    BY <2>1
<1>2. ASSUME NEW n \in W PROVE n + 1 \in W
  <2>1. PICK g : Lefts(g, h, key, gone, n)
    OBVIOUS
  <2>2. n \in Nat
    OBVIOUS
  <2>3. PICK e : e = CMG!HeapRemove(g[n], key, CMG!Position(g[n], gone[n + 1]))
    OBVIOUS
  <2>4. PICK w : w = [i \in 0 .. n + 1 |-> IF i = n + 1 THEN e ELSE g[i]]
    OBVIOUS
  <2>5. \A i \in 0 .. n + 1 : w[i] = IF i = n + 1 THEN e ELSE g[i]
    BY <2>4
  <2>6. \A i \in 0 .. n : g[i] = IF i = 0 THEN h
                  ELSE CMG!HeapRemove(g[i - 1], key, CMG!Position(g[i - 1], gone[i]))
    BY <2>1 DEF Lefts
  <2>7. \A i \in 0 .. n + 1 : w[i] = IF i = 0 THEN h
                  ELSE CMG!HeapRemove(w[i - 1], key, CMG!Position(w[i - 1], gone[i]))
    <3>1. SUFFICES ASSUME NEW i \in 0 .. n + 1
                   PROVE  w[i] = IF i = 0 THEN h
                            ELSE CMG!HeapRemove(w[i - 1], key, CMG!Position(w[i - 1], gone[i]))
      OBVIOUS
    <3>2. CASE i = 0
      <4>1. 0 \in 0 .. n /\ 0 \in 0 .. n + 1 /\ 0 # n + 1
        BY <2>2
      <4>2. QED
        BY <2>5, <2>6, <3>2, <4>1
    <3>3. CASE i = n + 1
      <4>1. n \in 0 .. n + 1 /\ n # n + 1 /\ i - 1 = n /\ i # 0
        BY <2>2, <3>3
      <4>2. QED
        BY <2>3, <2>5, <3>3, <4>1
    <3>4. CASE i # 0 /\ i # n + 1
      <4>1. i \in 0 .. n /\ i - 1 \in 0 .. n + 1 /\ i - 1 # n + 1
        BY <2>2, <3>4
      <4>2. QED
        BY <2>5, <2>6, <3>4, <4>1
    <3>5. QED
      BY <3>2, <3>3, <3>4
  <2>8. Lefts(w, h, key, gone, n + 1)
    BY <2>4, <2>7 DEF Lefts
  <2>9. QED
    BY <2>2, <2>8
<1>3. W = Nat
  <2>1. W \in SUBSET Nat
    OBVIOUS
  <2> HIDE DEF W
  <2>2. QED
    BY <1>1, <1>2, <2>1, NatSetInduction
<1>4. QED
  BY <1>3

LEMMA RemoveAllIs ==
  ASSUME NEW X, NEW h \in Seq(X), NoRepeat(h), NEW key,
         NEW gone \in Seq(X), NoRepeat(gone), Items(gone) \subseteq Items(h)
  PROVE  LET r == CMG!RemoveAll(h, key, gone)
         IN /\ r \in Seq(X) /\ NoRepeat(r) /\ Items(r) = Items(h) \ Items(gone)
            /\ key \in [X -> Int] /\ IsHeap(h, key) => IsHeap(r, key)
<1>1. PICK n \in Nat : n = Len(gone)
  OBVIOUS
<1>2. PICK g : Lefts(g, h, key, gone, n) /\ CMG!RemoveAll(h, key, gone) = g[n]
  <2>1. PICK f : /\ CMG!RemoveAll(h, key, gone) = f[n]
                 /\ f = CHOOSE g : Lefts(g, h, key, gone, n)
    BY <1>1 DEF CMG!RemoveAll, Lefts
  <2>2. \E g : Lefts(g, h, key, gone, n)
    BY LeftsExist
  <2>3. Lefts(f, h, key, gone, n)
    BY <2>1, <2>2
  <2>4. QED
    BY <2>1, <2>3
<1>3. \A i \in 0 .. n : g[i] = IF i = 0 THEN h
                          ELSE HeapRemove(g[i - 1], key, Position(g[i - 1], gone[i]))
  BY <1>2, SameHeap DEF Lefts
<1> DEFINE First(i) == {gone[j] : j \in 1 .. i}
           Good(i) == /\ g[i] \in Seq(X) /\ NoRepeat(g[i]) /\ Items(g[i]) = Items(h) \ First(i)
                      /\ key \in [X -> Int] /\ IsHeap(h, key) => IsHeap(g[i], key)
           W == {i \in Nat : i <= n => Good(i)}
<1>4. 0 \in W
  <2>1. First(0) = {} /\ 0 \in 0 .. n
    OBVIOUS
  <2>2. g[0] = h
    BY <1>3, <2>1
  <2>3. QED
    BY <2>1, <2>2
<1>5. ASSUME NEW i \in W PROVE i + 1 \in W
  <2>1. SUFFICES ASSUME i + 1 <= n PROVE Good(i + 1)
    OBVIOUS
  <2>2. i \in Nat /\ i <= n /\ Good(i) /\ i + 1 \in 0 .. n /\ i + 1 \in 1 .. n
    BY <2>1
  <2>3. PICK a, x, p : a = g[i] /\ x = gone[i + 1] /\ p = Position(a, x)
    OBVIOUS
  <2>4. g[i + 1] = HeapRemove(a, key, p)
    <3>1. i + 1 - 1 = i /\ i + 1 # 0
      BY <2>2
    <3>2. QED
      BY <1>3, <2>2, <2>3, <3>1
  <2>5. x \in Items(h) /\ x \notin First(i)
    <3>1. x \in Items(gone)
      BY <1>1, <2>2, <2>3 DEF Items
    <3>2. \A j \in 1 .. i : j \in 1 .. n /\ j # i + 1
      BY <2>2
    <3>3. \A j \in 1 .. i : gone[j] # x
      BY <1>1, <2>2, <2>3, <3>2 DEF NoRepeat
    <3>4. QED
      BY <3>1, <3>3
  <2>6. a \in Seq(X) /\ NoRepeat(a) /\ x \in Items(a)
    BY <2>2, <2>3, <2>5
  <2>7. p \in 1 .. Len(a) /\ a[p] = x
    BY <2>3, <2>6, PositionIs
  <2>8. LET b == HeapRemove(a, key, p)
        IN /\ b \in Seq(X) /\ Items(b) = Items(a) \ {a[p]} /\ NoRepeat(b)
           /\ key \in [X -> Int] /\ IsHeap(a, key) => IsHeap(b, key)
    BY ONLY <2>6, <2>7, HeapRemoveIs
  <2>9. First(i + 1) = First(i) \cup {x}
    <3>1. \A j : j \in 1 .. i + 1 <=> j \in 1 .. i \/ j = i + 1
      BY <2>2
    <3>2. QED
      BY <2>3, <3>1
  <2>10. Items(g[i + 1]) = Items(h) \ First(i + 1)
    BY <2>2, <2>3, <2>4, <2>7, <2>8, <2>9
  <2>11. QED
    BY <2>2, <2>3, <2>4, <2>8, <2>10
<1>6. W = Nat
  <2>1. W \in SUBSET Nat
    OBVIOUS
  <2> HIDE DEF W
  <2>2. QED
    BY <1>4, <1>5, <2>1, NatSetInduction
<1>7. Good(n)
  <2>1. n \in W
    BY <1>6
  <2> HIDE DEF Good
  <2>2. QED
    BY <2>1
<1>8. First(n) = Items(gone)
  BY <1>1 DEF Items
<1>9. QED
  BY <1>2, <1>7, <1>8

-----------------------------------------------------------------------------
(* The loops of update_new                                                 *)

LEMMA AllowIs ==
  /\ \A n \in Nat : CMG!Allow(n) \in Nat
  /\ \A m, n \in Nat : m <= n => CMG!Allow(m) <= CMG!Allow(n)
<1>1. EpsNum \in Nat /\ EpsDen \in Nat \ {0}
  BY ChainConstants
<1>2. PICK D \in Nat \ {0} : D = EpsDen
  BY <1>1
<1>3. ASSUME NEW a \in Nat, NEW b \in Nat, a <= b
      PROVE  a \div D \in Nat /\ a \div D <= b \div D
  BY ONLY <1>3, a \in Nat, b \in Nat, D \in Nat \ {0}
<1>4. \A n \in Nat : n * EpsNum \in Nat
  BY <1>1
<1>5. ASSUME NEW m \in Nat, NEW n \in Nat, m <= n PROVE m * EpsNum <= n * EpsNum
  BY <1>1, <1>5
<1>6. QED
  BY <1>2, <1>3, <1>4, <1>5 DEF CMG!Allow

LEMMA NegatedIs ==
  ASSUME NEW c \in [Key -> Int]
  PROVE  /\ CMG!Negated(c) \in [Key -> Int]
         /\ \A x \in Key : CMG!Negated(c)[x] = -c[x]
BY DEF CMG!Negated

\* A heap of the counters of the keys T.
HeapOf(h, T) == h \in Seq(Key) /\ NoRepeat(h) /\ Items(h) = T

\* The state of a loop at level d that began with the counters of start.
Loop(st, start, T, d) ==
  /\ st = [c1 |-> st.c1, c2 |-> st.c2, heap1 |-> st.heap1, heap2 |-> st.heap2,
           batch |-> st.batch, full |-> st.full]
  /\ st.full \in BOOLEAN
  /\ st.c1 \in [Key -> Int] /\ st.c2 \in [Key -> Int]
  /\ HeapOf(st.heap1, T) /\ HeapOf(st.heap2, T)
  /\ IsHeap(st.heap1, CMG!Negated(st.c1))
  /\ st.batch \in SUBSET T
  /\ \A x \in Key :
       /\ st.c1[x] = IF x \in st.batch THEN d - CMG!Allow(tot) ELSE start.c1[x]
       /\ st.c2[x] = IF x \in st.batch THEN d + CMG!Allow(tot) ELSE start.c2[x]

LEMMA MarkedHeap ==
  ASSUME NEW T, NEW h, HeapOf(h, T), NEW x \in T, NEW key,
         NEW old \in [Key -> Int], \A y \in Key : y # x => key[y] = old[y]
  PROVE  LET r == CMG!MarkUpdated(h, key, CMG!Position(h, x))
         IN HeapOf(r, T) /\ (IsHeap(h, old) /\ key \in [Key -> Int] => IsHeap(r, key))
<1>1. PICK p : p = Position(h, x)
  OBVIOUS
<1>2. p \in 1 .. Len(h) /\ h[p] = x /\ h \in Seq(Key) /\ NoRepeat(h)
  BY <1>1, PositionIs DEF HeapOf
<1>3. PICK r : r = MarkUpdated(h, key, p) /\ r = CMG!MarkUpdated(h, key, CMG!Position(h, x))
  BY <1>1, SameHeap
<1>4. /\ r \in Seq(Key) /\ Rearranged(r, h)
      /\ key \in [Key -> Int] /\ HeapBut(h, key, p) => IsHeap(r, key)
  <2>1. /\ MarkUpdated(h, key, p) \in Seq(Key) /\ Rearranged(MarkUpdated(h, key, p), h)
        /\ key \in [Key -> Int] /\ HeapBut(h, key, p) => IsHeap(MarkUpdated(h, key, p), key)
    BY ONLY <1>2, MarkUpdatedIs
  <2>2. QED
    BY <1>3, <2>1
<1>5. IsHeap(h, old) => HeapBut(h, key, p)
  <2>1. SUFFICES ASSUME IsHeap(h, old) PROVE HeapBut(h, key, p)
    OBVIOUS
  <2>2. \A y \in Key : y # h[p] => key[y] = old[y]
    BY <1>2
  <2>3. QED
    BY <1>2, <2>1, <2>2, KeyChanged
<1>6. HeapOf(r, T)
  BY <1>2, <1>4 DEF HeapOf, Rearranged
<1>7. QED
  BY <1>3, <1>4, <1>5, <1>6

\* The state r after x was recorded, or the limit was hit.
Recorded(r, st, start, T, d, x) ==
  Loop(r, start, T, d) /\ (r.full \/ r.batch = st.batch \cup {x})

LEMMA RecordIs ==
  ASSUME NEW st, NEW start, NEW T \in SUBSET Key, NEW d \in Int, Loop(st, start, T, d),
         tot \in Nat, NEW x \in T
  PROVE  Recorded(CMG!Record(st, x, d), st, start, T, d, x)
<1>1. PICK r : r = CMG!Record(st, x, d)
  OBVIOUS
<1>2. PICK c1, c2, h1, h2, b, f : st = [c1 |-> c1, c2 |-> c2, heap1 |-> h1, heap2 |-> h2,
                                        batch |-> b, full |-> f]
  BY DEF Loop
<1>3. /\ st.c1 = c1 /\ st.c2 = c2 /\ st.heap1 = h1 /\ st.heap2 = h2 /\ st.batch = b
      /\ st.full = f
  BY <1>2
<1>4. /\ c1 \in [Key -> Int] /\ c2 \in [Key -> Int] /\ HeapOf(h1, T) /\ HeapOf(h2, T)
      /\ IsHeap(h1, CMG!Negated(c1)) /\ b \in SUBSET T
      /\ \A y \in Key :
           /\ c1[y] = IF y \in b THEN d - CMG!Allow(tot) ELSE start.c1[y]
           /\ c2[y] = IF y \in b THEN d + CMG!Allow(tot) ELSE start.c2[y]
  BY <1>3 DEF Loop
<1>5. CASE r = [st EXCEPT !.full = TRUE]
  <2>1. r = [c1 |-> c1, c2 |-> c2, heap1 |-> h1, heap2 |-> h2, batch |-> b, full |-> TRUE]
    BY <1>2, <1>5
  <2>2. /\ r.c1 = c1 /\ r.c2 = c2 /\ r.heap1 = h1 /\ r.heap2 = h2 /\ r.batch = b /\ r.full = TRUE
    BY <2>1
  <2>3. Loop(r, start, T, d)
    BY <1>4, <2>1, <2>2 DEF Loop
  <2>4. QED
    BY <1>1, <2>2, <2>3 DEF Recorded
<1>6. CASE r # [st EXCEPT !.full = TRUE]
  <2>1. PICK e1, e2 :
          /\ e1 = [c1 EXCEPT ![x] = d - CMG!Allow(tot)]
          /\ e2 = [c2 EXCEPT ![x] = d + CMG!Allow(tot)]
    OBVIOUS
  <2>2. PICK g1, g2 :
          /\ g1 = CMG!MarkUpdated(h1, CMG!Negated(e1), CMG!Position(h1, x))
          /\ g2 = CMG!MarkUpdated(h2, e2, CMG!Position(h2, x))
    OBVIOUS
  <2>3. r = [st EXCEPT !.c1 = e1, !.c2 = e2, !.batch = b \cup {x}, !.heap1 = g1, !.heap2 = g2]
    BY <1>1, <1>2, <1>3, <1>6, <2>1, <2>2 DEF CMG!Record
  <2>4. r = [c1 |-> e1, c2 |-> e2, heap1 |-> g1, heap2 |-> g2, batch |-> b \cup {x}, full |-> f]
    BY <1>2, <2>3
  <2>5. /\ r.c1 = e1 /\ r.c2 = e2 /\ r.heap1 = g1 /\ r.heap2 = g2 /\ r.batch = b \cup {x}
        /\ r.full = f
    BY <2>4
  <2>6. CMG!Allow(tot) \in Nat
    BY AllowIs
  <2>7. /\ e1 \in [Key -> Int] /\ e2 \in [Key -> Int] /\ x \in Key
        /\ \A y \in Key : /\ e1[y] = IF y = x THEN d - CMG!Allow(tot) ELSE c1[y]
                          /\ e2[y] = IF y = x THEN d + CMG!Allow(tot) ELSE c2[y]
    BY <1>4, <2>1, <2>6
  <2>8. /\ CMG!Negated(c1) \in [Key -> Int] /\ CMG!Negated(e1) \in [Key -> Int]
        /\ \A y \in Key : y # x => CMG!Negated(e1)[y] = CMG!Negated(c1)[y]
    BY <1>4, <2>7, NegatedIs
  <2>9. HeapOf(g1, T) /\ IsHeap(g1, CMG!Negated(e1))
    BY <1>4, <2>2, <2>8, MarkedHeap
  <2>10. HeapOf(g2, T)
    BY <1>4, <2>2, <2>7, MarkedHeap
  <2>11. \A y \in Key :
           /\ e1[y] = IF y \in b \cup {x} THEN d - CMG!Allow(tot) ELSE start.c1[y]
           /\ e2[y] = IF y \in b \cup {x} THEN d + CMG!Allow(tot) ELSE start.c2[y]
    BY <1>4, <2>7
  <2>12. f \in BOOLEAN
    BY <1>3 DEF Loop
  <2>13. Loop(r, start, T, d)
    BY <1>4, <2>4, <2>5, <2>7, <2>9, <2>10, <2>11, <2>12 DEF Loop
  <2>14. QED
    BY <1>1, <1>3, <2>5, <2>13 DEF Recorded
<1>7. QED
  BY <1>5, <1>6

-----------------------------------------------------------------------------
(* The loop over the top of the max heap: it ends when the limit is hit or *)
(* no counter is above its range.                                          *)

Over(st, T, d) == {x \in T : st.c1[x] > d}

LEMMA OverRecorded ==
  ASSUME NEW st, NEW start, NEW T \in SUBSET Key, NEW d \in Int, Loop(st, start, T, d),
         NEW r, Loop(r, start, T, d), tot \in Nat, NEW x \in T, r.batch = st.batch \cup {x}
  PROVE  Over(r, T, d) = Over(st, T, d) \ {x}
<1>1. CMG!Allow(tot) \in Nat
  BY AllowIs
<1>2. \A y \in T : st.c1[y] \in Int /\ r.c1[y] \in Int /\ y \in Key
  BY DEF Loop
<1>3. \A y \in T : y # x => r.c1[y] = st.c1[y]
  BY <1>2 DEF Loop
<1>4. r.c1[x] = d - CMG!Allow(tot)
  BY <1>2 DEF Loop
<1>5. ~(r.c1[x] > d)
  BY <1>1, <1>4
<1>6. QED
  BY <1>3, <1>5 DEF Over

LEMMA HeapsNonempty ==
  ASSUME NEW T, T # {}, NEW h, HeapOf(h, T)
  PROVE  Len(h) \in Nat /\ Len(h) >= 1 /\ h[1] \in T
<1>1. PICK x : x \in T
  OBVIOUS
<1>2. PICK j \in 1 .. Len(h) : h[j] = x
  BY <1>1 DEF HeapOf, Items
<1>3. Len(h) \in Nat
  BY DEF HeapOf
<1>4. 1 \in 1 .. Len(h)
  BY <1>2, <1>3
<1>5. QED
  BY <1>3, <1>4 DEF HeapOf, Items

Lowered(r, st, start, T, d) ==
  /\ Loop(r, start, T, d)
  /\ \/ r.full
     \/ Over(r, T, d) = {}
     \/ \E x \in Over(st, T, d) : Over(r, T, d) = Over(st, T, d) \ {x}

LEMMA AboveTurnIs ==
  ASSUME NEW st, NEW start, NEW T \in SUBSET Key, T # {}, NEW d \in Int,
         Loop(st, start, T, d), tot \in Nat
  PROVE  Lowered(CMG!AboveTurn(st, d), st, start, T, d)
<1>1. PICK r, x : r = CMG!AboveTurn(st, d) /\ x = st.heap1[1]
  OBVIOUS
<1>2. x \in T /\ Len(st.heap1) >= 1
  BY <1>1, HeapsNonempty DEF Loop
<1>3. st.c1[x] \in Int
  BY <1>2 DEF Loop
<1>4. CASE ~st.full /\ st.c1[x] > d
  <2>1. r = CMG!Record(st, x, d)
    BY <1>1, <1>4 DEF CMG!AboveTurn, CMG!AboveRange
  <2>2. Loop(r, start, T, d) /\ (r.full \/ r.batch = st.batch \cup {x})
    <3>1. Recorded(CMG!Record(st, x, d), st, start, T, d, x)
      BY <1>2, RecordIs
    <3>2. QED
      BY <2>1, <3>1 DEF Recorded
  <2>3. r.batch = st.batch \cup {x} => Over(r, T, d) = Over(st, T, d) \ {x}
    BY <1>2, <2>2, OverRecorded
  <2>4. x \in Over(st, T, d)
    BY <1>2, <1>4 DEF Over
  <2>5. QED
    BY <1>1, <2>2, <2>3, <2>4 DEF Lowered
<1>5. CASE st.full
  BY <1>1, <1>5 DEF CMG!AboveTurn, Lowered
<1>6. CASE ~st.full /\ ~(st.c1[x] > d)
  <2>1. r = st
    BY <1>1, <1>6 DEF CMG!AboveTurn, CMG!AboveRange
  <2>2. Over(st, T, d) = {}
    <3>1. SUFFICES ASSUME NEW y \in T PROVE ~(st.c1[y] > d)
      BY DEF Over
    <3>2. PICK key : key = CMG!Negated(st.c1)
      OBVIOUS
    <3>3. st.c1 \in [Key -> Int] /\ st.heap1 \in Seq(Key) /\ y \in Items(st.heap1)
      BY DEF Loop, HeapOf
    <3>4. key \in [Key -> Int] /\ IsHeap(st.heap1, key)
      BY <3>2, <3>3, NegatedIs DEF Loop
    <3>5. key[x] <= key[y]
      BY <1>1, <3>3, <3>4, HeapTop
    <3>6. key[x] = -st.c1[x] /\ key[y] = -st.c1[y] /\ st.c1[y] \in Int
      BY <1>2, <3>2, <3>3, NegatedIs
    <3>7. QED
      BY <1>3, <1>6, <3>5, <3>6
  <2>3. QED
    BY <1>1, <2>1, <2>2 DEF Lowered
<1>7. QED
  BY <1>4, <1>5, <1>6

LEMMA BelowTurnIs ==
  ASSUME NEW st, NEW start, NEW T \in SUBSET Key, T # {}, NEW d \in Int,
         Loop(st, start, T, d), tot \in Nat, st.full \/ Over(st, T, d) = {}
  PROVE  LET r == CMG!BelowTurn(st, d)
         IN Loop(r, start, T, d) /\ (r.full \/ Over(r, T, d) = {})
<1>1. PICK r, x : r = CMG!BelowTurn(st, d) /\ x = st.heap2[1]
  OBVIOUS
<1>2. x \in T
  BY <1>1, HeapsNonempty DEF Loop
<1>3. CASE ~st.full /\ CMG!BelowRange(st.c2[x], d)
  <2>1. r = CMG!Record(st, x, d)
    BY <1>1, <1>3 DEF CMG!BelowTurn
  <2>2. Loop(r, start, T, d) /\ (r.full \/ r.batch = st.batch \cup {x})
    <3>1. Recorded(CMG!Record(st, x, d), st, start, T, d, x)
      BY <1>2, RecordIs
    <3>2. QED
      BY <2>1, <3>1 DEF Recorded
  <2>3. r.batch = st.batch \cup {x} => Over(r, T, d) = Over(st, T, d) \ {x}
    BY <1>2, <2>2, OverRecorded
  <2>4. QED
    BY <1>1, <1>3, <2>2, <2>3
<1>4. CASE ~(~st.full /\ CMG!BelowRange(st.c2[x], d))
  <2>1. r = st
    BY <1>1, <1>4 DEF CMG!BelowTurn
  <2>2. QED
    BY <1>1, <2>1
<1>5. QED
  BY <1>3, <1>4

AboveTurns(g, start, d, n) ==
  g = [i \in 0 .. n |-> IF i = 0 THEN start ELSE CMG!AboveTurn(g[i - 1], d)]

LEMMA AboveTurnsExist ==
  ASSUME NEW start, NEW d, NEW m \in Nat
  PROVE  \E g : AboveTurns(g, start, d, m)
<1> DEFINE W == {n \in Nat : \E g : AboveTurns(g, start, d, n)}
<1>1. 0 \in W
  <2>1. AboveTurns([i \in 0 .. 0 |-> start], start, d, 0)
    BY DEF AboveTurns
  <2>2. QED
    BY <2>1
<1>2. ASSUME NEW n \in W PROVE n + 1 \in W
  <2>1. PICK g : AboveTurns(g, start, d, n)
    OBVIOUS
  <2>2. n \in Nat
    OBVIOUS
  <2>3. PICK e : e = CMG!AboveTurn(g[n], d)
    OBVIOUS
  <2>4. PICK w : w = [i \in 0 .. n + 1 |-> IF i = n + 1 THEN e ELSE g[i]]
    OBVIOUS
  <2>5. \A i \in 0 .. n + 1 : w[i] = IF i = n + 1 THEN e ELSE g[i]
    BY <2>4
  <2>6. \A i \in 0 .. n : g[i] = IF i = 0 THEN start ELSE CMG!AboveTurn(g[i - 1], d)
    BY <2>1 DEF AboveTurns
  <2>7. \A i \in 0 .. n + 1 : w[i] = IF i = 0 THEN start ELSE CMG!AboveTurn(w[i - 1], d)
    <3>1. SUFFICES ASSUME NEW i \in 0 .. n + 1
                   PROVE  w[i] = IF i = 0 THEN start ELSE CMG!AboveTurn(w[i - 1], d)
      OBVIOUS
    <3>2. CASE i = 0
      <4>1. 0 \in 0 .. n /\ 0 \in 0 .. n + 1 /\ 0 # n + 1
        BY <2>2
      <4>2. QED
        BY <2>5, <2>6, <3>2, <4>1
    <3>3. CASE i = n + 1
      <4>1. n \in 0 .. n + 1 /\ n # n + 1 /\ i - 1 = n /\ i # 0
        BY <2>2, <3>3
      <4>2. QED
        BY <2>3, <2>5, <3>3, <4>1
    <3>4. CASE i # 0 /\ i # n + 1
      <4>1. i \in 0 .. n /\ i - 1 \in 0 .. n + 1 /\ i - 1 # n + 1
        BY <2>2, <3>4
      <4>2. QED
        BY <2>5, <2>6, <3>4, <4>1
    <3>5. QED
      BY <3>2, <3>3, <3>4
  <2>8. AboveTurns(w, start, d, n + 1)
    BY <2>4, <2>7 DEF AboveTurns
  <2>9. QED
    BY <2>2, <2>8
<1>3. W = Nat
  <2>1. W \in SUBSET Nat
    OBVIOUS
  <2> HIDE DEF W
  <2>2. QED
    BY <1>1, <1>2, <2>1, NatSetInduction
<1>4. QED
  BY <1>3

BelowTurns(g, start, d, n) ==
  g = [i \in 0 .. n |-> IF i = 0 THEN start ELSE CMG!BelowTurn(g[i - 1], d)]

LEMMA BelowTurnsExist ==
  ASSUME NEW start, NEW d, NEW m \in Nat
  PROVE  \E g : BelowTurns(g, start, d, m)
<1> DEFINE W == {n \in Nat : \E g : BelowTurns(g, start, d, n)}
<1>1. 0 \in W
  <2>1. BelowTurns([i \in 0 .. 0 |-> start], start, d, 0)
    BY DEF BelowTurns
  <2>2. QED
    BY <2>1
<1>2. ASSUME NEW n \in W PROVE n + 1 \in W
  <2>1. PICK g : BelowTurns(g, start, d, n)
    OBVIOUS
  <2>2. n \in Nat
    OBVIOUS
  <2>3. PICK e : e = CMG!BelowTurn(g[n], d)
    OBVIOUS
  <2>4. PICK w : w = [i \in 0 .. n + 1 |-> IF i = n + 1 THEN e ELSE g[i]]
    OBVIOUS
  <2>5. \A i \in 0 .. n + 1 : w[i] = IF i = n + 1 THEN e ELSE g[i]
    BY <2>4
  <2>6. \A i \in 0 .. n : g[i] = IF i = 0 THEN start ELSE CMG!BelowTurn(g[i - 1], d)
    BY <2>1 DEF BelowTurns
  <2>7. \A i \in 0 .. n + 1 : w[i] = IF i = 0 THEN start ELSE CMG!BelowTurn(w[i - 1], d)
    <3>1. SUFFICES ASSUME NEW i \in 0 .. n + 1
                   PROVE  w[i] = IF i = 0 THEN start ELSE CMG!BelowTurn(w[i - 1], d)
      OBVIOUS
    <3>2. CASE i = 0
      <4>1. 0 \in 0 .. n /\ 0 \in 0 .. n + 1 /\ 0 # n + 1
        BY <2>2
      <4>2. QED
        BY <2>5, <2>6, <3>2, <4>1
    <3>3. CASE i = n + 1
      <4>1. n \in 0 .. n + 1 /\ n # n + 1 /\ i - 1 = n /\ i # 0
        BY <2>2, <3>3
      <4>2. QED
        BY <2>3, <2>5, <3>3, <4>1
    <3>4. CASE i # 0 /\ i # n + 1
      <4>1. i \in 0 .. n /\ i - 1 \in 0 .. n + 1 /\ i - 1 # n + 1
        BY <2>2, <3>4
      <4>2. QED
        BY <2>5, <2>6, <3>4, <4>1
    <3>5. QED
      BY <3>2, <3>3, <3>4
  <2>8. BelowTurns(w, start, d, n + 1)
    BY <2>4, <2>7 DEF BelowTurns
  <2>9. QED
    BY <2>2, <2>8
<1>3. W = Nat
  <2>1. W \in SUBSET Nat
    OBVIOUS
  <2> HIDE DEF W
  <2>2. QED
    BY <1>1, <1>2, <2>1, NatSetInduction
<1>4. QED
  BY <1>3

LEMMA RecordAboveIs ==
  ASSUME NEW start, NEW T \in SUBSET Key, NEW d \in Int,
         Loop(start, start, T, d), tot \in Nat
  PROVE  LET r == CMG!RecordAbove(start, d)
         IN Loop(r, start, T, d) /\ (r.full \/ Over(r, T, d) = {})
<1>1. PICK n \in Nat : n = Len(start.heap1)
  <2>1. HeapOf(start.heap1, T)
    BY DEF Loop
  <2>2. Len(start.heap1) \in Nat
    BY <2>1 DEF HeapOf
  <2>3. QED
    BY <2>2
<1>2. PICK g : AboveTurns(g, start, d, n) /\ CMG!RecordAbove(start, d) = g[n]
  <2>1. PICK f : /\ CMG!RecordAbove(start, d) = f[n]
                 /\ f = CHOOSE g : AboveTurns(g, start, d, n)
    BY <1>1 DEF CMG!RecordAbove, AboveTurns
  <2>2. \E g : AboveTurns(g, start, d, n)
    BY AboveTurnsExist
  <2>3. AboveTurns(f, start, d, n)
    BY <2>1, <2>2
  <2>4. QED
    BY <2>1, <2>3
<1>3. \A i \in 0 .. n : g[i] = IF i = 0 THEN start ELSE CMG!AboveTurn(g[i - 1], d)
  BY <1>2 DEF AboveTurns
<1>4. IsFiniteSet(T) /\ Cardinality(T) = n
  <2>1. start.heap1 \in Seq(Key) /\ NoRepeat(start.heap1) /\ Items(start.heap1) = T
    BY DEF Loop, HeapOf
  <2>2. QED
    BY <1>1, <2>1, HeapSize
<1>5. \A st : /\ IsFiniteSet(Over(st, T, d)) /\ Cardinality(Over(st, T, d)) \in Nat
              /\ Cardinality(Over(st, T, d)) <= n
  <2>1. \A st : Over(st, T, d) \in SUBSET T
    BY DEF Over
  <2>2. QED
    BY <1>4, <2>1, FS_Subset, FS_CardinalityType
<1> DEFINE Good(i) == /\ Loop(g[i], start, T, d)
                      /\ \/ g[i].full
                         \/ Over(g[i], T, d) = {}
                         \/ Cardinality(Over(g[i], T, d)) + i <= n
           W == {i \in Nat : i <= n => Good(i)}
<1>6. 0 \in W
  <2>1. 0 \in 0 .. n
    OBVIOUS
  <2>2. g[0] = start
    BY <1>3, <2>1
  <2>3. Cardinality(Over(start, T, d)) + 0 <= n
    BY <1>5
  <2>4. QED
    BY <2>2, <2>3
<1>7. ASSUME NEW i \in W PROVE i + 1 \in W
  <2>1. SUFFICES ASSUME i + 1 <= n PROVE Good(i + 1)
    OBVIOUS
  <2>2. i \in Nat /\ i <= n /\ Good(i) /\ i + 1 \in 0 .. n
    BY <2>1
  <2>3. PICK st, r : st = g[i] /\ r = g[i + 1]
    OBVIOUS
  <2>4. r = CMG!AboveTurn(st, d)
    <3>1. i + 1 - 1 = i /\ i + 1 # 0
      BY <2>2
    <3>2. QED
      BY <1>3, <2>2, <2>3, <3>1
  <2>5. T # {}
    <3>1. Cardinality(T) # 0
      BY <1>4, <2>1, <2>2
    <3>2. QED
      BY <3>1, FS_EmptySet
  <2>6. Loop(st, start, T, d)
    BY <2>2, <2>3
  <2>7. /\ Loop(r, start, T, d)
        /\ \/ r.full
           \/ Over(r, T, d) = {}
           \/ \E x \in Over(st, T, d) : Over(r, T, d) = Over(st, T, d) \ {x}
    <3>1. Lowered(CMG!AboveTurn(st, d), st, start, T, d)
      BY <2>5, <2>6, AboveTurnIs
    <3>2. QED
      BY <2>4, <3>1 DEF Lowered
  <2>8. ASSUME ~r.full, Over(r, T, d) # {}
        PROVE  Cardinality(Over(r, T, d)) + (i + 1) <= n
    <3>1. PICK x \in Over(st, T, d) : Over(r, T, d) = Over(st, T, d) \ {x}
      BY <2>7, <2>8
    <3>2. Cardinality(Over(r, T, d)) = Cardinality(Over(st, T, d)) - 1
      <4>1. PICK O : O = Over(st, T, d)
        OBVIOUS
      <4>2. IsFiniteSet(O) /\ x \in O /\ Over(r, T, d) = O \ {x}
        BY <1>5, <3>1, <4>1
      <4>3. Cardinality(O \ {x}) = Cardinality(O) - 1
        BY ONLY <4>2, FS_RemoveElement
      <4>4. QED
        BY ONLY <4>1, <4>2, <4>3
    <3>3. ~st.full
      <4>1. st.full => r = st
        BY <2>4 DEF CMG!AboveTurn
      <4>2. QED
        BY <2>8, <4>1
    <3>4. Cardinality(Over(st, T, d)) + i <= n
      BY <2>2, <2>3, <3>1, <3>3
    <3>5. Cardinality(Over(st, T, d)) \in Nat
      BY <1>5
    <3>6. QED
      BY <2>2, <3>2, <3>4, <3>5
  <2>9. QED
    BY <2>3, <2>7, <2>8
<1>8. W = Nat
  <2>1. W \in SUBSET Nat
    OBVIOUS
  <2> HIDE DEF W
  <2>2. QED
    BY <1>6, <1>7, <2>1, NatSetInduction
<1>9. Good(n)
  <2>1. n \in W
    BY <1>8
  <2> HIDE DEF Good
  <2>2. QED
    BY <2>1
<1>10. Cardinality(Over(g[n], T, d)) + n <= n => Over(g[n], T, d) = {}
  <2>1. SUFFICES ASSUME Cardinality(Over(g[n], T, d)) + n <= n PROVE Over(g[n], T, d) = {}
    OBVIOUS
  <2>2. Cardinality(Over(g[n], T, d)) \in Nat /\ IsFiniteSet(Over(g[n], T, d))
    BY <1>5
  <2>3. Cardinality(Over(g[n], T, d)) = 0
    BY <2>1, <2>2
  <2>4. QED
    BY <2>2, <2>3, FS_EmptySet
<1>11. QED
  BY <1>2, <1>9, <1>10

LEMMA RecordBelowIs ==
  ASSUME NEW from, NEW start, NEW T \in SUBSET Key, NEW d \in Int,
         Loop(from, start, T, d), tot \in Nat, from.full \/ Over(from, T, d) = {}
  PROVE  LET r == CMG!RecordBelow(from, d)
         IN Loop(r, start, T, d) /\ (r.full \/ Over(r, T, d) = {})
<1>1. PICK n \in Nat : n = Len(from.heap2) /\ (n >= 1 => T # {})
  <2>1. HeapOf(from.heap2, T)
    BY DEF Loop
  <2>2. Len(from.heap2) \in Nat
    BY <2>1 DEF HeapOf
  <2>3. ASSUME Len(from.heap2) >= 1 PROVE T # {}
    <3>1. 1 \in 1 .. Len(from.heap2)
      BY <2>2, <2>3
    <3>2. QED
      BY <2>1, <3>1 DEF HeapOf, Items
  <2>4. QED
    BY <2>2, <2>3
<1>2. PICK g : BelowTurns(g, from, d, n) /\ CMG!RecordBelow(from, d) = g[n]
  <2>1. PICK f : /\ CMG!RecordBelow(from, d) = f[n]
                 /\ f = CHOOSE g : BelowTurns(g, from, d, n)
    BY <1>1 DEF CMG!RecordBelow, BelowTurns
  <2>2. \E g : BelowTurns(g, from, d, n)
    BY BelowTurnsExist
  <2>3. BelowTurns(f, from, d, n)
    BY <2>1, <2>2
  <2>4. QED
    BY <2>1, <2>3
<1>3. \A i \in 0 .. n : g[i] = IF i = 0 THEN from ELSE CMG!BelowTurn(g[i - 1], d)
  BY <1>2 DEF BelowTurns
<1>4. n >= 1 => T # {}
  BY <1>1
<1> DEFINE Good(i) == Loop(g[i], start, T, d) /\ (g[i].full \/ Over(g[i], T, d) = {})
           W == {i \in Nat : i <= n => Good(i)}
<1>5. 0 \in W
  <2>1. 0 \in 0 .. n
    OBVIOUS
  <2>2. g[0] = from
    BY <1>3, <2>1
  <2>3. QED
    BY <2>2
<1>6. ASSUME NEW i \in W PROVE i + 1 \in W
  <2>1. SUFFICES ASSUME i + 1 <= n PROVE Good(i + 1)
    OBVIOUS
  <2>2. i \in Nat /\ i <= n /\ Good(i) /\ i + 1 \in 0 .. n /\ n >= 1
    BY <2>1
  <2>3. PICK st, r : st = g[i] /\ r = g[i + 1]
    OBVIOUS
  <2>4. r = CMG!BelowTurn(st, d)
    <3>1. i + 1 - 1 = i /\ i + 1 # 0
      BY <2>2
    <3>2. QED
      BY <1>3, <2>2, <2>3, <3>1
  <2>5. Loop(st, start, T, d) /\ (st.full \/ Over(st, T, d) = {}) /\ T # {}
    BY <1>4, <2>2, <2>3
  <2>6. Loop(r, start, T, d) /\ (r.full \/ Over(r, T, d) = {})
    BY <2>4, <2>5, BelowTurnIs
  <2>7. QED
    BY <2>3, <2>6
<1>7. W = Nat
  <2>1. W \in SUBSET Nat
    OBVIOUS
  <2> HIDE DEF W
  <2>2. QED
    BY <1>5, <1>6, <2>1, NatSetInduction
<1>8. Good(n)
  <2>1. n \in W
    BY <1>7
  <2> HIDE DEF Good
  <2>2. QED
    BY <2>1
<1>9. QED
  BY <1>2, <1>8

-----------------------------------------------------------------------------
(* An arrival and the counters of update_new                               *)

LEMMA DeletedListIs ==
  ASSUME NEW A \in SUBSET Key, NEW l \in CMG!SetToSeqs(A)
  PROVE  l \in Seq(Key) /\ NoRepeat(l) /\ Items(l) = A /\ CMG!ToSet(l) = A
<1>1. IsFiniteSet(A) /\ Cardinality(A) \in Nat
  BY ChainConstants, FS_Subset, FS_CardinalityType
<1>2. PICK n \in Nat : n = Cardinality(A)
  BY <1>1
<1>3. l \in [1 .. n -> A] /\ \A i, j \in 1 .. n : i # j => l[i] # l[j]
  BY <1>2, SameSize DEF CMG!SetToSeqs
<1>4. l \in Seq(Key) /\ Len(l) = n /\ l \in Seq(A)
  BY <1>3
<1>5. NoRepeat(l)
  BY <1>3, <1>4 DEF NoRepeat
<1>6. Items(l) \in SUBSET A
  BY <1>3, <1>4 DEF Items
<1>7. Cardinality(Items(l)) = Cardinality(A)
  BY <1>2, <1>4, <1>5, HeapSize
<1>8. Items(l) = A
  BY <1>1, <1>6, <1>7, FS_Subset
<1>9. CMG!ToSet(l) = Items(l)
  BY <1>3, <1>4 DEF CMG!ToSet, Items
<1>10. QED
  BY <1>4, <1>5, <1>8, <1>9

LEMMA HeapSameKeys ==
  ASSUME NEW h, NEW old, IsHeap(h, old), Len(h) \in Nat, NEW key,
         \A x \in Items(h) : key[x] = old[x]
  PROVE  IsHeap(h, key)
<1>1. SUFFICES ASSUME NEW i \in 2 .. Len(h) PROVE key[h[i \div 2]] <= key[h[i]]
  BY DEF IsHeap
<1>2. i \in 1 .. Len(h) /\ i \div 2 \in 1 .. Len(h)
  OBVIOUS
<1>3. h[i] \in Items(h) /\ h[i \div 2] \in Items(h)
  BY <1>2 DEF Items
<1>4. old[h[i \div 2]] <= old[h[i]]
  BY DEF IsHeap
<1>5. QED
  BY <1>3, <1>4

LEMMA RaisedHeap ==
  ASSUME NEW T, NEW h, HeapOf(h, T), NEW x \in T, NEW key,
         NEW old \in [Key -> Int], \A y \in Key : y # x => key[y] = old[y]
  PROVE  LET r == CMG!PushUp(h, key, CMG!Position(h, x))
         IN /\ HeapOf(r, T)
            /\ IsHeap(h, old) /\ key \in [Key -> Int] /\ key[x] <= old[x] => IsHeap(r, key)
<1>1. PICK p : p = Position(h, x)
  OBVIOUS
<1>2. p \in 1 .. Len(h) /\ h[p] = x /\ h \in Seq(Key) /\ NoRepeat(h)
  BY <1>1, PositionIs DEF HeapOf
<1>3. PICK r : r = PushUp(h, key, p) /\ r = CMG!PushUp(h, key, CMG!Position(h, x))
  BY <1>1, SameHeap
<1>4. /\ r \in Seq(Key) /\ Rearranged(r, h)
      /\ key \in [Key -> Int] /\ HeapBut(h, key, p) /\ NotTooLarge(h, key, p) => IsHeap(r, key)
  <2>1. LET w == PushUp(h, key, p)
        IN /\ w \in Seq(Key) /\ Rearranged(w, h)
           /\ key \in [Key -> Int] /\ HeapBut(h, key, p) /\ NotTooLarge(h, key, p)
                => IsHeap(w, key)
    BY ONLY <1>2, PushUpIs
  <2>2. QED
    BY <1>3, <2>1
<1>5. ASSUME IsHeap(h, old), key \in [Key -> Int], key[x] <= old[x]
      PROVE  HeapBut(h, key, p) /\ NotTooLarge(h, key, p)
  <2>1. \A y \in Key : y # h[p] => key[y] = old[y]
    BY <1>2
  <2>2. /\ HeapBut(h, key, p)
        /\ key[h[p]] \in Int /\ key[h[p]] <= old[h[p]] => NotTooLarge(h, key, p)
    BY ONLY <1>2, <1>5, <2>1, old \in [Key -> Int], KeyChanged
  <2>3. key[h[p]] \in Int /\ key[h[p]] <= old[h[p]]
    BY <1>2, <1>5
  <2>4. QED
    BY <2>2, <2>3
<1>6. HeapOf(r, T)
  BY <1>2, <1>4 DEF HeapOf, Rearranged
<1>7. QED
  BY <1>3, <1>4, <1>5, <1>6

LEMMA GrownHeap ==
  ASSUME NEW T, NEW h, HeapOf(h, T), NEW x \in Key, x \notin T, NEW key,
         NEW old, \A y \in T : key[y] = old[y]
  PROVE  LET r == CMG!HeapInsert(h, key, x)
         IN /\ HeapOf(r, T \cup {x})
            /\ IsHeap(h, old) /\ key \in [Key -> Int] => IsHeap(r, key)
<1>1. h \in Seq(Key) /\ NoRepeat(h) /\ Items(h) = T /\ Len(h) \in Nat
  BY DEF HeapOf
<1>2. LET g == HeapInsert(h, key, x)
      IN /\ g \in Seq(Key) /\ Items(g) = Items(h) \cup {x}
         /\ NoRepeat(h) /\ x \notin Items(h) => NoRepeat(g)
         /\ key \in [Key -> Int] /\ IsHeap(h, key) => IsHeap(g, key)
  BY ONLY <1>1, x \in Key, HeapInsertIs
<1>3. IsHeap(h, old) => IsHeap(h, key)
  BY <1>1, HeapSameKeys
<1>4. QED
  BY <1>1, <1>2, <1>3, SameHeap DEF HeapOf

\* The counters as one value.
IsCtr(ct) ==
  /\ ct = [sub |-> ct.sub, c1 |-> ct.c1, c2 |-> ct.c2,
           heap1 |-> ct.heap1, heap2 |-> ct.heap2, gone |-> ct.gone]
  /\ ct.sub \in Nat /\ ct.c1 \in [Key -> Int] /\ ct.c2 \in [Key -> Int]
  /\ ct.gone \in SUBSET Key

\* Both heaps hold the keys T, and the max heap is ordered.
Heaped(ct, T) ==
  HeapOf(ct.heap1, T) /\ HeapOf(ct.heap2, T) /\ IsHeap(ct.heap1, CMG!Negated(ct.c1))

\* The counters m once those of the keys A left, at the level u.
Dropped(m, ct, u, T, A, S) ==
  /\ IsCtr(m) /\ Heaped(m, T \ A)
  /\ m.sub = u /\ m.gone = ct.gone \cup (A \cap S)
  /\ \A y \in Key \ A : m.c1[y] = ct.c1[y] /\ m.c2[y] = ct.c2[y]

LEMMA DropIs ==
  ASSUME NEW ct, IsCtr(ct), NEW T \in SUBSET Key, Heaped(ct, T), NEW A \in SUBSET T,
         NEW l \in CMG!SetToSeqs(A), NEW S \in SUBSET Key, NEW u \in Nat
  PROVE  Dropped([CMG!DropCounters(ct, l, S) EXCEPT !.sub = u], ct, u, T, A, S)
<1>1. l \in Seq(Key) /\ NoRepeat(l) /\ Items(l) = A /\ CMG!ToSet(l) = A
  BY DeletedListIs
<1>2. PICK b, c1, c2, h1, h2, gn :
        ct = [sub |-> b, c1 |-> c1, c2 |-> c2, heap1 |-> h1, heap2 |-> h2, gone |-> gn]
  BY DEF IsCtr
<1>3. /\ ct.sub = b /\ ct.c1 = c1 /\ ct.c2 = c2 /\ ct.heap1 = h1 /\ ct.heap2 = h2 /\ ct.gone = gn
  BY <1>2
<1>4. /\ c1 \in [Key -> Int] /\ c2 \in [Key -> Int] /\ gn \in SUBSET Key
      /\ h1 \in Seq(Key) /\ NoRepeat(h1) /\ Items(h1) = T
      /\ h2 \in Seq(Key) /\ NoRepeat(h2) /\ Items(h2) = T
      /\ IsHeap(h1, CMG!Negated(c1))
  BY <1>3 DEF IsCtr, Heaped, HeapOf
<1>5. PICK e1, e2, g1, g2 :
        /\ e1 = [x \in Key |-> IF x \in A THEN 0 ELSE c1[x]]
        /\ e2 = [x \in Key |-> IF x \in A \ S THEN 0 ELSE c2[x]]
        /\ g1 = CMG!RemoveAll(h1, CMG!Negated(c1), l)
        /\ g2 = CMG!RemoveAll(h2, c2, l)
  OBVIOUS
<1>6. PICK m : m = [CMG!DropCounters(ct, l, S) EXCEPT !.sub = u]
  OBVIOUS
<1>7. m = [sub |-> u, c1 |-> e1, c2 |-> e2, heap1 |-> g1, heap2 |-> g2, gone |-> gn \cup (A \cap S)]
  BY <1>1, <1>2, <1>5, <1>6 DEF CMG!DropCounters
<1>8. /\ m.sub = u /\ m.c1 = e1 /\ m.c2 = e2 /\ m.heap1 = g1 /\ m.heap2 = g2
      /\ m.gone = gn \cup (A \cap S)
  BY <1>7
<1>9. /\ e1 \in [Key -> Int] /\ e2 \in [Key -> Int]
      /\ \A y \in Key \ A : e1[y] = c1[y] /\ e2[y] = c2[y]
  BY <1>4, <1>5
<1>10. IsCtr(m)
  BY <1>4, <1>7, <1>8, <1>9 DEF IsCtr
<1>11. CMG!Negated(c1) \in [Key -> Int]
  BY <1>4, NegatedIs
<1>12. HeapOf(g1, T \ A) /\ IsHeap(g1, CMG!Negated(c1))
  <2>1. LET r == CMG!RemoveAll(h1, CMG!Negated(c1), l)
        IN /\ r \in Seq(Key) /\ NoRepeat(r) /\ Items(r) = Items(h1) \ Items(l)
           /\ CMG!Negated(c1) \in [Key -> Int] /\ IsHeap(h1, CMG!Negated(c1))
                => IsHeap(r, CMG!Negated(c1))
    BY <1>1, <1>4, RemoveAllIs
  <2>2. QED
    BY <1>1, <1>4, <1>5, <1>11, <2>1 DEF HeapOf
<1>13. HeapOf(g2, T \ A)
  <2>1. LET r == CMG!RemoveAll(h2, c2, l)
        IN r \in Seq(Key) /\ NoRepeat(r) /\ Items(r) = Items(h2) \ Items(l)
    BY <1>1, <1>4, RemoveAllIs
  <2>2. QED
    BY <1>1, <1>4, <1>5, <2>1 DEF HeapOf
<1>14. IsHeap(g1, CMG!Negated(e1))
  <2>1. \A x \in Items(g1) : CMG!Negated(e1)[x] = CMG!Negated(c1)[x]
    <3>1. \A x \in Items(g1) : x \in Key \ A
      BY <1>12 DEF HeapOf
    <3>2. \A x \in Key : CMG!Negated(e1)[x] = -e1[x] /\ CMG!Negated(c1)[x] = -c1[x]
      BY <1>4, <1>9, NegatedIs
    <3>3. QED
      BY <1>9, <3>1, <3>2
  <2>2. Len(g1) \in Nat
    BY <1>12 DEF HeapOf
  <2>3. QED
    BY <1>12, <2>1, <2>2, HeapSameKeys
<1>15. Heaped(m, T \ A)
  BY <1>8, <1>12, <1>13, <1>14 DEF Heaped
<1>16. QED
  BY <1>3, <1>6, <1>8, <1>9, <1>10, <1>15 DEF Dropped

\* What is recorded of each key; w is the total at the last checkpoint.
Snapped(sn) == {x \in Key : sn[x].in}

SnapTyped(sn) ==
  \A x \in Key : sn[x].in \in BOOLEAN /\ sn[x].cnt \in Nat /\ sn[x].tot \in Nat

BaseOf(sn, w, x) == IF sn[x].in THEN sn[x] ELSE [cnt |-> 0, tot |-> w]

\* c1 and c2 of x, when the sketch is q.
InSync(q, sn, w, ct, x) ==
  LET base == BaseOf(sn, w, x)
  IN /\ ct.c1[x] = q.cnt[x] + ct.sub - base.cnt - CMG!Allow(base.tot)
     /\ ct.c2[x] = q.cnt[x] + ct.sub - base.cnt + CMG!Allow(base.tot)

CtrOk(q, sn, w, ct) ==
  /\ IsCtr(ct) /\ Heaped(ct, CMG!InTable(q.cnt))
  /\ \A x \in CMG!InTable(q.cnt) : InSync(q, sn, w, ct, x)
  /\ ct.gone \cap CMG!InTable(q.cnt) = {}
  /\ ct.gone \subseteq Snapped(sn)
  /\ Snapped(sn) \subseteq ct.gone \cup CMG!InTable(q.cnt)

LEMMA BaseIs ==
  ASSUME NEW sn, SnapTyped(sn), NEW w \in Nat, NEW x \in Key
  PROVE  /\ BaseOf(sn, w, x).cnt \in Nat /\ BaseOf(sn, w, x).tot \in Nat
         /\ CMG!Allow(BaseOf(sn, w, x).tot) \in Nat
<1>1. BaseOf(sn, w, x).cnt \in Nat /\ BaseOf(sn, w, x).tot \in Nat
  BY DEF SnapTyped, BaseOf
<1>2. QED
  BY <1>1, AllowIs

\* Counters that neither left nor moved stay in sync when the level rises by
\* what the sketch took from them.
LEMMA StaysInSync ==
  ASSUME NEW q, NEW r, NEW sn, SnapTyped(sn), NEW w \in Nat, NEW ct, NEW m, NEW y \in Key,
         InSync(q, sn, w, ct, y), q.cnt[y] \in Nat, r.cnt[y] \in Nat, ct.sub \in Nat,
         NEW s \in Nat, r.cnt[y] = q.cnt[y] - s, m.sub = ct.sub + s,
         m.c1[y] = ct.c1[y], m.c2[y] = ct.c2[y]
  PROVE  InSync(r, sn, w, m, y)
<1>1. PICK b, a : b = BaseOf(sn, w, y).cnt /\ a = CMG!Allow(BaseOf(sn, w, y).tot)
  OBVIOUS
<1>2. b \in Nat /\ a \in Nat
  BY <1>1, BaseIs
<1>3. ct.c1[y] = q.cnt[y] + ct.sub - b - a /\ ct.c2[y] = q.cnt[y] + ct.sub - b + a
  BY <1>1 DEF InSync
<1>4. m.c1[y] = r.cnt[y] + m.sub - b - a /\ m.c2[y] = r.cnt[y] + m.sub - b + a
  BY <1>2, <1>3
<1>5. QED
  BY <1>1, <1>4 DEF InSync

\* x was in the table: only its counter changes.
LEMMA RaiseIs ==
  ASSUME NEW q, NEW r, NEW sn, SnapTyped(sn), NEW w \in Nat, NEW m, NEW x \in Key, NEW c \in Nat,
         q.cnt \in [Key -> Nat], r.cnt \in [Key -> Nat],
         x \in CMG!InTable(q.cnt), CMG!InTable(r.cnt) = CMG!InTable(q.cnt),
         r.cnt[x] = q.cnt[x] + c,
         \A y \in CMG!InTable(q.cnt) : y # x => r.cnt[y] = q.cnt[y],
         CtrOk(q, sn, w, m)
  PROVE  CtrOk(r, sn, w, CMG!RaiseCounter(m, x, c))
<1>1. PICK T \in SUBSET Key : T = CMG!InTable(q.cnt) /\ T = CMG!InTable(r.cnt) /\ x \in T
  BY TableIs
<1>2. PICK b, c1, c2, h1, h2, gn :
        m = [sub |-> b, c1 |-> c1, c2 |-> c2, heap1 |-> h1, heap2 |-> h2, gone |-> gn]
  BY DEF CtrOk, IsCtr
<1>3. /\ m.sub = b /\ m.c1 = c1 /\ m.c2 = c2 /\ m.heap1 = h1 /\ m.heap2 = h2 /\ m.gone = gn
  BY <1>2
<1>4. /\ b \in Nat /\ c1 \in [Key -> Int] /\ c2 \in [Key -> Int] /\ gn \in SUBSET Key
      /\ HeapOf(h1, T) /\ HeapOf(h2, T) /\ IsHeap(h1, CMG!Negated(c1))
  BY <1>1, <1>3 DEF CtrOk, IsCtr, Heaped
<1>5. PICK e1, e2, g1, g2 :
        /\ e1 = [c1 EXCEPT ![x] = @ + c]
        /\ e2 = [c2 EXCEPT ![x] = @ + c]
        /\ g1 = CMG!PushUp(h1, CMG!Negated(e1), CMG!Position(h1, x))
        /\ g2 = CMG!PushUp(h2, e2, CMG!Position(h2, x))
  OBVIOUS
<1>6. PICK v : v = CMG!RaiseCounter(m, x, c)
  OBVIOUS
<1>7. v = [sub |-> b, c1 |-> e1, c2 |-> e2, heap1 |-> g1, heap2 |-> g2, gone |-> gn]
  BY <1>2, <1>5, <1>6 DEF CMG!RaiseCounter
<1>8. /\ v.sub = b /\ v.c1 = e1 /\ v.c2 = e2 /\ v.heap1 = g1 /\ v.heap2 = g2 /\ v.gone = gn
  BY <1>7
<1>9. /\ e1 \in [Key -> Int] /\ e2 \in [Key -> Int]
      /\ \A y \in Key : /\ e1[y] = IF y = x THEN c1[x] + c ELSE c1[y]
                        /\ e2[y] = IF y = x THEN c2[x] + c ELSE c2[y]
  BY <1>4, <1>5
<1>10. PICK old, key : old = CMG!Negated(c1) /\ key = CMG!Negated(e1)
  OBVIOUS
<1>11. /\ old \in [Key -> Int] /\ key \in [Key -> Int]
       /\ \A y \in Key : old[y] = -c1[y] /\ key[y] = -e1[y]
  BY <1>4, <1>9, <1>10, NegatedIs
<1>12. \A y \in Key : y # x => key[y] = old[y] /\ e2[y] = c2[y]
  BY <1>9, <1>11
<1>13. key[x] <= old[x]
  <2>1. c1[x] \in Int /\ e1[x] = c1[x] + c
    BY <1>4, <1>9
  <2>2. QED
    BY <1>11, <2>1
<1>14. HeapOf(g1, T) /\ IsHeap(g1, key)
  <2>1. LET z == CMG!PushUp(h1, key, CMG!Position(h1, x))
        IN /\ HeapOf(z, T)
           /\ IsHeap(h1, old) /\ key \in [Key -> Int] /\ key[x] <= old[x] => IsHeap(z, key)
    BY ONLY <1>1, <1>4, <1>11, <1>12, RaisedHeap
  <2>2. QED
    BY <1>4, <1>5, <1>10, <1>11, <1>13, <2>1
<1>15. HeapOf(g2, T)
  <2>1. LET z == CMG!PushUp(h2, e2, CMG!Position(h2, x))
        IN /\ HeapOf(z, T)
           /\ IsHeap(h2, c2) /\ e2 \in [Key -> Int] /\ e2[x] <= c2[x] => IsHeap(z, e2)
    BY ONLY <1>1, <1>4, <1>12, RaisedHeap
  <2>2. QED
    BY <1>5, <2>1
<1>16. IsCtr(v) /\ Heaped(v, T)
  BY <1>4, <1>7, <1>8, <1>9, <1>10, <1>14, <1>15 DEF IsCtr, Heaped
<1>17. ASSUME NEW y \in T PROVE InSync(r, sn, w, v, y)
  <2>1. InSync(q, sn, w, m, y) /\ y \in Key
    BY <1>1 DEF CtrOk
  <2>2. PICK u, a : u = BaseOf(sn, w, y).cnt /\ a = CMG!Allow(BaseOf(sn, w, y).tot)
    OBVIOUS
  <2>3. u \in Nat /\ a \in Nat /\ q.cnt[y] \in Nat /\ q.cnt[x] \in Nat
    BY <2>1, <2>2, BaseIs
  <2>4. c1[y] = q.cnt[y] + b - u - a /\ c2[y] = q.cnt[y] + b - u + a
    BY <1>3, <2>1, <2>2 DEF InSync
  <2>5. e1[y] = r.cnt[y] + b - u - a /\ e2[y] = r.cnt[y] + b - u + a
    <3>1. CASE y = x
      <4>1. e1[y] = c1[y] + c /\ e2[y] = c2[y] + c /\ r.cnt[y] = q.cnt[y] + c
        BY <1>9, <2>1, <3>1
      <4>2. QED
        BY <1>4, <2>3, <2>4, <4>1
    <3>2. CASE y # x
      <4>1. e1[y] = c1[y] /\ e2[y] = c2[y] /\ r.cnt[y] = q.cnt[y]
        BY <1>1, <1>9, <2>1, <3>2
      <4>2. QED
        BY <2>4, <4>1
    <3>3. QED
      BY <3>1, <3>2
  <2>6. QED
    BY <1>8, <2>2, <2>5 DEF InSync
<1>18. gn \cap T = {} /\ gn \subseteq Snapped(sn) /\ Snapped(sn) \subseteq gn \cup T
  BY <1>1, <1>3 DEF CtrOk
<1>19. QED
  BY <1>1, <1>6, <1>8, <1>16, <1>17, <1>18 DEF CtrOk

\* x was not: it gets a counter at the level of the others.
LEMMA AddIs ==
  ASSUME NEW r, NEW sn, SnapTyped(sn), NEW w \in Nat, NEW m, NEW x \in Key,
         NEW T \in SUBSET Key, x \notin T, r.cnt \in [Key -> Nat],
         CMG!InTable(r.cnt) = T \cup {x},
         IsCtr(m), Heaped(m, T), \A y \in T : InSync(r, sn, w, m, y),
         m.gone \cap T = {}, m.gone \subseteq Snapped(sn), Snapped(sn) \subseteq m.gone \cup T,
         NEW base, base.cnt = BaseOf(sn, w, x).cnt, base.tot = BaseOf(sn, w, x).tot
  PROVE  CtrOk(r, sn, w, CMG!AddCounter(m, x, r.cnt[x] + m.sub, base))
<1>1. PICK b, c1, c2, h1, h2, gn :
        m = [sub |-> b, c1 |-> c1, c2 |-> c2, heap1 |-> h1, heap2 |-> h2, gone |-> gn]
  BY DEF IsCtr
<1>2. /\ m.sub = b /\ m.c1 = c1 /\ m.c2 = c2 /\ m.heap1 = h1 /\ m.heap2 = h2 /\ m.gone = gn
  BY <1>1
<1>3. /\ b \in Nat /\ c1 \in [Key -> Int] /\ c2 \in [Key -> Int] /\ gn \in SUBSET Key
      /\ HeapOf(h1, T) /\ HeapOf(h2, T) /\ IsHeap(h1, CMG!Negated(c1))
  BY <1>2 DEF IsCtr, Heaped
<1>4. PICK u, a, lv : /\ u = BaseOf(sn, w, x).cnt /\ a = CMG!Allow(BaseOf(sn, w, x).tot)
                      /\ lv = r.cnt[x] + b
  OBVIOUS
<1>5. u \in Nat /\ a \in Nat /\ r.cnt[x] \in Nat /\ lv \in Nat
  BY <1>3, <1>4, BaseIs
<1>6. PICK e1, e2, g1, g2 :
        /\ e1 = [c1 EXCEPT ![x] = lv - u - a]
        /\ e2 = [c2 EXCEPT ![x] = lv - u + a]
        /\ g1 = CMG!HeapInsert(h1, CMG!Negated(e1), x)
        /\ g2 = CMG!HeapInsert(h2, e2, x)
  OBVIOUS
<1>7. PICK v : v = CMG!AddCounter(m, x, r.cnt[x] + m.sub, base)
  OBVIOUS
<1>8. v = [sub |-> b, c1 |-> e1, c2 |-> e2, heap1 |-> g1, heap2 |-> g2, gone |-> gn \ {x}]
  BY <1>1, <1>2, <1>4, <1>6, <1>7 DEF CMG!AddCounter
<1>9. /\ v.sub = b /\ v.c1 = e1 /\ v.c2 = e2 /\ v.heap1 = g1 /\ v.heap2 = g2 /\ v.gone = gn \ {x}
  BY <1>8
<1>10. /\ e1 \in [Key -> Int] /\ e2 \in [Key -> Int]
       /\ \A y \in Key : /\ e1[y] = IF y = x THEN lv - u - a ELSE c1[y]
                         /\ e2[y] = IF y = x THEN lv - u + a ELSE c2[y]
  BY <1>3, <1>5, <1>6
<1>11. PICK old, key : old = CMG!Negated(c1) /\ key = CMG!Negated(e1)
  OBVIOUS
<1>12. /\ old \in [Key -> Int] /\ key \in [Key -> Int]
       /\ \A y \in Key : old[y] = -c1[y] /\ key[y] = -e1[y]
  BY <1>3, <1>10, <1>11, NegatedIs
<1>13. \A y \in T : key[y] = old[y] /\ e2[y] = c2[y] /\ e1[y] = c1[y]
  BY <1>10, <1>12
<1>14. HeapOf(g1, T \cup {x}) /\ IsHeap(g1, key)
  <2>1. LET z == CMG!HeapInsert(h1, key, x)
        IN /\ HeapOf(z, T \cup {x})
           /\ IsHeap(h1, old) /\ key \in [Key -> Int] => IsHeap(z, key)
    BY <1>3, <1>13, GrownHeap
  <2>2. QED
    BY <1>3, <1>6, <1>11, <1>12, <2>1
<1>15. HeapOf(g2, T \cup {x})
  <2>1. LET z == CMG!HeapInsert(h2, e2, x)
        IN /\ HeapOf(z, T \cup {x})
           /\ IsHeap(h2, c2) /\ e2 \in [Key -> Int] => IsHeap(z, e2)
    BY <1>3, <1>13, GrownHeap
  <2>2. QED
    BY <1>6, <2>1
<1>16. IsCtr(v) /\ Heaped(v, T \cup {x})
  <2>1. gn \ {x} \in SUBSET Key
    BY <1>3
  <2>2. QED
    BY <1>3, <1>8, <1>9, <1>10, <1>11, <1>14, <1>15, <2>1 DEF IsCtr, Heaped
<1>17. ASSUME NEW y \in T \cup {x} PROVE InSync(r, sn, w, v, y)
  <2>1. CASE y = x
    <3>1. e1[x] = r.cnt[x] + b - u - a /\ e2[x] = r.cnt[x] + b - u + a
      BY <1>3, <1>4, <1>5, <1>10
    <3>2. QED
      BY <1>4, <1>9, <2>1, <3>1 DEF InSync
  <2>2. CASE y # x
    <3>1. y \in T
      BY <2>2
    <3>2. InSync(r, sn, w, m, y)
      BY <3>1
    <3>3. QED
      BY <1>2, <1>9, <1>13, <3>1, <3>2 DEF InSync
  <2>3. QED
    BY <2>1, <2>2
<1>18. /\ (gn \ {x}) \cap (T \cup {x}) = {} /\ gn \ {x} \subseteq Snapped(sn)
       /\ Snapped(sn) \subseteq (gn \ {x}) \cup (T \cup {x})
  BY <1>2
<1>19. QED
  BY <1>7, <1>9, <1>16, <1>17, <1>18 DEF CtrOk

\* The state z once update_new counted the arrival of x.
CountedNew(z, now, x, c, w) ==
  /\ z.sk = CMG!UpdateImpl(now.sk, x, c)
  /\ z = [sk |-> z.sk, chkpts |-> now.chkpts, num |-> now.num,
          snap |-> now.snap, ctr |-> z.ctr]
  /\ CtrOk(z.sk, now.snap, w, z.ctr)

\* The sketch, and counters that match it.
LEMMA CountNewKeeps ==
  ASSUME NEW now, IsNow(now), NEW t, NEW f, SketchOk(now.sk, t, f),
         SnapTyped(now.snap),
         NEW w \in Nat, w = IF now.chkpts = <<>> THEN 0 ELSE CMG!Last(now.chkpts).tot,
         CtrOk(now.sk, now.snap, w, now.ctr),
         NEW x \in Key, NEW c \in ChainWeights, NEW l \in CMG!DeletedLists(now.sk, x, c)
  PROVE  CountedNew(CMG!CountNew(now, x, c, l), now, x, c, w)
<1>1. PICK q, r, s, sn, ct :
        /\ q = now.sk /\ r = CMG!UpdateImpl(q, x, c) /\ sn = now.snap /\ ct = now.ctr
        /\ s = q.cnt[x] + c - r.cnt[x] + q.delta - r.delta
  OBVIOUS
<1>2. /\ r \in CMG!SketchValue /\ s \in Nat
      /\ \A y \in CMG!InTable(r.cnt) :
           y # x => y \in CMG!InTable(q.cnt) /\ r.cnt[y] = q.cnt[y] - s
      /\ x \in CMG!InTable(q.cnt) =>
           /\ s = 0 /\ r.cnt[x] = q.cnt[x] + c
           /\ CMG!InTable(r.cnt) = CMG!InTable(q.cnt)
  BY <1>1, SketchMoves
<1>3. /\ q.cnt \in [Key -> Nat] /\ q.delta \in Nat /\ r.cnt \in [Key -> Nat] /\ r.delta \in Nat
      /\ c \in Nat
  <2>1. q \in CMG!SketchValue
    BY <1>1 DEF SketchOk
  <2>2. QED
    BY <1>2, <2>1, ChainConstants DEF CMG!SketchValue
<1>4. PICK T, R : /\ T = CMG!InTable(q.cnt) /\ R = CMG!InTable(r.cnt)
                  /\ T \in SUBSET Key /\ R \in SUBSET Key
  BY TableIs
<1>5. CtrOk(q, sn, w, ct) /\ SnapTyped(sn)
  BY <1>1
<1>6. /\ IsCtr(ct) /\ Heaped(ct, T) /\ \A y \in T : InSync(q, sn, w, ct, y)
      /\ ct.gone \cap T = {} /\ ct.gone \subseteq Snapped(sn) /\ Snapped(sn) \subseteq ct.gone \cup T
      /\ ct.sub \in Nat
  BY <1>4, <1>5 DEF CtrOk, IsCtr
<1>7. PICK u \in Nat : u = ct.sub + s
  BY <1>2, <1>6
<1>8. u = ct.sub + q.cnt[x] + c - r.cnt[x] + q.delta - r.delta
  <2>1. PICK i \in Nat, j \in Nat, e \in Nat, g \in Nat, h \in Nat :
          i = q.cnt[x] /\ j = r.cnt[x] /\ e = ct.sub /\ g = q.delta /\ h = r.delta
    BY <1>3, <1>6
  <2>2. s = i + c - j + g - h /\ u = e + s
    BY <1>1, <1>7, <2>1
  <2>3. u = e + i + c - j + g - h
    BY ONLY <1>3, <2>2, i \in Nat, j \in Nat, e \in Nat, g \in Nat, h \in Nat
  <2>4. QED
    BY <2>1, <2>3
<1>9. PICK A, S : A = T \ R /\ S = {y \in Key : sn[y].in} /\ S = Snapped(sn)
  BY DEF Snapped
<1>10. l \in CMG!SetToSeqs(A) /\ A \in SUBSET T /\ S \in SUBSET Key
  BY <1>1, <1>4, <1>9 DEF CMG!DeletedLists
<1>11. PICK m : m = [CMG!DropCounters(ct, l, S) EXCEPT !.sub = u]
  OBVIOUS
<1>12. Dropped(m, ct, u, T, A, S)
  BY <1>4, <1>6, <1>10, <1>11, DropIs
<1>13. /\ IsCtr(m) /\ Heaped(m, T \ A) /\ m.sub = u /\ m.gone = ct.gone \cup (A \cap S)
       /\ \A y \in Key \ A : m.c1[y] = ct.c1[y] /\ m.c2[y] = ct.c2[y]
  BY <1>12 DEF Dropped
<1>14. PICK z, v :
         /\ z = CMG!CountNew(now, x, c, l)
         /\ v = IF r.cnt[x] = 0 THEN m
                ELSE IF q.cnt[x] > 0 THEN CMG!RaiseCounter(m, x, c)
                ELSE CMG!AddCounter(m, x, r.cnt[x] + u, CMG!RangeBase(m, sn, now.chkpts, x))
         /\ z = [now EXCEPT !.sk = r, !.ctr = v]
  <2>1. CMG!CountNew(now, x, c, l) =
          [now EXCEPT !.sk = r,
                      !.ctr = IF r.cnt[x] = 0 THEN m
                              ELSE IF q.cnt[x] > 0 THEN CMG!RaiseCounter(m, x, c)
                              ELSE CMG!AddCounter(m, x, r.cnt[x] + u,
                                                  CMG!RangeBase(m, sn, now.chkpts, x))]
    <3>1. u = now.ctr.sub + now.sk.cnt[x] + c - CMG!UpdateImpl(now.sk, x, c).cnt[x]
                + now.sk.delta - CMG!UpdateImpl(now.sk, x, c).delta
      BY <1>1, <1>8
    <3>2. m = [CMG!DropCounters(now.ctr, l, {y \in Key : now.snap[y].in}) EXCEPT !.sub = u]
      BY <1>1, <1>9, <1>11
    <3>3. CMG!CountNew(now, x, c, l) =
            [now EXCEPT !.sk = CMG!UpdateImpl(now.sk, x, c),
                        !.ctr = IF CMG!UpdateImpl(now.sk, x, c).cnt[x] = 0 THEN m
                                ELSE IF now.sk.cnt[x] > 0 THEN CMG!RaiseCounter(m, x, c)
                                ELSE CMG!AddCounter(m, x, CMG!UpdateImpl(now.sk, x, c).cnt[x] + u,
                                                    CMG!RangeBase(m, now.snap, now.chkpts, x))]
      BY ONLY <3>1, <3>2 DEF CMG!CountNew
    <3>4. QED
      BY ONLY <1>1, <3>3
  <2>2. QED
    BY <2>1
<1>15. /\ z = [sk |-> r, chkpts |-> now.chkpts, num |-> now.num, snap |-> now.snap, ctr |-> v]
       /\ z.sk = r /\ z.ctr = v
  BY <1>14 DEF IsNow
<1>16. \A y \in (T \cap R) \ {x} : InSync(r, sn, w, m, y)
  <2>1. SUFFICES ASSUME NEW y \in (T \cap R) \ {x} PROVE InSync(r, sn, w, m, y)
    OBVIOUS
  <2>2. y \in Key /\ y \in Key \ A /\ InSync(q, sn, w, ct, y) /\ q.cnt[y] \in Nat /\ r.cnt[y] \in Nat
    BY <1>3, <1>4, <1>6, <1>9
  <2>3. r.cnt[y] = q.cnt[y] - s /\ m.sub = ct.sub + s /\ m.c1[y] = ct.c1[y] /\ m.c2[y] = ct.c2[y]
    BY <1>2, <1>4, <1>7, <1>13, <2>2
  <2>4. QED
    BY <1>2, <1>5, <1>6, <2>2, <2>3, StaysInSync
<1>17. m.gone \subseteq Snapped(sn) /\ Snapped(sn) \subseteq m.gone \cup (T \ A)
  BY <1>6, <1>9, <1>13
<1>18. CASE x \in T
  <2>1. s = 0 /\ R = T /\ A = {} /\ r.cnt[x] = q.cnt[x] + c
    BY <1>2, <1>4, <1>9, <1>18
  <2>2. q.cnt[x] > 0 /\ r.cnt[x] # 0
    BY <1>3, <1>4, <1>18, <2>1, TableIs
  <2>3. v = CMG!RaiseCounter(m, x, c)
    BY <1>14, <2>2
  <2>4. T \ A = T /\ m.gone = ct.gone /\ m.sub = ct.sub
    BY <1>6, <1>7, <1>13, <2>1
  <2>5. \A y \in T : InSync(q, sn, w, m, y)
    <3>1. SUFFICES ASSUME NEW y \in T PROVE InSync(q, sn, w, m, y)
      OBVIOUS
    <3>2. InSync(q, sn, w, ct, y) /\ m.c1[y] = ct.c1[y] /\ m.c2[y] = ct.c2[y]
      BY <1>4, <1>6, <1>13, <2>1
    <3>3. QED
      BY <2>4, <3>2 DEF InSync
  <2>6. CtrOk(q, sn, w, m)
    BY <1>4, <1>6, <1>13, <2>4, <2>5 DEF CtrOk
  <2>7. \A y \in CMG!InTable(q.cnt) : y # x => r.cnt[y] = q.cnt[y]
    <3>1. SUFFICES ASSUME NEW y \in T, y # x PROVE r.cnt[y] = q.cnt[y]
      BY <1>4
    <3>2. r.cnt[y] = q.cnt[y] - s /\ q.cnt[y] \in Nat
      BY <1>2, <1>3, <1>4, <2>1, <3>1
    <3>3. QED
      BY <2>1, <3>2
  <2>8. x \in CMG!InTable(q.cnt) /\ CMG!InTable(r.cnt) = CMG!InTable(q.cnt)
    BY <1>4, <1>18, <2>1
  <2>9. CtrOk(r, sn, w, CMG!RaiseCounter(m, x, c))
    BY <1>3, <1>5, <2>1, <2>6, <2>7, <2>8, RaiseIs
  <2>10. QED
    BY <1>1, <1>14, <1>15, <2>3, <2>9 DEF CountedNew
<1>19. CASE x \notin T
  <2>1. q.cnt[x] = 0
    BY <1>4, <1>19, TableIs
  <2>2. x \notin A /\ \A y \in R : y # x => y \in T
    BY <1>2, <1>4, <1>9, <1>19
  <2>3. CASE r.cnt[x] = 0
    <3>1. v = m /\ x \notin R
      BY <1>4, <1>14, <2>3, TableIs
    <3>2. R = T \ A /\ R = (T \cap R) \ {x}
      BY <1>9, <2>2, <3>1
    <3>3. CtrOk(r, sn, w, m)
      <4>1. m.gone \cap R = {}
        BY <1>6, <1>9, <1>13, <3>2
      <4>2. QED
        BY <1>4, <1>13, <1>16, <1>17, <3>2, <4>1 DEF CtrOk
    <3>4. QED
      BY <1>1, <1>14, <1>15, <3>1, <3>3 DEF CountedNew
  <2>4. CASE r.cnt[x] # 0
    <3>1. x \in R /\ R = (T \ A) \cup {x} /\ T \ A = (T \cap R) \ {x} /\ x \notin T \ A
      <4>1. x \in R
        BY <1>4, <2>4, TableIs
      <4>2. QED
        BY <1>9, <1>19, <2>2, <4>1
    <3>2. PICK base : base = CMG!RangeBase(m, sn, now.chkpts, x)
      OBVIOUS
    <3>3. v = CMG!AddCounter(m, x, r.cnt[x] + m.sub, base)
      <4>1. ~(q.cnt[x] > 0)
        BY <2>1
      <4>2. QED
        BY <1>13, <1>14, <2>4, <3>2, <4>1
    <3>4. x \in m.gone <=> sn[x].in
      BY <1>9, <1>17, <1>19 DEF Snapped
    <3>5. base.cnt = BaseOf(sn, w, x).cnt /\ base.tot = BaseOf(sn, w, x).tot
      BY <3>2, <3>4 DEF CMG!RangeBase, BaseOf
    <3>6. m.gone \cap (T \ A) = {}
      BY <1>6, <1>13
    <3>7. \A y \in T \ A : InSync(r, sn, w, m, y)
      BY <1>16, <3>1
    <3>8. T \ A \in SUBSET Key /\ CMG!InTable(r.cnt) = (T \ A) \cup {x}
      BY <1>4, <3>1
    <3>9. CtrOk(r, sn, w, CMG!AddCounter(m, x, r.cnt[x] + m.sub, base))
      BY <1>3, <1>5, <1>13, <1>17, <3>1, <3>5, <3>6, <3>7, <3>8, AddIs
    <3>10. QED
      BY <1>1, <1>14, <1>15, <3>3, <3>9 DEF CountedNew
  <2>5. QED
    BY <2>3, <2>4
<1>20. QED
  BY <1>18, <1>19

-----------------------------------------------------------------------------
(* The newest record of a key                                              *)

Recording(p, x) == {j \in DOMAIN p.deltas : x \in DOMAIN p.deltas[j].new}

NewestOf(p, x) ==
  LET last == p.deltas[CMG!Max(Recording(p, x))]
  IN IF Recording(p, x) = {} THEN [cnt |-> p.cnt[x], tot |-> p.tot]
     ELSE [cnt |-> last.new[x], tot |-> last.tot]

Newest(cps, x) == NewestOf(cps[Len(cps)], x)

LastTotal(cps) == IF cps = <<>> THEN 0 ELSE CMG!Last(cps).tot

LEMMA NewestOfCheckpoint ==
  ASSUME ChainInv, NEW c, NEW cps,
         cps = Append(chkpts, [ts |-> lastTs, tot |-> tot, cnt |-> c, deltas |-> <<>>])
  PROVE  /\ cps # <<>> /\ LastTotal(cps) = tot
         /\ \A x : Newest(cps, x) = [cnt |-> c[x], tot |-> tot]
<1>1. PICK e : e = [ts |-> lastTs, tot |-> tot, cnt |-> c, deltas |-> <<>>]
  OBVIOUS
<1>2. Listed(chkpts)
  BY DEF ChainInv
<1>3. PICK n : n = Len(chkpts)
  OBVIOUS
<1>4. Appended(chkpts, e, cps)
  <2>1. PICK s : Appended(chkpts, e, s)
    BY <1>2, ListedAppend
  <2>2. QED
    BY <1>1, <2>1 DEF Appended
<1>5. Listed(cps) /\ Len(cps) = n + 1 /\ cps[n + 1] = e /\ n \in Nat
  BY <1>2, <1>3, <1>4 DEF Appended, Listed
<1>6. cps # <<>>
  BY <1>5, ListedEmpty
<1>7. CMG!Last(cps) = e /\ cps[Len(cps)] = e
  BY <1>5 DEF CMG!Last
<1>8. e.tot = tot /\ e.cnt = c /\ e.deltas = <<>>
  BY <1>1
<1>9. LastTotal(cps) = tot
  BY <1>6, <1>7, <1>8 DEF LastTotal
<1>10. \A x : Recording(e, x) = {}
  BY <1>8 DEF Recording
<1>11. QED
  BY <1>6, <1>7, <1>8, <1>9, <1>10 DEF Newest, NewestOf

LEMMA NewestOfBatch ==
  ASSUME ChainInv, chkpts # <<>>, NEW b, NEW cps, 
         cps = [chkpts EXCEPT ![Len(chkpts)].deltas =
                  Append(@, [ts |-> lastTs, tot |-> tot, new |-> b])]
  PROVE  /\ cps # <<>> /\ LastTotal(cps) = LastTotal(chkpts)
         /\ \A x : Newest(cps, x) = IF x \in DOMAIN b THEN [cnt |-> b[x], tot |-> tot]
                                    ELSE Newest(chkpts, x)
<1>1. PICK e : e = [ts |-> lastTs, tot |-> tot, new |-> b]
  OBVIOUS
<1>2. /\ Listed(chkpts) /\ Len(chkpts) \in Nat
      /\ \A j \in 1 .. Len(chkpts) : IsCheckpoint(chkpts[j])
  BY DEF ChainInv, Listed
<1>3. PICK m \in Nat : m = Len(chkpts) /\ m \in 1 .. m
  BY <1>2, ListedEmpty
<1>4. PICK p, r : p = chkpts[m] /\ r = [p EXCEPT !.deltas = Append(@, e)]
  OBVIOUS
<1>5. IsCheckpoint(p)
  BY <1>2, <1>3, <1>4
<1>6. cps = [chkpts EXCEPT ![m] = r]
  BY <1>1, <1>3, <1>4
<1>7. DOMAIN chkpts = 1 .. m
  BY <1>2, <1>3, ListedIsSeq
<1>8. cps = [i \in 1 .. m |-> IF i = m THEN r ELSE chkpts[i]]
  BY <1>6, <1>7
<1>9. Len(cps) = m /\ cps[m] = r
  BY <1>3, <1>8
<1>10. cps # <<>>
  <2>1. Listed(cps)
    BY <1>3, <1>8, <1>9 DEF Listed
  <2>2. QED
    BY <1>3, <1>9, <2>1, ListedEmpty
<1>11. PICK ts, w, c, d : p = [ts |-> ts, tot |-> w, cnt |-> c, deltas |-> d]
  BY <1>5 DEF IsCheckpoint
<1>12. p.tot = w /\ p.cnt = c /\ p.deltas = d /\ Listed(d)
  BY <1>5, <1>11 DEF IsCheckpoint
<1>13. PICK g : Appended(d, e, g)
  BY <1>12, ListedAppend
<1>14. r = [ts |-> ts, tot |-> w, cnt |-> c, deltas |-> g]
  <2>1. g = Append(d, e)
    BY <1>13 DEF Appended
  <2>2. r = [[ts |-> ts, tot |-> w, cnt |-> c, deltas |-> d] EXCEPT !.deltas = Append(@, e)]
    BY <1>4, <1>11
  <2>3. r = [ts |-> ts, tot |-> w, cnt |-> c, deltas |-> Append(d, e)]
    BY ONLY <2>2
  <2>4. QED
    BY <2>1, <2>3
<1>15. r.tot = w /\ r.cnt = c /\ r.deltas = g
  BY <1>14
<1>16. PICK n \in Nat : n = Len(d)
  BY <1>12 DEF Listed
<1>17. /\ DOMAIN d = 1 .. n /\ DOMAIN g = 1 .. n + 1
       /\ g[n + 1] = e /\ \A i \in 1 .. n : g[i] = d[i]
  BY <1>12, <1>13, <1>16 DEF Listed, Appended
<1>18. LastTotal(cps) = LastTotal(chkpts)
  BY <1>3, <1>4, <1>9, <1>10, <1>12, <1>15 DEF LastTotal, CMG!Last
<1>19. e.tot = tot /\ e.new = b
  BY <1>1
<1>20. ASSUME NEW x
       PROVE  NewestOf(r, x) = IF x \in DOMAIN b THEN [cnt |-> b[x], tot |-> tot]
                               ELSE NewestOf(p, x)
  <2>1. PICK M, N : M = Recording(p, x) /\ N = Recording(r, x)
    OBVIOUS
  <2>2. /\ M = {j \in 1 .. n : x \in DOMAIN d[j].new}
        /\ N = {j \in 1 .. n + 1 : x \in DOMAIN g[j].new}
    BY <1>12, <1>15, <1>17, <2>1 DEF Recording
  <2>3. \A j : j \in 1 .. n + 1 <=> j \in 1 .. n \/ j = n + 1
    BY <1>16
  <2>4. CASE x \in DOMAIN b
    <3>1. n + 1 \in N
      BY <1>17, <1>19, <2>2, <2>3, <2>4
    <3>2. N \in SUBSET (1 .. n + 1) /\ N # {} /\ n + 1 \in Nat
      BY <2>2, <3>1
    <3>3. CMG!Max(N) \in N /\ n + 1 <= CMG!Max(N)
      BY <3>1, <3>2, GreatestElement
    <3>4. CMG!Max(N) = n + 1
      <4>1. CMG!Max(N) \in 1 .. n + 1
        BY <3>2, <3>3
      <4>2. QED
        BY <1>16, <3>3, <4>1
    <3>5. QED
      BY <1>15, <1>17, <1>19, <2>1, <2>4, <3>2, <3>4 DEF NewestOf
  <2>5. CASE x \notin DOMAIN b
    <3>1. M = N
      BY <1>17, <1>19, <2>2, <2>3, <2>5
    <3>2. M # {} => g[CMG!Max(M)] = d[CMG!Max(M)]
      <4>1. SUFFICES ASSUME M # {} PROVE g[CMG!Max(M)] = d[CMG!Max(M)]
        OBVIOUS
      <4>2. M \in SUBSET (1 .. n)
        BY <2>2
      <4>3. CMG!Max(M) \in 1 .. n
        BY <4>1, <4>2, GreatestElement
      <4>4. QED
        BY <1>17, <4>3
    <3>3. QED
      BY <1>12, <1>15, <2>1, <2>5, <3>1, <3>2 DEF NewestOf
  <2>6. QED
    BY <2>4, <2>5
<1>21. QED
  BY <1>3, <1>4, <1>9, <1>10, <1>18, <1>20 DEF Newest

-----------------------------------------------------------------------------
(* What is recorded, and what the sketch holds                             *)

\* The record r of a key with the entry s, of a stream of weight t in which
\* the key was seen n times.
RecordOk(r, s, w, t, n) ==
  /\ r.cnt \in Nat /\ r.tot \in Nat /\ r.tot <= t /\ r.cnt <= n
  /\ s.in => r.cnt = s.cnt /\ r.tot = s.tot
  /\ ~s.in => r.cnt = 0 /\ w <= r.tot

\* The entries of sn are the newest records of the checkpoints cps.
SnapOk(sn, cps, t, f) ==
  /\ SnapTyped(sn)
  /\ LastTotal(cps) \in Nat /\ LastTotal(cps) <= t
  /\ cps = <<>> => Snapped(sn) = {}
  /\ cps # <<>> => \A x \in Key : RecordOk(Newest(cps, x), sn[x], LastTotal(cps), t, f[x])
  /\ UnitWeights => Cardinality(Snapped(sn)) <= K - 1

\* The state an update works on.
NowOk(new, now, t, f) ==
  /\ IsNow(now)
  /\ SketchOk(now.sk, t, f)
  /\ SnapOk(now.snap, now.chkpts, t, f)
  /\ IF new THEN CtrOk(now.sk, now.snap, LastTotal(now.chkpts), now.ctr)
     ELSE now.ctr = CMG!EmptyCtr

\* The record r of a key whose counter is n at the end of a timestamp.
Captured(r, n) ==
  /\ r.cnt \in Nat /\ r.tot \in Nat
  /\ n <= r.cnt + CMG!Allow(r.tot)
  /\ ~useNew => r.cnt <= n + CMG!Allow(r.tot)

\* A checkpoint made at the end of the timestamp.
LEMMA CheckpointedOk ==
  ASSUME ChainInv, SketchOk(sk, tot, exact), NEW c,
         NEW z, z = CMG!Checkpointed(CMG!ResetDelta(sk), c)
  PROVE  /\ IsNow(z) /\ z.sk = CMG!ResetDelta(sk) /\ z.ctr = c /\ z.chkpts # <<>>
         /\ SketchOk(z.sk, tot, exact) /\ SnapOk(z.snap, z.chkpts, tot, exact)
         /\ LastTotal(z.chkpts) = tot
         /\ Snapped(z.snap) = CMG!InTable(sk.cnt)
         /\ \A x \in CMG!InTable(sk.cnt) : z.snap[x].cnt = z.sk.cnt[x] /\ z.snap[x].tot = tot
         /\ \A x \in Key : Captured(Newest(z.chkpts, x), CMG!CntPrime(sk)[x])
<1>1. PICK q : q = CMG!ResetDelta(sk)
  OBVIOUS
<1>2. PICK cps, sn :
        /\ z = [sk |-> q, chkpts |-> cps, num |-> 0, snap |-> sn, ctr |-> c]
        /\ cps = Append(chkpts, [ts |-> lastTs, tot |-> tot, cnt |-> q.cnt, deltas |-> <<>>])
        /\ sn = [x \in Key |-> IF x \in CMG!InTable(q.cnt)
                               THEN [in |-> TRUE, cnt |-> q.cnt[x], tot |-> tot]
                               ELSE CMG!Unrecorded]
  BY <1>1 DEF CMG!Checkpointed
<1>3. /\ SketchOk(q, tot, exact) /\ q.cnt = CMG!CntPrime(sk) /\ q.cnt \in [Key -> Nat]
      /\ CMG!InTable(q.cnt) = CMG!InTable(sk.cnt)
      /\ \A x \in Key : q.cnt[x] <= exact[x]
  BY <1>1, SketchSettles
<1>4. PICK m : m = q.cnt
  OBVIOUS
<1>5. /\ cps # <<>> /\ LastTotal(cps) = tot
      /\ \A x : Newest(cps, x) = [cnt |-> m[x], tot |-> tot]
  BY <1>2, <1>4, NewestOfCheckpoint
<1>6. tot \in Nat /\ CMG!Allow(tot) \in Nat
  BY AllowIs DEF SketchOk
<1>7. \A x \in Key : IF x \in CMG!InTable(m) THEN sn[x] = [in |-> TRUE, cnt |-> m[x], tot |-> tot]
                     ELSE sn[x] = CMG!Unrecorded
  BY <1>2, <1>4
<1>8. \A x \in Key : /\ sn[x].in \in BOOLEAN /\ (sn[x].in <=> x \in CMG!InTable(m))
                     /\ x \in CMG!InTable(m) => sn[x].cnt = m[x] /\ sn[x].tot = tot
                     /\ x \notin CMG!InTable(m) => sn[x].cnt = 0 /\ sn[x].tot = 0
  <2>1. SUFFICES ASSUME NEW x \in Key
                 PROVE  /\ sn[x].in \in BOOLEAN /\ (sn[x].in <=> x \in CMG!InTable(m))
                        /\ x \in CMG!InTable(m) => sn[x].cnt = m[x] /\ sn[x].tot = tot
                        /\ x \notin CMG!InTable(m) => sn[x].cnt = 0 /\ sn[x].tot = 0
    OBVIOUS
  <2>2. CASE x \in CMG!InTable(m)
    <3>1. sn[x] = [in |-> TRUE, cnt |-> m[x], tot |-> tot]
      BY <1>7, <2>2
    <3>2. sn[x].in = TRUE /\ sn[x].cnt = m[x] /\ sn[x].tot = tot
      BY ONLY <3>1
    <3>3. QED
      BY <2>2, <3>2
  <2>3. CASE x \notin CMG!InTable(m)
    <3>1. sn[x] = [in |-> FALSE, cnt |-> 0, tot |-> 0]
      BY <1>7, <2>3 DEF CMG!Unrecorded
    <3>2. sn[x].in = FALSE /\ sn[x].cnt = 0 /\ sn[x].tot = 0
      BY ONLY <3>1
    <3>3. QED
      BY <2>3, <3>2
  <2>4. QED
    BY <2>2, <2>3
<1>9. SnapTyped(sn)
  <2>1. SUFFICES ASSUME NEW x \in Key
                 PROVE  sn[x].in \in BOOLEAN /\ sn[x].cnt \in Nat /\ sn[x].tot \in Nat
    BY DEF SnapTyped
  <2>2. m[x] \in Nat
    BY <1>3, <1>4
  <2>3. sn[x].in \in BOOLEAN
    BY <1>8
  <2>4. sn[x].cnt \in Nat /\ sn[x].tot \in Nat
    BY <1>6, <1>8, <2>2
  <2>5. QED
    BY <2>3, <2>4
<1>10. Snapped(sn) = CMG!InTable(m)
  BY <1>8, TableIs DEF Snapped
<1>11. ASSUME NEW x \in Key
       PROVE  RecordOk(Newest(cps, x), sn[x], LastTotal(cps), tot, exact[x])
  <2>1. Newest(cps, x).cnt = m[x] /\ Newest(cps, x).tot = tot
    BY <1>5
  <2>2. m[x] \in Nat /\ m[x] <= exact[x]
    BY <1>3, <1>4
  <2>3. x \notin CMG!InTable(m) => m[x] = 0
    BY TableIs
  <2>4. PICK s, r : s = sn[x] /\ r = Newest(cps, x)
    OBVIOUS
  <2>5. /\ s.in => m[x] = s.cnt /\ tot = s.tot
        /\ ~s.in => m[x] = 0
    BY <1>8, <2>3, <2>4
  <2>6. r.cnt = m[x] /\ r.tot = tot
    BY <2>1, <2>4
  <2>7. RecordOk(r, s, tot, tot, exact[x])
    BY <1>6, <2>2, <2>5, <2>6 DEF RecordOk
  <2>8. QED
    BY <1>5, <2>4, <2>7
<1>12. UnitWeights => Cardinality(Snapped(sn)) <= K - 1
  BY <1>3, <1>4, <1>10 DEF SketchOk
<1>13. SnapOk(sn, cps, tot, exact)
  BY <1>5, <1>6, <1>9, <1>11, <1>12 DEF SnapOk
<1>14. /\ z.sk = q /\ z.chkpts = cps /\ z.snap = sn /\ z.ctr = c /\ IsNow(z)
  BY <1>2 DEF IsNow
<1>15. \A x \in Key : Captured(Newest(cps, x), CMG!CntPrime(sk)[x])
  <2>1. SUFFICES ASSUME NEW x \in Key PROVE Captured(Newest(cps, x), m[x])
    BY <1>3, <1>4
  <2>2. Newest(cps, x).cnt = m[x] /\ Newest(cps, x).tot = tot /\ m[x] \in Nat
    BY <1>3, <1>4, <1>5
  <2>3. QED
    BY <1>6, <2>2 DEF Captured
<1>16. \A x \in CMG!InTable(sk.cnt) : z.snap[x].cnt = z.sk.cnt[x] /\ z.snap[x].tot = tot
  BY <1>3, <1>4, <1>8, <1>14, TableIs
<1>17. QED
  BY <1>1, <1>3, <1>4, <1>5, <1>10, <1>13, <1>14, <1>15, <1>16

\* The state z once delta nodes were made for the keys B.
Noted(z, q, c, B) ==
  /\ IsNow(z) /\ z.sk = q /\ z.ctr = c /\ z.chkpts # <<>>
  /\ SnapOk(z.snap, z.chkpts, tot, exact)
  /\ LastTotal(z.chkpts) = LastTotal(chkpts)
  /\ Snapped(z.snap) \subseteq CMG!InTable(sk.cnt)
  /\ \A x \in B : x \in CMG!InTable(sk.cnt) =>
       /\ z.snap[x].in
       /\ z.snap[x].cnt = CMG!CntPrime(sk)[x] /\ z.snap[x].tot = tot
  /\ \A x \in Key \ B : z.snap[x] = snap[x]
  /\ \A x \in B : Newest(z.chkpts, x) = [cnt |-> CMG!CntPrime(sk)[x], tot |-> tot]
  /\ \A x \in Key \ B : Newest(z.chkpts, x) = Newest(chkpts, x)

LEMMA ChainedOk ==
  ASSUME ChainInv, chkpts # <<>>, SketchOk(sk, tot, exact), SnapOk(snap, chkpts, tot, exact),
         NEW q, SketchOk(q, tot, exact), NEW n, NEW c, NEW B \in SUBSET Key,
         Snapped(snap) \subseteq B \cup CMG!InTable(sk.cnt), NEW z,
         z = CMG!Chained(q, [x \in B |-> CMG!CntPrime(sk)[x]], n, c)
  PROVE  Noted(z, q, c, B)
<1>1. PICK m, b : m = CMG!CntPrime(sk) /\ b = [x \in B |-> m[x]] /\ DOMAIN b = B
                  /\ b = [x \in B |-> CMG!CntPrime(sk)[x]]
  OBVIOUS
<1>2. PICK cps, sn :
        /\ z = [sk |-> q, chkpts |-> cps, num |-> n, snap |-> sn, ctr |-> c]
        /\ cps = IF B = {} THEN chkpts
                 ELSE [chkpts EXCEPT ![Len(chkpts)].deltas =
                         Append(@, [ts |-> lastTs, tot |-> tot, new |-> b])]
        /\ sn = [x \in Key |-> IF x \notin B THEN snap[x]
                               ELSE IF b[x] = 0 THEN CMG!Unrecorded
                               ELSE [in |-> TRUE, cnt |-> b[x], tot |-> tot]]
  <2>1. z = CMG!Chained(q, b, n, c) /\ DOMAIN b = B
    BY <1>1
  <2>2. QED
    BY ONLY <2>1 DEF CMG!Chained
<1>3. /\ m \in [Key -> Nat] /\ CMG!InTable(m) = CMG!InTable(sk.cnt)
      /\ \A x \in Key : m[x] <= exact[x]
  BY <1>1, SketchSettles
<1>4. tot \in Nat /\ LastTotal(chkpts) \in Nat /\ LastTotal(chkpts) <= tot
  BY DEF SketchOk, SnapOk
<1>5. /\ cps # <<>> /\ LastTotal(cps) = LastTotal(chkpts)
      /\ \A x : Newest(cps, x) = IF x \in B THEN [cnt |-> m[x], tot |-> tot] ELSE Newest(chkpts, x)
  <2>1. CASE B = {}
    BY <1>2, <2>1
  <2>2. CASE B # {}
    <3>1. cps = [chkpts EXCEPT ![Len(chkpts)].deltas =
                         Append(@, [ts |-> lastTs, tot |-> tot, new |-> b])]
      BY <1>2, <2>2
    <3>2. /\ cps # <<>> /\ LastTotal(cps) = LastTotal(chkpts)
          /\ \A x : Newest(cps, x) = IF x \in DOMAIN b THEN [cnt |-> b[x], tot |-> tot]
                                     ELSE Newest(chkpts, x)
      BY <3>1, NewestOfBatch
    <3>3. QED
      BY <1>1, <3>2
  <2>3. QED
    BY <2>1, <2>2
<1>6. \A x \in Key : /\ x \notin B => sn[x] = snap[x]
                     /\ x \in B /\ m[x] = 0 => sn[x] = CMG!Unrecorded
                     /\ x \in B /\ m[x] # 0 => sn[x] = [in |-> TRUE, cnt |-> m[x], tot |-> tot]
  BY <1>1, <1>2
<1>7. \A x \in B : /\ sn[x].in = (m[x] # 0)
                   /\ m[x] # 0 => sn[x].cnt = m[x] /\ sn[x].tot = tot
                   /\ m[x] = 0 => sn[x].cnt = 0 /\ sn[x].tot = 0
  <2>1. SUFFICES ASSUME NEW x \in B
                 PROVE  /\ sn[x].in = (m[x] # 0)
                        /\ m[x] # 0 => sn[x].cnt = m[x] /\ sn[x].tot = tot
                        /\ m[x] = 0 => sn[x].cnt = 0 /\ sn[x].tot = 0
    OBVIOUS
  <2>2. CASE m[x] # 0
    <3>1. sn[x] = [in |-> TRUE, cnt |-> m[x], tot |-> tot]
      BY <1>6, <2>2
    <3>2. sn[x].in = TRUE /\ sn[x].cnt = m[x] /\ sn[x].tot = tot
      BY ONLY <3>1
    <3>3. QED
      BY <2>2, <3>2
  <2>3. CASE m[x] = 0
    <3>1. sn[x] = [in |-> FALSE, cnt |-> 0, tot |-> 0]
      BY <1>6, <2>3 DEF CMG!Unrecorded
    <3>2. sn[x].in = FALSE /\ sn[x].cnt = 0 /\ sn[x].tot = 0
      BY ONLY <3>1
    <3>3. QED
      BY <2>3, <3>2
  <2>4. QED
    BY <2>2, <2>3
<1>8. SnapTyped(sn)
  <2>1. SUFFICES ASSUME NEW x \in Key
                 PROVE  sn[x].in \in BOOLEAN /\ sn[x].cnt \in Nat /\ sn[x].tot \in Nat
    BY DEF SnapTyped
  <2>2. CASE x \in B
    <3>1. m[x] \in Nat
      BY <1>3
    <3>2. QED
      BY <1>4, <1>7, <2>2, <3>1
  <2>3. CASE x \notin B
    BY <1>6, <2>3 DEF SnapOk, SnapTyped
  <2>4. QED
    BY <2>2, <2>3
<1>9. Snapped(sn) \subseteq CMG!InTable(sk.cnt)
  <2>1. SUFFICES ASSUME NEW x \in Key, sn[x].in PROVE x \in CMG!InTable(m)
    BY <1>3 DEF Snapped
  <2>2. CASE x \in B
    BY <1>7, <2>1, <2>2, TableIs
  <2>3. CASE x \notin B
    <3>1. x \in Snapped(snap)
      BY <1>6, <2>1, <2>3 DEF Snapped
    <3>2. QED
      BY <1>3, <2>3, <3>1
  <2>4. QED
    BY <2>2, <2>3
<1>10. ASSUME NEW x \in Key
       PROVE  RecordOk(Newest(cps, x), sn[x], LastTotal(cps), tot, exact[x])
  <2>1. CASE x \in B
    <3>1. Newest(cps, x).cnt = m[x] /\ Newest(cps, x).tot = tot
      BY <1>5, <2>1
    <3>2. m[x] \in Nat /\ m[x] <= exact[x]
      BY <1>3
    <3>3. PICK s, r : s = sn[x] /\ r = Newest(cps, x)
      OBVIOUS
    <3>4. /\ s.in => m[x] = s.cnt /\ tot = s.tot
          /\ ~s.in => m[x] = 0
      BY <1>7, <2>1, <3>3
    <3>5. r.cnt = m[x] /\ r.tot = tot
      BY <3>1, <3>3
    <3>6. PICK w \in Nat : w = LastTotal(cps) /\ w <= tot
      BY <1>4, <1>5
    <3>7. RecordOk(r, s, w, tot, exact[x])
      BY <1>4, <3>2, <3>4, <3>5, <3>6 DEF RecordOk
    <3>8. QED
      BY <3>3, <3>6, <3>7
  <2>2. CASE x \notin B
    BY <1>5, <1>6, <2>2 DEF SnapOk
  <2>3. QED
    BY <2>1, <2>2
<1>11. UnitWeights => Cardinality(Snapped(sn)) <= K - 1
  <2>1. SUFFICES ASSUME UnitWeights PROVE Cardinality(Snapped(sn)) <= K - 1
    OBVIOUS
  <2>2. PICK T \in SUBSET Key : T = CMG!InTable(sk.cnt)
    BY TableIs
  <2>3. IsFiniteSet(T) /\ Cardinality(T) \in Nat /\ Cardinality(T) <= K - 1
    BY <2>1, <2>2, ChainConstants, FS_Subset, FS_CardinalityType DEF SketchOk
  <2>4. Snapped(sn) \in SUBSET T
    BY <1>9, <2>2
  <2>5. IsFiniteSet(Snapped(sn)) /\ Cardinality(Snapped(sn)) <= Cardinality(T)
    BY <2>3, <2>4, FS_Subset
  <2>6. Cardinality(Snapped(sn)) \in Nat
    BY <2>5, FS_CardinalityType
  <2>7. QED
    BY <2>3, <2>5, <2>6, ChainConstants
<1>12. SnapOk(sn, cps, tot, exact)
  BY <1>4, <1>5, <1>8, <1>10, <1>11 DEF SnapOk
<1>13. z.sk = q /\ z.chkpts = cps /\ z.snap = sn /\ z.ctr = c /\ IsNow(z)
  <2>1. z = [sk |-> q, chkpts |-> cps, num |-> n, snap |-> sn, ctr |-> c]
    BY <1>2
  <2>2. /\ z.sk = q /\ z.chkpts = cps /\ z.num = n /\ z.snap = sn /\ z.ctr = c
        /\ z = [sk |-> z.sk, chkpts |-> z.chkpts, num |-> z.num, snap |-> z.snap, ctr |-> z.ctr]
    BY ONLY <2>1
  <2>3. QED
    BY <2>2 DEF IsNow
<1>14. \A x \in B : x \in CMG!InTable(sk.cnt) => sn[x].in /\ sn[x].cnt = m[x] /\ sn[x].tot = tot
  <2>1. SUFFICES ASSUME NEW x \in B, x \in CMG!InTable(m)
                 PROVE  sn[x].in /\ sn[x].cnt = m[x] /\ sn[x].tot = tot
    BY <1>3
  <2>2. m[x] # 0
    BY <2>1, TableIs
  <2>3. QED
    BY <1>7, <2>2
<1>15. \A x \in Key \ B : sn[x] = snap[x]
  BY <1>6
<1>16. /\ \A x \in B : Newest(cps, x) = [cnt |-> m[x], tot |-> tot]
       /\ \A x \in Key \ B : Newest(cps, x) = Newest(chkpts, x)
  BY <1>5
<1>17. QED
  BY <1>1, <1>5, <1>9, <1>12, <1>13, <1>14, <1>15, <1>16 DEF Noted

-----------------------------------------------------------------------------
(* The end of a timestamp *)

\* The state z at the end of a timestamp, before the arrival is counted.
Settled(z) ==
  /\ NowOk(useNew, z, tot, exact) /\ z.chkpts # <<>>
  /\ \A x \in Key : Captured(Newest(z.chkpts, x), CMG!CntPrime(sk)[x])

\* A counter in its range needs no new record.
LEMMA InRangeCaptured ==
  ASSUME NEW r, NEW s, NEW w \in Nat, NEW t, NEW n, RecordOk(r, s, w, t, n), NEW m \in Nat,
         s.in \in BOOLEAN,
         s.in => m <= s.cnt + CMG!Allow(s.tot) /\ (~useNew => s.cnt <= m + CMG!Allow(s.tot)),
         ~s.in => m <= CMG!Allow(w)
  PROVE  Captured(r, m)
<1>1. r.cnt \in Nat /\ r.tot \in Nat /\ CMG!Allow(r.tot) \in Nat
  BY AllowIs DEF RecordOk
<1>2. CASE s.in
  <2>1. r.cnt = s.cnt /\ r.tot = s.tot
    BY <1>2 DEF RecordOk
  <2>2. QED
    BY <1>1, <1>2, <2>1 DEF Captured
<1>3. CASE ~s.in
  <2>1. r.cnt = 0 /\ w <= r.tot
    BY <1>3 DEF RecordOk
  <2>2. CMG!Allow(w) <= CMG!Allow(r.tot) /\ CMG!Allow(w) \in Nat
    BY <1>1, <2>1, AllowIs
  <2>3. m <= CMG!Allow(w)
    BY <1>3
  <2>4. m <= CMG!Allow(r.tot)
    BY <1>1, <2>2, <2>3
  <2>5. QED
    BY <1>1, <2>1, <2>4 DEF Captured
<1>4. QED
  BY <1>2, <1>3

LEMMA CloseOldSettles ==
  ASSUME ChainInv, ~useNew, NowOk(useNew, CMG!Now, tot, exact)
  PROVE  Settled(CMG!CloseOld)
<1>1. /\ SketchOk(sk, tot, exact) /\ SnapOk(snap, chkpts, tot, exact)
      /\ ctr = CMG!EmptyCtr
  BY DEF NowOk, CMG!Now
<1>2. PICK q, V, M, num :
        /\ q = CMG!ResetDelta(sk)
        /\ V = {x \in Key \ CMG!InTable(q.cnt) : snap[x].in}
        /\ M = {x \in CMG!InTable(q.cnt) : CMG!OutOfRange(x, q.cnt)}
        /\ num = numDeltas + CMG!Cardinality(V) + CMG!Cardinality(M)
  OBVIOUS
<1>3. /\ SketchOk(q, tot, exact) /\ q.cnt = CMG!CntPrime(sk) /\ q.cnt \in [Key -> Nat]
      /\ CMG!InTable(q.cnt) = CMG!InTable(sk.cnt)
  BY <1>1, <1>2, SketchSettles
<1>4. PICK m : m = q.cnt
  OBVIOUS
<1>5. CASE chkpts = <<>> \/ num > CMG!MaxDeltas
  <2>1. PICK z : z = CMG!Checkpointed(q, ctr) /\ CMG!CloseOld = z
    BY <1>2, <1>5 DEF CMG!CloseOld
  <2>2. /\ IsNow(z) /\ z.sk = q /\ z.ctr = ctr /\ z.chkpts # <<>>
        /\ SnapOk(z.snap, z.chkpts, tot, exact)
        /\ \A x \in Key : Captured(Newest(z.chkpts, x), CMG!CntPrime(sk)[x])
    BY <1>1, <1>2, <2>1, CheckpointedOk
  <2>3. QED
    BY <1>1, <1>3, <2>1, <2>2 DEF Settled, NowOk
<1>6. CASE chkpts # <<>> /\ ~(num > CMG!MaxDeltas)
  <2>1. PICK B : B = V \cup M
    OBVIOUS
  <2>2. PICK z : z = CMG!Chained(q, [x \in B |-> m[x]], num, ctr) /\ CMG!CloseOld = z
    BY <1>2, <1>4, <1>6, <2>1 DEF CMG!CloseOld
  <2>3. B \in SUBSET Key /\ Snapped(snap) \subseteq B \cup CMG!InTable(sk.cnt)
    BY <1>2, <1>3, <2>1, TableIs DEF Snapped
  <2>4. z = CMG!Chained(q, [x \in B |-> CMG!CntPrime(sk)[x]], num, ctr)
    BY <1>3, <1>4, <2>2
  <2>5. /\ IsNow(z) /\ z.sk = q /\ z.ctr = ctr /\ z.chkpts # <<>>
        /\ SnapOk(z.snap, z.chkpts, tot, exact)
        /\ \A x \in B : Newest(z.chkpts, x) = [cnt |-> m[x], tot |-> tot]
        /\ \A x \in Key \ B : Newest(z.chkpts, x) = Newest(chkpts, x)
    <3>1. Noted(z, q, ctr, B)
      BY <1>1, <1>3, <1>6, <2>3, <2>4, ChainedOk
    <3>2. QED
      BY <1>3, <1>4, <3>1 DEF Noted
  <2>6. ASSUME NEW x \in Key
        PROVE  Captured(Newest(z.chkpts, x), m[x])
    <3>1. m[x] \in Nat /\ tot \in Nat /\ CMG!Allow(tot) \in Nat
      BY <1>1, <1>3, <1>4, AllowIs DEF SketchOk
    <3>2. CASE x \in B
      <4>1. Newest(z.chkpts, x).cnt = m[x] /\ Newest(z.chkpts, x).tot = tot
        <5>1. Newest(z.chkpts, x) = [cnt |-> m[x], tot |-> tot]
          BY <2>5, <3>2
        <5>2. QED
          BY ONLY <5>1
      <4>2. QED
        BY <3>1, <4>1 DEF Captured
    <3>3. CASE x \notin B
      <4>1. PICK w \in Nat : w = LastTotal(chkpts)
        BY <1>1 DEF SnapOk
      <4>2. RecordOk(Newest(chkpts, x), snap[x], w, tot, exact[x])
        BY <1>1, <1>6, <4>1 DEF SnapOk
      <4>3. snap[x].in \in BOOLEAN /\ snap[x].cnt \in Nat /\ snap[x].tot \in Nat
        BY <1>1 DEF SnapOk, SnapTyped
      <4>4. CMG!Allow(snap[x].tot) \in Nat /\ CMG!Allow(w) \in Nat
        BY <4>3, AllowIs
      <4>5. CMG!TotAtLastChkpt = w
        BY <4>1 DEF LastTotal, CMG!TotAtLastChkpt
      <4>6. CASE x \in CMG!InTable(m)
        <5>1. ~CMG!OutOfRange(x, m)
          BY <1>2, <1>4, <2>1, <3>3, <4>6
        <5>2. /\ snap[x].in => ~(m[x] + CMG!Allow(snap[x].tot) < snap[x].cnt)
                               /\ ~(m[x] > snap[x].cnt + CMG!Allow(snap[x].tot))
              /\ ~snap[x].in => ~(m[x] > CMG!Allow(w))
          BY <4>5, <5>1 DEF CMG!OutOfRange
        <5>3. /\ snap[x].in => m[x] <= snap[x].cnt + CMG!Allow(snap[x].tot)
                               /\ (~useNew => snap[x].cnt <= m[x] + CMG!Allow(snap[x].tot))
              /\ ~snap[x].in => m[x] <= CMG!Allow(w)
          BY <3>1, <4>3, <4>4, <5>2
        <5>4. Captured(Newest(chkpts, x), m[x])
          BY <3>1, <4>2, <4>3, <5>3, InRangeCaptured
        <5>5. QED
          BY <2>5, <3>3, <5>4
      <4>7. CASE x \notin CMG!InTable(m)
        <5>1. m[x] = 0 /\ ~snap[x].in
          BY <1>2, <1>4, <2>1, <3>3, <4>7, TableIs
        <5>2. m[x] <= CMG!Allow(w)
          BY <4>4, <5>1
        <5>3. Captured(Newest(chkpts, x), m[x])
          BY <3>1, <4>2, <4>3, <5>1, <5>2, InRangeCaptured
        <5>4. QED
          BY <2>5, <3>3, <5>3
      <4>8. QED
        BY <4>6, <4>7
    <3>4. QED
      BY <3>2, <3>3
  <2>7. QED
    BY <1>1, <1>3, <1>4, <2>2, <2>5, <2>6 DEF Settled, NowOk
<1>7. QED
  BY <1>5, <1>6

\* A checkpoint: all counters start again from the recorded values.
LEMMA RestartOk ==
  ASSUME ChainInv, SketchOk(sk, tot, exact), useNew, NEW T, T = CMG!InTable(sk.cnt),
         NEW st, HeapOf(st.heap1, T), HeapOf(st.heap2, T),
         NEW z, z = CMG!Checkpointed(CMG!ResetDelta(sk), CMG!RestartedCtr(st))
  PROVE  Settled(z)
<1>1. PICK ct, q : ct = CMG!RestartedCtr(st) /\ q = CMG!ResetDelta(sk)
  OBVIOUS
<1>2. /\ IsNow(z) /\ z.sk = q /\ z.ctr = ct /\ z.chkpts # <<>>
      /\ SketchOk(z.sk, tot, exact) /\ SnapOk(z.snap, z.chkpts, tot, exact)
      /\ LastTotal(z.chkpts) = tot /\ Snapped(z.snap) = T
      /\ \A x \in T : z.snap[x].cnt = q.cnt[x] /\ z.snap[x].tot = tot
      /\ \A x \in Key : Captured(Newest(z.chkpts, x), CMG!CntPrime(sk)[x])
  BY <1>1, CheckpointedOk
<1>3. q.cnt \in [Key -> Nat] /\ CMG!InTable(q.cnt) = T
  BY <1>1, SketchSettles
<1>4. PICK a \in Nat : a = CMG!Allow(tot)
  BY AllowIs DEF SketchOk
<1>5. CMG!ToSet(st.heap1) = T
  <2>1. st.heap1 \in Seq(Key) /\ Items(st.heap1) = T
    BY DEF HeapOf
  <2>2. PICK n \in Nat : n = Len(st.heap1) /\ DOMAIN st.heap1 = 1 .. n
    BY <2>1
  <2>3. QED
    BY <2>1, <2>2 DEF Items, CMG!ToSet
<1>6. T \in SUBSET Key
  BY TableIs
<1>7. PICK c1, c2 : /\ c1 = [x \in Key |-> IF x \in T THEN -a ELSE 0]
                    /\ c2 = [x \in Key |-> IF x \in T THEN a ELSE 0]
                    /\ ct = [sub |-> 0, c1 |-> c1, c2 |-> c2, heap1 |-> st.heap1,
                             heap2 |-> st.heap2, gone |-> {}]
  BY <1>1, <1>4, <1>5 DEF CMG!RestartedCtr
<1>8. /\ ct.sub = 0 /\ ct.c1 = c1 /\ ct.c2 = c2 /\ ct.heap1 = st.heap1
      /\ ct.heap2 = st.heap2 /\ ct.gone = {}
  BY <1>7
<1>9. c1 \in [Key -> Int] /\ c2 \in [Key -> Int]
  BY <1>4, <1>7
<1>10. IsCtr(ct)
  BY <1>7, <1>8, <1>9 DEF IsCtr
<1>11. IsHeap(st.heap1, CMG!Negated(c1))
  <2>1. PICK n \in Nat : n = Len(st.heap1) /\ \A i \in 1 .. n : st.heap1[i] \in T
    BY DEF HeapOf, Items
  <2>2. \A x \in T : CMG!Negated(c1)[x] = a
    <3>1. SUFFICES ASSUME NEW x \in T PROVE CMG!Negated(c1)[x] = a
      OBVIOUS
    <3>2. CMG!Negated(c1)[x] = -c1[x] /\ c1[x] = -a
      BY <1>6, <1>7, <1>9, NegatedIs
    <3>3. QED
      BY <1>4, <3>2
  <2>3. SUFFICES ASSUME NEW i \in 2 .. n
                 PROVE  CMG!Negated(c1)[st.heap1[i \div 2]] <= CMG!Negated(c1)[st.heap1[i]]
    BY <2>1 DEF IsHeap
  <2>4. i \in 1 .. n /\ i \div 2 \in 1 .. n
    BY <2>1
  <2>5. CMG!Negated(c1)[st.heap1[i \div 2]] = a /\ CMG!Negated(c1)[st.heap1[i]] = a
    BY <2>1, <2>2, <2>4
  <2>6. QED
    BY <1>4, <2>5
<1>12. Heaped(ct, CMG!InTable(q.cnt))
  BY <1>3, <1>8, <1>11 DEF Heaped
<1>13. ASSUME NEW x \in T
       PROVE  InSync(q, z.snap, tot, ct, x)
  <2>1. z.snap[x].in
    BY <1>2, <1>6 DEF Snapped
  <2>2. PICK b : b = BaseOf(z.snap, tot, x)
    OBVIOUS
  <2>3. b.cnt = q.cnt[x] /\ b.tot = tot
    BY <1>2, <2>1, <2>2 DEF BaseOf
  <2>4. ct.c1[x] = -a /\ ct.c2[x] = a
    BY <1>6, <1>7, <1>8
  <2>5. q.cnt[x] \in Nat
    BY <1>3, <1>6
  <2>6. /\ ct.c1[x] = q.cnt[x] + ct.sub - b.cnt - CMG!Allow(b.tot)
        /\ ct.c2[x] = q.cnt[x] + ct.sub - b.cnt + CMG!Allow(b.tot)
    BY <1>4, <1>8, <2>3, <2>4, <2>5
  <2>7. QED
    BY <2>2, <2>6 DEF InSync
<1>14. CtrOk(q, z.snap, tot, ct)
  BY <1>2, <1>3, <1>8, <1>10, <1>12, <1>13 DEF CtrOk
<1>15. QED
  BY <1>2, <1>14 DEF Settled, NowOk

\* Delta nodes were enough.
LEMMA ChainOk ==
  ASSUME ChainInv, useNew, NowOk(useNew, CMG!Now, tot, exact), chkpts # <<>>,
         NEW T, T = CMG!InTable(sk.cnt), NEW d, d = ctr.sub + sk.delta,
         NEW start, start.c1 = ctr.c1, start.c2 = ctr.c2,
         NEW st, Loop(st, start, T, d), Over(st, T, d) = {},
         NEW B, B = st.batch \cup ctr.gone, NEW n,
         NEW z, z = CMG!Chained(sk, [x \in B |-> CMG!CntPrime(sk)[x]], n, CMG!ChainedCtr(st))
  PROVE  Settled(z)
<1>1. PICK w \in Nat : w = LastTotal(chkpts)
  BY DEF NowOk, SnapOk, CMG!Now
<1>2. /\ SketchOk(sk, tot, exact) /\ SnapOk(snap, chkpts, tot, exact)
      /\ CtrOk(sk, snap, w, ctr) /\ SnapTyped(snap)
  BY <1>1 DEF NowOk, CMG!Now, SnapOk
<1>3. PICK ct, m : ct = CMG!ChainedCtr(st) /\ m = CMG!CntPrime(sk)
  OBVIOUS
<1>4. T \in SUBSET Key
  BY TableIs
<1>5. /\ ctr.gone \in SUBSET Key /\ ctr.gone \cap T = {} /\ st.batch \in SUBSET T
      /\ Snapped(snap) \subseteq ctr.gone \cup T /\ ctr.sub \in Nat
      /\ ctr.c1 \in [Key -> Int] /\ ctr.c2 \in [Key -> Int]
      /\ \A x \in T : InSync(sk, snap, w, ctr, x)
  BY <1>2 DEF CtrOk, IsCtr, Loop
<1>6. B \in SUBSET Key /\ Snapped(snap) \subseteq B \cup CMG!InTable(sk.cnt)
  BY <1>4, <1>5
<1>7. /\ IsNow(z) /\ z.sk = sk /\ z.ctr = ct /\ z.chkpts # <<>>
      /\ SnapOk(z.snap, z.chkpts, tot, exact)
      /\ LastTotal(z.chkpts) = w
      /\ Snapped(z.snap) \subseteq T
      /\ \A x \in B : x \in T => /\ z.snap[x].in
                                 /\ z.snap[x].cnt = m[x] /\ z.snap[x].tot = tot
      /\ \A x \in Key \ B : z.snap[x] = snap[x]
      /\ \A x \in B : Newest(z.chkpts, x) = [cnt |-> m[x], tot |-> tot]
      /\ \A x \in Key \ B : Newest(z.chkpts, x) = Newest(chkpts, x)
  <2>1. Noted(z, sk, ct, B)
    BY <1>2, <1>3, <1>6, ChainedOk
  <2>2. QED
    BY <1>1, <1>3, <2>1 DEF Noted
<1>8. /\ m \in [Key -> Nat] /\ CMG!InTable(m) = T
      /\ sk.cnt \in [Key -> Nat] /\ sk.delta \in Nat
      /\ \A x \in T : m[x] = sk.cnt[x] - sk.delta
  BY <1>2, <1>3, SketchSettles
<1>9. PICK a \in Nat : a = CMG!Allow(tot)
  BY <1>2, AllowIs DEF SketchOk
<1>10. PICK c2 : /\ c2 = [x \in Key |-> IF x \in ctr.gone THEN 0 ELSE st.c2[x]]
                 /\ ct = [sub |-> ctr.sub, c1 |-> st.c1, c2 |-> c2, heap1 |-> st.heap1,
                          heap2 |-> st.heap2, gone |-> {}]
  BY <1>3 DEF CMG!ChainedCtr
<1>11. /\ ct.sub = ctr.sub /\ ct.c1 = st.c1 /\ ct.c2 = c2 /\ ct.heap1 = st.heap1
       /\ ct.heap2 = st.heap2 /\ ct.gone = {}
  BY <1>10
<1>12. /\ st.c1 \in [Key -> Int] /\ st.c2 \in [Key -> Int]
       /\ HeapOf(st.heap1, T) /\ HeapOf(st.heap2, T) /\ IsHeap(st.heap1, CMG!Negated(st.c1))
       /\ \A x \in Key : /\ st.c1[x] = IF x \in st.batch THEN d - a ELSE ctr.c1[x]
                         /\ st.c2[x] = IF x \in st.batch THEN d + a ELSE ctr.c2[x]
  BY <1>9 DEF Loop
<1>13. IsCtr(ct)
  <2>1. c2 \in [Key -> Int]
    BY <1>10, <1>12
  <2>2. QED
    BY <1>5, <1>10, <1>11, <1>12, <2>1 DEF IsCtr
<1>14. Heaped(ct, T)
  BY <1>11, <1>12 DEF Heaped
<1>15. ASSUME NEW x \in T
       PROVE  InSync(sk, z.snap, w, ct, x)
  <2>1. x \in Key /\ x \notin ctr.gone /\ ct.c1[x] = st.c1[x] /\ ct.c2[x] = st.c2[x]
    BY <1>4, <1>5, <1>10, <1>11
  <2>2. CASE x \in st.batch
    <3>1. PICK b : b = BaseOf(z.snap, w, x)
      OBVIOUS
    <3>2. b.cnt = sk.cnt[x] - sk.delta /\ b.tot = tot
      BY <1>7, <1>8, <2>2, <3>1 DEF BaseOf
    <3>3. ct.c1[x] = d - a /\ ct.c2[x] = d + a
      BY <1>12, <2>1, <2>2
    <3>4. sk.cnt[x] \in Nat
      BY <1>8, <2>1
    <3>5. /\ ct.c1[x] = sk.cnt[x] + ct.sub - b.cnt - CMG!Allow(b.tot)
          /\ ct.c2[x] = sk.cnt[x] + ct.sub - b.cnt + CMG!Allow(b.tot)
      <4>1. PICK i \in Nat, j \in Nat, e \in Nat :
              i = sk.cnt[x] /\ j = ctr.sub /\ e = sk.delta
        BY <1>5, <1>8, <3>4
      <4>2. /\ ct.c1[x] = j + e - a /\ ct.c2[x] = j + e + a /\ ct.sub = j
            /\ b.cnt = i - e /\ CMG!Allow(b.tot) = a
        BY <1>5, <1>8, <1>9, <1>11, <3>2, <3>3, <4>1
      <4>3. j + e - a = i + j - (i - e) - a /\ j + e + a = i + j - (i - e) + a
        BY ONLY a \in Nat, i \in Nat, j \in Nat, e \in Nat
      <4>4. QED
        BY ONLY <4>1, <4>2, <4>3
    <3>6. QED
      BY ONLY <3>1, <3>5 DEF InSync
  <2>3. CASE x \notin st.batch
    <3>1. BaseOf(z.snap, w, x) = BaseOf(snap, w, x)
      <4>1. x \in Key \ B /\ z.snap[x] = snap[x]
        BY <1>7, <2>1, <2>3
      <4>2. QED
        BY ONLY <4>1 DEF BaseOf
    <3>2. ct.c1[x] = ctr.c1[x] /\ ct.c2[x] = ctr.c2[x] /\ ct.sub = ctr.sub
      BY <1>11, <1>12, <2>1, <2>3
    <3>3. InSync(sk, snap, w, ctr, x)
      BY <1>5
    <3>4. QED
      BY <3>1, <3>2, <3>3 DEF InSync
  <2>4. QED
    BY <2>2, <2>3
<1>16. CtrOk(sk, z.snap, w, ct)
  BY <1>7, <1>11, <1>13, <1>14, <1>15 DEF CtrOk
<1>17. ASSUME NEW x \in Key
       PROVE  Captured(Newest(z.chkpts, x), m[x])
  <2>1. m[x] \in Nat
    BY <1>8
  <2>2. CASE x \in B
    <3>1. Newest(z.chkpts, x).cnt = m[x] /\ Newest(z.chkpts, x).tot = tot
      <4>1. Newest(z.chkpts, x) = [cnt |-> m[x], tot |-> tot]
        BY <1>7, <2>2
      <4>2. QED
        BY ONLY <4>1
    <3>2. tot \in Nat
      BY <1>2 DEF SketchOk
    <3>3. QED
      BY <1>9, <2>1, <3>1, <3>2 DEF Captured
  <2>3. CASE x \notin B
    <3>1. RecordOk(Newest(chkpts, x), snap[x], w, tot, exact[x])
      BY <1>1, <1>2 DEF SnapOk
    <3>2. snap[x].in \in BOOLEAN /\ snap[x].cnt \in Nat /\ snap[x].tot \in Nat
      BY <1>2 DEF SnapTyped
    <3>3. PICK b : b = BaseOf(snap, w, x)
      OBVIOUS
    <3>4. b.cnt \in Nat /\ b.tot \in Nat /\ CMG!Allow(b.tot) \in Nat
      BY <1>2, <3>3, BaseIs
    <3>5. m[x] <= b.cnt + CMG!Allow(b.tot)
      <4>1. CASE x \in T
        <5>1. ~(st.c1[x] > d) /\ st.c1[x] = ctr.c1[x]
          BY <1>12, <2>3, <4>1 DEF Over
        <5>2. ctr.c1[x] = sk.cnt[x] + ctr.sub - b.cnt - CMG!Allow(b.tot)
          BY <1>5, <3>3, <4>1 DEF InSync
        <5>3. m[x] = sk.cnt[x] - sk.delta /\ sk.cnt[x] \in Nat
          BY <1>8, <4>1
        <5>4. PICK i \in Nat, j \in Nat, e \in Nat, g \in Nat, h \in Nat :
                i = sk.cnt[x] /\ j = ctr.sub /\ e = sk.delta /\ g = b.cnt /\ h = CMG!Allow(b.tot)
          BY <1>5, <1>8, <3>4, <5>3
        <5>5. ~(i + j - g - h > j + e) /\ m[x] = i - e
          BY <5>1, <5>2, <5>3, <5>4
        <5>6. i - e <= g + h
          BY ONLY <5>5, i \in Nat, j \in Nat, e \in Nat, g \in Nat, h \in Nat
        <5>7. QED
          BY ONLY <5>4, <5>5, <5>6
      <4>2. CASE x \notin T
        <5>1. m[x] = 0
          BY <1>8, <4>2, TableIs
        <5>2. QED
          BY <3>4, <5>1
      <4>3. QED
        BY <4>1, <4>2
    <3>6. /\ snap[x].in => b = snap[x]
          /\ ~snap[x].in => b.cnt = 0 /\ b.tot = w
      BY <3>3 DEF BaseOf
    <3>7. CMG!Allow(w) \in Nat
      BY AllowIs
    <3>8. ~snap[x].in => m[x] <= CMG!Allow(w)
      BY <2>1, <3>5, <3>6, <3>7
    <3>9. snap[x].in => m[x] <= snap[x].cnt + CMG!Allow(snap[x].tot)
                        /\ (~useNew => snap[x].cnt <= m[x] + CMG!Allow(snap[x].tot))
      BY <3>5, <3>6
    <3>10. Captured(Newest(chkpts, x), m[x])
      BY <2>1, <3>1, <3>2, <3>8, <3>9, InRangeCaptured
    <3>11. QED
      BY <1>7, <2>3, <3>10
  <2>4. QED
    BY <2>2, <2>3
<1>18. NowOk(useNew, z, tot, exact)
  BY <1>2, <1>7, <1>16 DEF NowOk
<1>19. QED
  BY <1>3, <1>7, <1>17, <1>18 DEF Settled

LEMMA CloseNewSettles ==
  ASSUME ChainInv, useNew, NowOk(useNew, CMG!Now, tot, exact), NEW phantom
  PROVE  Settled(CMG!CloseNew(phantom))
<1>1. PICK w \in Nat : w = LastTotal(chkpts)
  BY DEF NowOk, SnapOk, CMG!Now
<1>2. SketchOk(sk, tot, exact) /\ CtrOk(sk, snap, w, ctr)
  BY <1>1 DEF NowOk, CMG!Now
<1>3. PICK T : T = CMG!InTable(sk.cnt)
  OBVIOUS
<1>4. T \in SUBSET Key
  BY <1>3, TableIs
<1>5. tot \in Nat /\ ctr.sub \in Nat /\ sk.delta \in Nat /\ CMG!Allow(tot) \in Nat
  BY <1>2, SketchSettles, AllowIs DEF SketchOk, CtrOk, IsCtr
<1>6. PICK d \in Int : d = ctr.sub + sk.delta
  BY <1>5
<1>7. PICK start : start = [c1 |-> ctr.c1, c2 |-> ctr.c2, heap1 |-> ctr.heap1,
                            heap2 |-> ctr.heap2, batch |-> {}, full |-> FALSE]
  OBVIOUS
<1>8. /\ start.c1 = ctr.c1 /\ start.c2 = ctr.c2 /\ start.heap1 = ctr.heap1
      /\ start.heap2 = ctr.heap2 /\ start.batch = {} /\ start.full = FALSE
  BY <1>7
<1>9. Loop(start, start, T, d)
  <2>1. ctr.c1 \in [Key -> Int] /\ ctr.c2 \in [Key -> Int] /\ Heaped(ctr, T)
    BY <1>2, <1>3 DEF CtrOk, IsCtr
  <2>2. start = [c1 |-> start.c1, c2 |-> start.c2, heap1 |-> start.heap1,
                 heap2 |-> start.heap2, batch |-> start.batch, full |-> start.full]
    BY <1>7, <1>8
  <2>3. QED
    BY <1>8, <2>1, <2>2 DEF Loop, Heaped
<1>10. PICK up : up = CMG!RecordAbove(start, d)
  OBVIOUS
<1>11. Loop(up, start, T, d) /\ (up.full \/ Over(up, T, d) = {})
  BY <1>4, <1>5, <1>9, <1>10, RecordAboveIs
<1>12. PICK st : st = CMG!RecordBelow(up, d)
  OBVIOUS
<1>13. Loop(st, start, T, d) /\ (st.full \/ Over(st, T, d) = {})
  BY <1>4, <1>5, <1>11, <1>12, RecordBelowIs
<1>14. PICK B, num : /\ B = st.batch \cup ctr.gone
                     /\ num = numDeltas + CMG!Cardinality(B) + phantom
  OBVIOUS
<1>15. CMG!CloseNew(phantom) =
         IF chkpts = <<>> THEN CMG!Checkpointed(CMG!ResetDelta(sk), CMG!RestartedCtr(start))
         ELSE IF st.full \/ num > CMG!MaxDeltas
         THEN CMG!Checkpointed(CMG!ResetDelta(sk), CMG!RestartedCtr(st))
         ELSE CMG!Chained(sk, [x \in B |-> CMG!CntPrime(sk)[x]], num, CMG!ChainedCtr(st))
  BY <1>6, <1>7, <1>10, <1>12, <1>14 DEF CMG!CloseNew
<1>16. CASE chkpts = <<>>
  <2>1. HeapOf(start.heap1, T) /\ HeapOf(start.heap2, T)
    BY <1>9 DEF Loop
  <2>2. PICK z : z = CMG!Checkpointed(CMG!ResetDelta(sk), CMG!RestartedCtr(start))
    OBVIOUS
  <2>3. Settled(z)
    BY <1>2, <1>3, <2>1, <2>2, RestartOk
  <2>4. QED
    BY <1>15, <1>16, <2>2, <2>3
<1>17. CASE chkpts # <<>> /\ (st.full \/ num > CMG!MaxDeltas)
  <2>1. HeapOf(st.heap1, T) /\ HeapOf(st.heap2, T)
    BY <1>13 DEF Loop
  <2>2. PICK z : z = CMG!Checkpointed(CMG!ResetDelta(sk), CMG!RestartedCtr(st))
    OBVIOUS
  <2>3. Settled(z)
    BY <1>2, <1>3, <2>1, <2>2, RestartOk
  <2>4. QED
    BY <1>15, <1>17, <2>2, <2>3
<1>18. CASE chkpts # <<>> /\ ~(st.full \/ num > CMG!MaxDeltas)
  <2>1. PICK z : z = CMG!Chained(sk, [x \in B |-> CMG!CntPrime(sk)[x]], num, CMG!ChainedCtr(st))
    OBVIOUS
  <2>2. Settled(z)
    BY <1>3, <1>6, <1>8, <1>13, <1>14, <1>18, <2>1, ChainOk
  <2>3. QED
    BY <1>15, <1>18, <2>1, <2>2
<1>19. QED
  BY <1>16, <1>17, <1>18
-----------------------------------------------------------------------------
(* An arrival *)

\* What is recorded stays in order while the stream goes on.
LEMMA SnapGoesOn ==
  ASSUME NEW sn, NEW cps, NEW t \in Nat, NEW f \in [Key -> Nat], SnapOk(sn, cps, t, f),
         NEW u \in Nat, NEW g \in [Key -> Nat], t <= u, \A x \in Key : f[x] <= g[x]
  PROVE  SnapOk(sn, cps, u, g)
<1>1. PICK w \in Nat : w = LastTotal(cps) /\ w <= t
  BY DEF SnapOk
<1>2. w <= u
  BY <1>1
<1>3. ASSUME NEW x \in Key, NEW r, RecordOk(r, sn[x], w, t, f[x])
      PROVE  RecordOk(r, sn[x], w, u, g[x])
  <2>1. f[x] \in Nat /\ g[x] \in Nat /\ f[x] <= g[x]
    OBVIOUS
  <2>2. r.cnt \in Nat /\ r.tot \in Nat /\ r.tot <= t /\ r.cnt <= f[x]
    BY <1>3 DEF RecordOk
  <2>3. r.tot <= u /\ r.cnt <= g[x]
    BY <2>1, <2>2
  <2>4. QED
    BY <1>3, <2>2, <2>3 DEF RecordOk
<1>4. cps # <<>> => \A x \in Key : RecordOk(Newest(cps, x), sn[x], w, u, g[x])
  BY <1>1, <1>3 DEF SnapOk
<1>5. QED
  BY <1>1, <1>2, <1>4 DEF SnapOk

\* The state z once an arrival was counted.
Counted(z) ==
  /\ sk' = z.sk /\ chkpts' = z.chkpts /\ numDeltas' = z.num /\ snap' = z.snap /\ ctr' = z.ctr
  /\ NowOk(useNew', z, tot', exact')

LEMMA CountOk ==
  ASSUME NEW now, NowOk(useNew, now, tot, exact), useNew \in BOOLEAN, NEW x \in Key, NEW c \in ChainWeights,
         tot + c <= ChainMaxTotal, CMG!Count(now, x, c)
  PROVE  \E z : Counted(z) /\ z.chkpts = now.chkpts
<1>1. /\ IsNow(now) /\ SketchOk(now.sk, tot, exact)
      /\ SnapOk(now.snap, now.chkpts, tot, exact)
      /\ tot \in Nat /\ exact \in [Key -> Nat] /\ c \in Nat
  BY ChainConstants DEF NowOk, SketchOk
<1>2. PICK u, g : u = tot + c /\ g = [exact EXCEPT ![x] = @ + c]
  OBVIOUS
<1>3. tot' = u /\ exact' = g /\ useNew' = useNew
  BY <1>2 DEF CMG!Count
<1>4. /\ u \in Nat /\ tot <= u /\ g \in [Key -> Nat]
      /\ \A y \in Key : exact[y] <= g[y]
  <2>1. g = [y \in Key |-> IF y = x THEN exact[x] + c ELSE exact[y]]
    BY <1>1, <1>2
  <2>2. \A y \in Key : exact[y] \in Nat
    BY <1>1
  <2>3. QED
    BY <1>1, <1>2, <2>1, <2>2
<1>5. SnapOk(now.snap, now.chkpts, u, g)
  BY <1>1, <1>4, SnapGoesOn
<1>6. PICK r : r = CMG!UpdateImpl(now.sk, x, c)
  OBVIOUS
<1>7. SketchOk(r, u, g)
  BY <1>1, <1>2, <1>6, SketchCounts
<1>8. CASE useNew
  <2>1. PICK l \in CMG!DeletedLists(now.sk, x, c) : CMG!Become(CMG!CountNew(now, x, c, l))
    BY <1>8 DEF CMG!Count
  <2>2. PICK z : z = CMG!CountNew(now, x, c, l)
    OBVIOUS
  <2>3. PICK w \in Nat : w = LastTotal(now.chkpts)
    BY <1>1 DEF SnapOk
  <2>4. SnapTyped(now.snap) /\ CtrOk(now.sk, now.snap, w, now.ctr)
    BY <1>8, <2>3 DEF NowOk, SnapOk
  <2>5. /\ z.sk = r
        /\ z = [sk |-> z.sk, chkpts |-> now.chkpts, num |-> now.num,
                snap |-> now.snap, ctr |-> z.ctr]
        /\ CtrOk(z.sk, now.snap, w, z.ctr)
    <3>1. w = IF now.chkpts = <<>> THEN 0 ELSE CMG!Last(now.chkpts).tot
      BY <2>3 DEF LastTotal
    <3>2. CountedNew(CMG!CountNew(now, x, c, l), now, x, c, w)
      BY <1>1, <2>1, <2>4, <3>1, CountNewKeeps
    <3>3. QED
      BY <1>6, <2>2, <3>2 DEF CountedNew
  <2>6. z.chkpts = now.chkpts /\ z.num = now.num /\ z.snap = now.snap
    BY <2>5
  <2>7. IsNow(z)
    BY <2>5, <2>6 DEF IsNow
  <2>8. NowOk(useNew, z, u, g)
    BY <1>5, <1>7, <1>8, <2>3, <2>5, <2>6, <2>7 DEF NowOk
  <2>9. NowOk(useNew', z, tot', exact')
    BY <1>3, <2>8
  <2>10. sk' = z.sk /\ chkpts' = z.chkpts /\ numDeltas' = z.num /\ snap' = z.snap /\ ctr' = z.ctr
    BY <2>1, <2>2 DEF CMG!Become
  <2>11. QED
    BY <2>6, <2>9, <2>10 DEF Counted
<1>9. CASE ~useNew
  <2>1. PICK z : z = CMG!CountOld(now, x, c) /\ CMG!Become(z)
    BY <1>9 DEF CMG!Count
  <2>2. z = [now EXCEPT !.sk = r]
    BY <1>6, <2>1 DEF CMG!CountOld
  <2>3. z = [sk |-> r, chkpts |-> now.chkpts, num |-> now.num, snap |-> now.snap, ctr |-> now.ctr]
    BY <1>1, <2>2 DEF IsNow
  <2>4. /\ z.sk = r /\ z.chkpts = now.chkpts /\ z.num = now.num /\ z.snap = now.snap
        /\ z.ctr = now.ctr
    BY <2>3
  <2>5. IsNow(z)
    BY <2>3, <2>4 DEF IsNow
  <2>6. now.ctr = CMG!EmptyCtr
    BY <1>9 DEF NowOk
  <2>7. NowOk(useNew, z, u, g)
    BY <1>5, <1>7, <1>9, <2>4, <2>5, <2>6 DEF NowOk
  <2>8. NowOk(useNew', z, tot', exact')
    BY <1>3, <2>7
  <2>9. QED
    BY <2>1, <2>4, <2>8 DEF Counted, CMG!Become
<1>10. QED
  BY <1>8, <1>9

-----------------------------------------------------------------------------
(* The present *)

PresentInv == useNew \in BOOLEAN /\ NowOk(useNew, CMG!Now, tot, exact)

LEMMA CountedIsPresent ==
  ASSUME NEW z, Counted(z), useNew' \in BOOLEAN
  PROVE  PresentInv'
<1>1. IsNow(z)
  BY DEF Counted, NowOk
<1>2. CMG!Now' = z
  BY <1>1 DEF Counted, CMG!Now, IsNow
<1>3. NowOk(useNew', CMG!Now', tot', exact')
  BY <1>2 DEF Counted
<1>4. QED
  BY <1>3 DEF PresentInv, NowOk

LEMMA EmptyPresent ==
  ASSUME NEW new \in BOOLEAN, NEW now, NEW f,
         f = CMG!NoCounts,
         now = [sk |-> CMG!EmptySketch, chkpts |-> <<>>, num |-> 0,
                snap |-> [x \in Key |-> CMG!Unrecorded], ctr |-> CMG!EmptyCtr]
  PROVE  NowOk(new, now, 0, f)
<1>1. PICK q, sn, ct : /\ q = CMG!EmptySketch /\ sn = [x \in Key |-> CMG!Unrecorded]
                       /\ ct = CMG!EmptyCtr
  OBVIOUS
<1>2. /\ now.sk = q /\ now.chkpts = <<>> /\ now.num = 0 /\ now.snap = sn /\ now.ctr = ct
      /\ IsNow(now)
  BY <1>1 DEF IsNow
<1>3. f \in [Key -> Nat] /\ \A x \in Key : f[x] = 0
  BY DEF CMG!NoCounts
<1>4. SketchOk(q, 0, f)
  BY <1>1, <1>3, EmptySketchOk
<1>5. \A x \in Key : ~sn[x].in /\ sn[x].in \in BOOLEAN /\ sn[x].cnt = 0 /\ sn[x].tot = 0
  BY <1>1 DEF CMG!Unrecorded
<1>6. Snapped(sn) = {} /\ SnapTyped(sn)
  BY <1>5 DEF Snapped, SnapTyped
<1>7. LastTotal(<<>>) = 0
  BY DEF LastTotal
<1>8. SnapOk(sn, <<>>, 0, f)
  <2>1. Cardinality({}) = 0
    BY FS_EmptySet
  <2>2. UnitWeights => Cardinality(Snapped(sn)) <= K - 1
    BY <1>6, <2>1, ChainConstants
  <2>3. QED
    BY <1>6, <1>7, <2>2 DEF SnapOk
<1>9. PICK zeros : zeros = CMG!NoCounts /\ zeros \in [Key -> Int] /\ \A x \in Key : zeros[x] = 0
  BY DEF CMG!NoCounts
<1>10. /\ ct = [sub |-> 0, c1 |-> zeros, c2 |-> zeros, heap1 |-> <<>>, heap2 |-> <<>>, gone |-> {}]
  BY <1>1, <1>9 DEF CMG!EmptyCtr
<1>11. CMG!InTable(q.cnt) = {}
  <2>1. \A x \in Key : q.cnt[x] = 0
    BY <1>1 DEF CMG!EmptySketch
  <2>2. QED
    BY <2>1, TableIs
<1>12. CtrOk(q, sn, 0, ct)
  <2>1. /\ ct.sub = 0 /\ ct.c1 = zeros /\ ct.c2 = zeros /\ ct.heap1 = <<>> /\ ct.heap2 = <<>>
        /\ ct.gone = {}
    BY <1>10
  <2>2. IsCtr(ct)
    BY <1>9, <1>10, <2>1 DEF IsCtr
  <2>3. HeapOf(<<>>, {})
    BY DEF HeapOf, NoRepeat, Items
  <2>4. IsHeap(<<>>, CMG!Negated(zeros))
    BY DEF IsHeap
  <2>5. Heaped(ct, {})
    BY <2>1, <2>3, <2>4 DEF Heaped
  <2>6. QED
    BY <1>6, <1>11, <2>1, <2>2, <2>5 DEF CtrOk
<1>13. QED
  BY <1>1, <1>2, <1>4, <1>7, <1>8, <1>12 DEF NowOk

LEMMA PresentInitial == CMG!Init => PresentInv
<1>1. SUFFICES ASSUME CMG!Init PROVE PresentInv
  OBVIOUS
<1>2. CMG!Now = [sk |-> CMG!EmptySketch, chkpts |-> <<>>, num |-> 0,
                snap |-> [x \in Key |-> CMG!Unrecorded], ctr |-> CMG!EmptyCtr]
  BY <1>1 DEF CMG!Init, CMG!Now
<1>3. useNew \in BOOLEAN /\ tot = 0 /\ exact = CMG!NoCounts
  BY <1>1 DEF CMG!Init
<1>4. NowOk(useNew, CMG!Now, 0, exact)
  BY <1>2, <1>3, EmptyPresent
<1>5. QED
  BY <1>3, <1>4 DEF PresentInv

LEMMA PresentStep ==
  ASSUME PresentInv, ChainInv, CMG!Next \/ UNCHANGED CMG!vars
  PROVE  PresentInv'
<1>1. ASSUME NEW x \in Key, NEW c \in ChainWeights, CMG!UpdateSameTs(x, c)
      PROVE  PresentInv'
  <2>1. tot + c <= ChainMaxTotal /\ CMG!Count(CMG!Now, x, c) /\ useNew' = useNew
    BY <1>1 DEF CMG!UpdateSameTs, CMG!Count
  <2>2. PICK z : Counted(z)
    BY <2>1, CountOk DEF PresentInv
  <2>3. QED
    BY <2>1, <2>2, CountedIsPresent DEF PresentInv
<1>2. ASSUME NEW x \in Key, NEW c \in ChainWeights, CMG!UpdateNextTs(x, c)
      PROVE  PresentInv'
  <2>1. PICK now : Settled(now) /\ CMG!Count(now, x, c) /\ tot + c <= ChainMaxTotal
    <3>1. CASE useNew
      <4>1. PICK phantom : CMG!Count(CMG!CloseNew(phantom), x, c) /\ tot + c <= ChainMaxTotal
        BY <1>2, <3>1 DEF CMG!UpdateNextTs
      <4>2. Settled(CMG!CloseNew(phantom))
        BY <3>1, CloseNewSettles DEF PresentInv
      <4>3. QED
        BY <4>1, <4>2
    <3>2. CASE ~useNew
      <4>1. CMG!Count(CMG!CloseOld, x, c) /\ tot + c <= ChainMaxTotal
        BY <1>2, <3>2 DEF CMG!UpdateNextTs
      <4>2. Settled(CMG!CloseOld)
        BY <3>2, CloseOldSettles DEF PresentInv
      <4>3. QED
        BY <4>1, <4>2
    <3>3. QED
      BY <3>1, <3>2
  <2>2. PICK z : Counted(z)
    BY <2>1, CountOk DEF PresentInv, Settled
  <2>3. QED
    BY <2>1, <2>2, CountedIsPresent DEF PresentInv, CMG!Count
<1>3. ASSUME CMG!Clear
      PROVE  PresentInv'
  <2>1. CMG!Now' = [sk |-> CMG!EmptySketch, chkpts |-> <<>>, num |-> 0,
                snap |-> [x \in Key |-> CMG!Unrecorded], ctr |-> CMG!EmptyCtr]
    BY <1>3 DEF CMG!Clear, CMG!Now
  <2>2. useNew' \in BOOLEAN /\ tot' = 0 /\ exact' = CMG!NoCounts
    BY <1>3 DEF CMG!Clear, PresentInv
  <2>3. NowOk(useNew', CMG!Now', tot', exact')
    BY <2>1, <2>2, EmptyPresent
  <2>4. QED
    BY <2>2, <2>3 DEF PresentInv, NowOk
<1>4. ASSUME UNCHANGED CMG!vars
      PROVE  PresentInv'
  <2>1. CMG!Now' = CMG!Now /\ useNew' = useNew /\ tot' = tot /\ exact' = exact
    BY <1>4 DEF CMG!vars, CMG!Now
  <2>2. NowOk(useNew', CMG!Now', tot', exact') /\ useNew' \in BOOLEAN
    BY <2>1 DEF PresentInv
  <2>3. QED
    BY <2>2 DEF PresentInv, NowOk
<1>5. QED
  BY <1>1, <1>2, <1>3, <1>4 DEF CMG!Next
-----------------------------------------------------------------------------
(* The past *)

\* The record r of x answers for the timestamp with the entry e of closed.
PastOk(r, e, x) ==
  /\ Captured(r, e.mg[x])
  /\ r.tot <= e.tot /\ r.cnt <= e.exact[x]
  /\ e.tot \in Nat /\ e.exact[x] \in Nat /\ e.mg[x] \in Nat
  /\ UnitWeights => K * (e.exact[x] - e.mg[x]) <= e.tot

PastInv ==
  \A ts \in 1 .. Len(closed), x \in Key : PastOk(CMG!RecordAt(ts, x), closed[ts], x)

\* The newest record is what is read for the timestamp that ended last.
LEMMA NewestIsRead ==
  ASSUME NEW cps, Listed(cps), cps # <<>>, NEW n \in Nat,
         \A j \in 1 .. Len(cps) :
           /\ cps[j].ts \in 1 .. n /\ Listed(cps[j].deltas)
           /\ \A k \in 1 .. Len(cps[j].deltas) : cps[j].deltas[k].ts \in 1 .. n,
         NEW x
  PROVE  ReadFrom(cps[CMG!Max(Started(cps, n))], n, x) = Newest(cps, x)
<1>1. PICK m \in Nat : m = Len(cps) /\ m >= 1 /\ DOMAIN cps = 1 .. m
  BY ListedEmpty, ListedIsSeq DEF Listed
<1>2. PICK S : S = Started(cps, n)
  OBVIOUS
<1>3. S = 1 .. m
  <2>1. \A j \in 1 .. m : cps[j].ts <= n
    BY <1>1
  <2>2. QED
    BY <1>1, <1>2, <2>1 DEF Started
<1>4. CMG!Max(S) = m
  <2>1. m \in S /\ S \in SUBSET (1 .. m) /\ S # {}
    BY <1>1, <1>3
  <2>2. CMG!Max(S) \in S /\ m <= CMG!Max(S)
    BY <2>1, GreatestElement
  <2>3. CMG!Max(S) \in 1 .. m
    BY <1>3, <2>2
  <2>4. QED
    BY <1>1, <2>2, <2>3
<1>5. PICK p, d : p = cps[m] /\ d = p.deltas
  OBVIOUS
<1>6. Listed(d) /\ \A k \in 1 .. Len(d) : d[k].ts \in 1 .. n
  BY <1>1, <1>5
<1>7. PICK l \in Nat : l = Len(d) /\ DOMAIN d = 1 .. l
  BY <1>6, ListedIsSeq DEF Listed
<1>8. \A k \in DOMAIN d : d[k].ts <= n
  BY <1>6, <1>7
<1>9. Moved(d, n, x) = Recording(p, x)
  BY <1>5, <1>8 DEF Moved, Recording
<1>10. ReadFrom(p, n, x) = NewestOf(p, x)
  BY <1>5, <1>9 DEF ReadFrom, NewestOf
<1>11. QED
  BY <1>1, <1>2, <1>4, <1>5, <1>10 DEF Newest

\* The timestamp that ends now will be answered for.
LEMMA ClosedOk ==
  ASSUME NEW now, Settled(now), SketchOk(sk, tot, exact), NEW x \in Key,
         NEW e, e = [exact |-> exact, mg |-> CMG!CntPrime(sk), tot |-> tot]
  PROVE  PastOk(Newest(now.chkpts, x), e, x)
<1>1. e.exact = exact /\ e.mg = CMG!CntPrime(sk) /\ e.tot = tot
  OBVIOUS
<1>2. PICK r : r = Newest(now.chkpts, x)
  OBVIOUS
<1>3. Captured(r, CMG!CntPrime(sk)[x])
  BY <1>2 DEF Settled
<1>4. RecordOk(r, now.snap[x], LastTotal(now.chkpts), tot, exact[x])
  BY <1>2 DEF Settled, NowOk, SnapOk
<1>5. r.tot <= tot /\ r.cnt <= exact[x]
  BY <1>4 DEF RecordOk
<1>6. tot \in Nat /\ exact[x] \in Nat
  BY DEF SketchOk
<1>7. /\ CMG!CntPrime(sk) \in [Key -> Nat]
      /\ UnitWeights => K * (exact[x] - CMG!CntPrime(sk)[x]) <= tot
  BY SketchSettles
<1>8. QED
  BY <1>1, <1>2, <1>3, <1>5, <1>6, <1>7 DEF PastOk

LEMMA PastKept ==
  ASSUME PastInv, closed' = closed, chkpts' = chkpts, useNew' = useNew
  PROVE  PastInv'
<1>1. SUFFICES ASSUME NEW ts \in 1 .. Len(closed'), NEW x \in Key
               PROVE  PastOk(CMG!RecordAt(ts, x), closed[ts], x)'
  BY DEF PastInv
<1>2. PastOk(CMG!RecordAt(ts, x), closed[ts], x)
  BY DEF PastInv
<1>3. CMG!RecordAt(ts, x)' = CMG!RecordAt(ts, x)
  BY RecordIsRead
<1>4. PICK r : r = CMG!RecordAt(ts, x) /\ r = CMG!RecordAt(ts, x)'
  BY <1>3
<1>5. QED
  BY <1>2, <1>4 DEF PastOk, Captured, CMG!Allow

LEMMA PastGrows ==
  ASSUME PastInv, ChainInv, ChainInv', lastTs > 0, useNew' = useNew, NEW now, Settled(now),
         SketchOk(sk, tot, exact), chkpts' = now.chkpts, Extends(now.chkpts),
         closed' = Append(closed, [exact |-> exact, mg |-> CMG!CntPrime(sk), tot |-> tot])
  PROVE  PastInv'
<1>1. PICK e : e = [exact |-> exact, mg |-> CMG!CntPrime(sk), tot |-> tot]
  OBVIOUS
<1>2. PICK n \in Nat : n = Len(closed) /\ Listed(closed)
  BY DEF ChainInv, Listed
<1>3. PICK s : Appended(closed, e, s) /\ closed' = s
  <2>1. PICK s : Appended(closed, e, s)
    BY <1>2, ListedAppend
  <2>2. s = Append(closed, e) /\ closed' = Append(closed, e)
    BY <1>1, <2>1 DEF Appended
  <2>3. QED
    BY <2>1, <2>2
<1>4. Len(s) = n + 1 /\ s[n + 1] = e /\ \A i \in 1 .. n : s[i] = closed[i]
  BY <1>2, <1>3 DEF Appended
<1>5. PICK new : new = now.chkpts
  OBVIOUS
<1>6. Continues(new)
  BY <1>5, ExtendsContinues
<1>7. SUFFICES ASSUME NEW ts \in 1 .. n + 1, NEW x \in Key
               PROVE  PastOk(CMG!RecordAt(ts, x), closed[ts], x)'
  BY <1>3, <1>4 DEF PastInv
<1>8. PICK r : r = CMG!RecordAt(ts, x)'
  OBVIOUS
<1>9. r = ReadFrom(new[CMG!Max(Started(new, ts))], ts, x)
  BY <1>5, <1>8, RecordIsRead
<1>10. PastOk(r, s[ts], x)
  <2>1. CASE ts \in 1 .. n
    <3>1. r = ReadFrom(chkpts[CMG!Max(Started(chkpts, ts))], ts, x)
      BY <1>2, <1>6, <1>9, <2>1, RecordKept
    <3>2. r = CMG!RecordAt(ts, x)
      BY <3>1, RecordIsRead
    <3>3. QED
      BY <1>2, <1>4, <2>1, <3>2 DEF PastInv
  <2>2. CASE ts = n + 1
    <3>1. new # <<>> /\ Listed(new)
      BY <1>5, <1>6 DEF Settled, Continues
    <3>2. \A j \in 1 .. Len(new) :
            /\ new[j].ts \in 1 .. n + 1 /\ Listed(new[j].deltas)
            /\ \A k \in 1 .. Len(new[j].deltas) : new[j].deltas[k].ts \in 1 .. n + 1
      <4>1. chkpts' = new /\ closed' = s /\ Len(s) = n + 1
        BY <1>3, <1>4, <1>5
      <4>2. (\A j \in 1 .. Len(chkpts) : IsCheckpoint(chkpts[j]))'
        BY ONLY ChainInv' DEF ChainInv
      <4>3. QED
        BY ONLY <4>1, <4>2 DEF IsCheckpoint
    <3>3. r = Newest(new, x)
      <4>1. PICK k \in Nat : k = n + 1
        BY <1>2
      <4>2. ReadFrom(new[CMG!Max(Started(new, k))], k, x) = Newest(new, x)
        <5>1. \A j \in 1 .. Len(new) :
                /\ new[j].ts \in 1 .. k /\ Listed(new[j].deltas)
                /\ \A i \in 1 .. Len(new[j].deltas) : new[j].deltas[i].ts \in 1 .. k
          BY ONLY <3>2, <4>1
        <5>2. QED
          BY ONLY <3>1, <5>1, k \in Nat, NewestIsRead
      <4>3. QED
        BY ONLY <1>9, <2>2, <4>1, <4>2
    <3>4. PastOk(r, e, x)
      BY <1>1, <1>5, <3>3, ClosedOk
    <3>5. QED
      BY <1>4, <2>2, <3>4
  <2>3. QED
    BY <2>1, <2>2
<1>11. QED
  BY <1>3, <1>8, <1>10 DEF PastOk, Captured, CMG!Allow

LEMMA PastStep ==
  ASSUME PresentInv, ChainInv, PastInv, ChainInv', CMG!Next \/ UNCHANGED CMG!vars
  PROVE  PastInv'
<1>1. ASSUME NEW x \in Key, NEW c \in ChainWeights, CMG!UpdateSameTs(x, c)
      PROVE  PastInv'
  <2>1. /\ closed' = closed /\ tot + c <= ChainMaxTotal
        /\ CMG!Count(CMG!Now, x, c) /\ useNew' = useNew
    BY <1>1 DEF CMG!UpdateSameTs, CMG!Count
  <2>2. PICK z : Counted(z) /\ z.chkpts = CMG!Now.chkpts
    BY <2>1, CountOk DEF PresentInv
  <2>3. chkpts' = chkpts
    BY <2>2 DEF Counted, CMG!Now
  <2>4. QED
    BY <2>1, <2>3, PastKept
<1>2. ASSUME NEW x \in Key, NEW c \in ChainWeights, CMG!UpdateNextTs(x, c)
      PROVE  PastInv'
  <2>1. PICK now : /\ Settled(now) /\ CMG!Count(now, x, c) /\ tot + c <= ChainMaxTotal
                   /\ Extends(now.chkpts)
    <3>1. CASE useNew
      <4>1. PICK phantom : CMG!Count(CMG!CloseNew(phantom), x, c) /\ tot + c <= ChainMaxTotal
        BY <1>2, <3>1 DEF CMG!UpdateNextTs
      <4>2. PICK now : now = CMG!CloseNew(phantom)
        OBVIOUS
      <4>3. Settled(now) /\ Extends(now.chkpts)
        BY <3>1, <4>2, CloseNewSettles, CloseExtends DEF PresentInv
      <4>4. QED
        BY <4>1, <4>2, <4>3
    <3>2. CASE ~useNew
      <4>1. CMG!Count(CMG!CloseOld, x, c) /\ tot + c <= ChainMaxTotal
        BY <1>2, <3>2 DEF CMG!UpdateNextTs
      <4>2. PICK now : now = CMG!CloseOld
        OBVIOUS
      <4>3. Settled(now) /\ Extends(now.chkpts)
        BY <3>2, <4>2, CloseOldSettles, CloseExtends DEF PresentInv
      <4>4. QED
        BY <4>1, <4>2, <4>3
    <3>3. QED
      BY <3>1, <3>2
  <2>2. /\ lastTs > 0 /\ useNew' = useNew
        /\ closed' = Append(closed, [exact |-> exact, mg |-> CMG!CntPrime(sk), tot |-> tot])
    BY <1>2, <2>1 DEF CMG!UpdateNextTs, CMG!Count
  <2>3. PICK z : Counted(z) /\ z.chkpts = now.chkpts
    BY <2>1, CountOk DEF PresentInv, Settled
  <2>4. chkpts' = now.chkpts
    BY <2>3 DEF Counted
  <2>5. SketchOk(sk, tot, exact)
    BY DEF PresentInv, NowOk, CMG!Now
  <2>6. QED
    BY <2>1, <2>2, <2>4, <2>5, PastGrows
<1>3. ASSUME CMG!Clear
      PROVE  PastInv'
  <2>1. closed' = <<>>
    BY <1>3 DEF CMG!Clear
  <2>2. 1 .. Len(closed') = {}
    BY <2>1
  <2>3. QED
    BY <2>2 DEF PastInv
<1>4. ASSUME UNCHANGED CMG!vars
      PROVE  PastInv'
  BY <1>4, PastKept DEF CMG!vars
<1>5. QED
  BY <1>1, <1>2, <1>3, <1>4 DEF CMG!Next
-----------------------------------------------------------------------------
(* What the invariant says of the answers *)

\* The invariant of the sketch, its records and its answers; it says nothing
\* of the other classes.
RecordsInv == class = "CMG" => ChainInv /\ PresentInv /\ PastInv

LEMMA RecordsInitial == Init => RecordsInv
<1>1. SUFFICES ASSUME Init, class = "CMG" PROVE ChainInv /\ PresentInv /\ PastInv
  BY DEF RecordsInv
<1>2. CMG!Init
  BY <1>1 DEF Init
<1>3. closed = <<>> /\ 1 .. Len(closed) = {}
  BY <1>2 DEF CMG!Init
<1>4. QED
  BY <1>2, <1>3, InitChain, PresentInitial DEF PastInv

LEMMA RecordsStep == RecordsInv /\ [Next]_vars => RecordsInv'
<1>1. SUFFICES ASSUME RecordsInv, [Next]_vars, class' = "CMG"
               PROVE  ChainInv' /\ PresentInv' /\ PastInv'
  BY DEF RecordsInv
<1>2. class = "CMG" /\ (CMG!Next \/ UNCHANGED CMG!vars)
  BY <1>1 DEF Next, vars, shared, ofCMG, CMG!vars
<1>3. ChainInv /\ PresentInv /\ PastInv
  BY <1>1, <1>2 DEF RecordsInv
<1>4. ChainInv'
  BY <1>2, <1>3, ChainStep DEF CMG!vars
<1>5. PresentInv'
  BY <1>2, <1>3, PresentStep
<1>6. PastInv'
  BY <1>2, <1>3, <1>4, PastStep
<1>7. QED
  BY <1>4, <1>5, <1>6

LEMMA TracksFollows == RecordsInv => PastTracksSketch
<1>1. SUFFICES ASSUME PastInv PROVE CMG!PastTracksSketch
  BY DEF RecordsInv, PastTracksSketch
<1>2. SUFFICES ASSUME NEW ts \in 1 .. Len(closed), NEW x \in Key
               PROVE  LET r == CMG!RecordAt(ts, x)
                      IN /\ closed[ts].mg[x] <= r.cnt + CMG!Allow(r.tot)
                         /\ ~useNew => r.cnt <= closed[ts].mg[x] + CMG!Allow(r.tot)
  BY DEF CMG!PastTracksSketch, CMG!Closed
<1>3. QED
  BY <1>1 DEF PastInv, PastOk, Captured

LEMMA InSyncFollows == RecordsInv => CountersInSync
<1>1. SUFFICES ASSUME PresentInv, useNew
               PROVE  /\ CMG!ToSet(ctr.heap1) = CMG!InTable(sk.cnt)
                      /\ CMG!ToSet(ctr.heap2) = CMG!InTable(sk.cnt)
                      /\ \A x \in CMG!InTable(sk.cnt) :
                           LET base == IF snap[x].in THEN snap[x]
                                       ELSE [cnt |-> 0, tot |-> CMG!TotAtLastChkpt]
                           IN /\ ctr.c1[x] = sk.cnt[x] + ctr.sub - base.cnt - CMG!Allow(base.tot)
                              /\ ctr.c2[x] = sk.cnt[x] + ctr.sub - base.cnt + CMG!Allow(base.tot)
                      /\ CMG!IsHeap(ctr.heap1, CMG!Negated(ctr.c1))
  BY DEF RecordsInv, CountersInSync, CMG!CountersInSync
<1>2. PICK w, T : w = LastTotal(chkpts) /\ T = CMG!InTable(sk.cnt)
  OBVIOUS
<1>3. CtrOk(sk, snap, w, ctr)
  BY <1>1, <1>2 DEF PresentInv, NowOk, CMG!Now
<1>4. CMG!TotAtLastChkpt = w
  BY <1>2 DEF CMG!TotAtLastChkpt, LastTotal
<1>5. HeapOf(ctr.heap1, T) /\ HeapOf(ctr.heap2, T) /\ IsHeap(ctr.heap1, CMG!Negated(ctr.c1))
  BY <1>2, <1>3 DEF CtrOk, Heaped
<1>6. ASSUME NEW h, HeapOf(h, T)
      PROVE  CMG!ToSet(h) = T
  <2>1. h \in Seq(Key) /\ Items(h) = T
    BY <1>6 DEF HeapOf
  <2>2. PICK n \in Nat : n = Len(h) /\ DOMAIN h = 1 .. n
    BY <2>1
  <2>3. QED
    BY <2>1, <2>2 DEF Items, CMG!ToSet
<1>7. \A x \in T : InSync(sk, snap, w, ctr, x)
  BY <1>2, <1>3 DEF CtrOk
<1>8. CMG!IsHeap(ctr.heap1, CMG!Negated(ctr.c1))
  BY <1>5, SameHeap
<1>9. QED
  BY <1>2, <1>4, <1>5, <1>6, <1>7, <1>8 DEF InSync, BaseOf

\* The table holds at most k - 1 keys, and so do the records, because the end
\* of a timestamp drops those of the keys that left.
LEMMA SufficeFollows == UnitWeights => (RecordsInv => CountersSuffice)
<1>1. SUFFICES ASSUME UnitWeights, PresentInv PROVE CMG!CountersSuffice
  BY DEF RecordsInv, CountersSuffice
<1>2. PICK T, S : T = CMG!InTable(sk.cnt) /\ S = Snapped(snap)
  OBVIOUS
<1>3. T \in SUBSET Key /\ S \in SUBSET Key
  BY <1>2, TableIs DEF Snapped
<1>4. Cardinality(T) <= K - 1 /\ Cardinality(S) <= K - 1
  BY <1>1, <1>2 DEF PresentInv, NowOk, CMG!Now, SketchOk, SnapOk
<1>5. IsFiniteSet(T) /\ IsFiniteSet(S) /\ Cardinality(T) \in Nat /\ Cardinality(S) \in Nat
  BY <1>3, ChainConstants, FS_Subset, FS_CardinalityType
<1>6. K \in Nat /\ K >= 2
  BY ChainConstants
<1>7. CASE useNew
  <2>1. CtrOk(sk, snap, LastTotal(chkpts), ctr)
    BY <1>1, <1>7 DEF PresentInv, NowOk, CMG!Now
  <2>2. HeapOf(ctr.heap1, T) /\ ctr.gone \cap T = {} /\ ctr.gone \subseteq S
    BY <1>2, <2>1 DEF CtrOk, Heaped
  <2>3. ctr.heap1 \in Seq(Key) /\ NoRepeat(ctr.heap1) /\ Items(ctr.heap1) = T
    BY <2>2 DEF HeapOf
  <2>4. Len(ctr.heap1) = Cardinality(T)
    BY <2>3, HeapSize
  <2>5. /\ IsFiniteSet(ctr.gone) /\ Cardinality(ctr.gone) <= Cardinality(S)
        /\ Cardinality(ctr.gone) \in Nat
    BY <1>5, <2>2, FS_Subset, FS_CardinalityType
  <2>6. CMG!Cardinality(ctr.gone) = Cardinality(ctr.gone)
    BY SameSize
  <2>7. Len(ctr.heap1) + CMG!Cardinality(ctr.gone) <= 2 * (K - 1)
    BY <1>4, <1>5, <1>6, <2>4, <2>5, <2>6
  <2>8. CMG!ToSet(ctr.heap1) = T
    <3>1. PICK n \in Nat : n = Len(ctr.heap1) /\ DOMAIN ctr.heap1 = 1 .. n
      BY <2>3
    <3>2. QED
      BY <2>3, <3>1 DEF Items, CMG!ToSet
  <2>9. QED
    BY <2>2, <2>7, <2>8 DEF CMG!CountersSuffice
<1>8. CASE ~useNew
  <2>1. ctr = CMG!EmptyCtr
    BY <1>1, <1>8 DEF PresentInv, NowOk, CMG!Now
  <2>2. ctr.heap1 = <<>> /\ ctr.gone = {}
    BY <2>1 DEF CMG!EmptyCtr
  <2>3. CMG!Cardinality(ctr.gone) = 0
    BY <2>2, SameSize, FS_EmptySet
  <2>4. QED
    BY <1>6, <2>2, <2>3 DEF CMG!CountersSuffice
<1>9. QED
  BY <1>7, <1>8

\* An answer that leaves out a drift of a record that is itself short by one.
LEMMA ShortBy ==
  ASSUME NEW n \in Nat, NEW m \in Nat, NEW v \in Nat, NEW a \in Nat, NEW b \in Nat, NEW t \in Nat,
         NEW ans, ans = IF v > a THEN v - a ELSE 0,
         a <= b, v <= n, m <= v + a, K * (n - m) <= t
  PROVE  n - ans >= 0 /\ K * ((n - ans) - 2 * b) <= t
<1>1. ans \in Nat /\ ans <= n
  OBVIOUS
<1>2. K \in Nat
  BY ChainConstants
<1>3. PICK i \in Int, j \in Int : i = (n - ans) - 2 * b /\ j = n - m
  BY <1>1
<1>4. i <= j
  BY <1>1, <1>3
<1>5. K * i <= K * j
  <2>1. PICK e \in Nat : e = j - i
    BY <1>3, <1>4
  <2>2. K * j = K * i + K * e
    <3>1. j = i + e
      BY <1>3, <2>1
    <3>2. QED
      BY <1>2, <1>3, <2>1, <3>1
  <2>3. K * e \in Nat /\ K * i \in Int
    BY <1>2, <1>3, <2>1
  <2>4. QED
    BY <2>2, <2>3
<1>6. K * i \in Int /\ K * j \in Int
  BY <1>2, <1>3
<1>7. K * i <= t
  BY <1>3, <1>5, <1>6
<1>8. QED
  BY <1>1, <1>3, <1>7

LEMMA WithinFollows ==
  UnitWeights => (RecordsInv => (class = "CMG" => CMG!PastWithinEps))
<1>1. SUFFICES ASSUME UnitWeights, PastInv, NEW ts \in 1 .. Len(closed), NEW x \in Key
               PROVE  LET short == closed[ts].exact[x] - CMG!TmpCnt(ts, x)
                      IN short >= 0 /\ K * (short - 2 * CMG!Allow(closed[ts].tot)) <= closed[ts].tot
  BY DEF RecordsInv, CMG!PastWithinEps, CMG!Closed
<1>2. PICK r, e : r = CMG!RecordAt(ts, x) /\ e = closed[ts]
  OBVIOUS
<1>3. PastOk(r, e, x)
  BY <1>1, <1>2 DEF PastInv
<1>4. PICK n, m, v, a, b, t, ans :
        /\ n = e.exact[x] /\ m = e.mg[x] /\ v = r.cnt /\ a = CMG!Allow(r.tot)
        /\ b = CMG!Allow(e.tot) /\ t = e.tot /\ ans = CMG!TmpCnt(ts, x)
  OBVIOUS
<1>5. /\ n \in Nat /\ m \in Nat /\ v \in Nat /\ t \in Nat /\ r.tot \in Nat
      /\ r.tot <= t /\ v <= n /\ m <= v + a /\ K * (n - m) <= t
  BY <1>1, <1>3, <1>4 DEF PastOk, Captured
<1>6. a \in Nat /\ b \in Nat /\ a <= b
  BY <1>4, <1>5, AllowIs
<1>7. ans = IF v > a THEN v - a ELSE 0
  BY <1>2, <1>4 DEF CMG!TmpCnt
<1>8. n - ans >= 0 /\ K * ((n - ans) - 2 * b) <= t
  BY <1>5, <1>6, <1>7, ShortBy
<1>9. QED
  BY <1>2, <1>4, <1>8
-----------------------------------------------------------------------------
(* The theorems *)

\* The checkpoints and delta nodes of ChainMisraGries are those of finished
\* timestamps, from the very first one on, and a sketch that finished a
\* timestamp has a checkpoint for it.
THEOREM HistoryInvariance == Spec => []HistoryInv
BY HistoryInitial, HistoryStep, PTL DEF Spec

\* The record of a counter that a finished timestamp is answered from stays
\* the same ever after, until a clear: the end of a later timestamp appends to
\* the chain, and no query of an earlier one ever reads what it appends.
THEOREM RecordsStay == Spec => PastRecordsFixed
<1> DEFINE Fixed ==
      class = "CMG" /\ lastTs' >= lastTs /\ chkpts # <<>> /\ chkpts' # chkpts =>
        \A ts \in CMG!Closed, x \in Key : CMG!RecordAt(ts, x)' = CMG!RecordAt(ts, x)
<1>1. HistoryInv /\ [Next]_vars => [Fixed]_vars
  <2> SUFFICES ASSUME HistoryInv, Next, class = "CMG", lastTs' >= lastTs,
                      chkpts # <<>>, chkpts' # chkpts,
                      NEW ts \in CMG!Closed, NEW x \in Key
               PROVE  CMG!RecordAt(ts, x)' = CMG!RecordAt(ts, x)
    OBVIOUS
  <2>1. ChainInv /\ CMG!Next
    BY DEF HistoryInv, Next
  <2>2. ts \in 1 .. Len(closed) /\ lastTs \in Nat /\ lastTs > 0
    BY <2>1 DEF CMG!Closed, ChainInv, Listed
  <2>3. CASE Extends(chkpts')
    <3>1. PICK new : new = chkpts'
      OBVIOUS
    <3>2. Continues(new)
      BY <2>1, <2>3, <3>1, ExtendsContinues
    <3> QED BY <2>1, <2>2, <3>1, <3>2, RecordKept, RecordIsRead
  <2> QED BY <2>1, <2>2, <2>3, StepKinds DEF Within, Closes, Clears
<1> HIDE DEF Fixed
<1>2. Spec => [][Fixed]_vars
  BY <1>1, HistoryInvariance, PTL DEF Spec
<1> QED BY <1>2 DEF PastRecordsFixed, Fixed

\* An update that ends a timestamp leaves, of every counter, a record within
\* eps/3 of the weight at that record of what the sketch holds; and every
\* later query of that timestamp finds just this record.
THEOREM RecordsTrackSketch == Spec => []PastTracksSketch
BY RecordsInitial, RecordsStep, TracksFollows, PTL DEF Spec

\* c1 and c2 of update_new are what the comment on struct Counter says, both
\* heaps hold just the counters of the table, and the max heap over c1 is in
\* order, through the lazy subtractions, the two loops over the heap tops,
\* dropped and returning counters, and checkpoints.  Of the order of the min
\* heap over c2 nothing is said: the update does not keep it.
THEOREM CountersStayInSync == Spec => []CountersInSync
BY RecordsInitial, RecordsStep, InSyncFollows, PTL DEF Spec

\* With the weight 1 that the driver passes, the 2 * (k - 1) counters that are
\* preallocated are enough: neither the table nor the records that wait for
\* the end of a timestamp ever hold more than k - 1 keys.
THEOREM CountersAreEnough ==
  ASSUME ChainWeights \subseteq {1}
  PROVE  Spec => []CountersSuffice
<1>1. UnitWeights
  BY DEF UnitWeights
<1>2. RecordsInv => CountersSuffice
  BY <1>1, SufficeFollows
<1>3. QED
  BY <1>2, RecordsInitial, RecordsStep, PTL DEF Spec

\* The first half of PastWithinEps.  With the weight 1, an answer about a
\* finished timestamp is never above the true count at its end, and below it
\* by at most the sketch's own error and twice the drift that goes unrecorded.
THEOREM ChainAnswersWithinEps ==
  ASSUME ChainWeights \subseteq {1}
  PROVE  Spec => [](class = "CMG" => CMG!PastWithinEps)
<1>1. UnitWeights
  BY DEF UnitWeights
<1>2. RecordsInv => (class = "CMG" => CMG!PastWithinEps)
  BY <1>1, WithinFollows
<1>3. QED
  BY <1>2, RecordsInitial, RecordsStep, PTL DEF Spec

=============================================================================
