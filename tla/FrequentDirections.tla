------------------------- MODULE FrequentDirections -------------------------
(***************************************************************************)
(* FD_ATTP of fd.cpp: a Frequent Directions sketch C of the rows not yet   *)
(* in a checkpoint, partial checkpoints of single rows, and full ones that *)
(* are sketches.  With rows along the axes the singular value              *)
(* decomposition only sorts the axes by their squared length.              *)
(***************************************************************************)
EXTENDS ExactMatrix

CONSTANTS
  HalfSizes,   \* the values of PFD.half_sketch_size tried
  RowsAgain    \* bound on the rows after a clear()

VARIABLES
  l,             \* l
  AF2,           \* squared norm of all rows
  nxt_target,    \* nxt_target
  C,             \* C: the lines of B up to first_zero_line
  partial_ckpt,  \* partial_ckpt
  full_ckpt,     \* full_ckpt
  reused,        \* history: clear() was called on a sketch with rows
  aborted        \* pop_first was called on an empty sketch

vars == <<exactVars, l, AF2, nxt_target, C, partial_ckpt, full_ckpt, reused, aborted>>

Init ==
  /\ InitExact
  /\ l \in HalfSizes
  /\ AF2 = 0 /\ nxt_target = 0
  /\ C = <<>> /\ partial_ckpt = <<>> /\ full_ckpt = <<>>
  /\ reused = FALSE /\ aborted = FALSE

-----------------------------------------------------------------------------
(* FD                                                                      *)

\* to_covariance_matrix
Covariance(B) == Summed(B)

\* The square of the first singular value.
TopOf(B) == LET m == Covariance(B) IN Max({m[a] : a \in Axis})

\* The axes by their squared lengths m, the longest first.
Longest(m) ==
  CHOOSE s \in [1 .. Cardinality(Axis) -> Axis] :
    \A i, j \in 1 .. Cardinality(Axis) :
      i < j => m[s[i]] > m[s[j]] \/ (m[s[i]] = m[s[j]] /\ s[i] < s[j])

\* The rows left when 2l lines are full: the l - 1 longest directions, each
\* shortened by the l-th, up to the first that vanishes.
Compressed(B) ==
  LET m == Covariance(B)
      axes == Longest(m)
      epsilon == m[axes[l]]
      first_zero_line == Min({i \in 1 .. l - 1 : m[axes[i]] = epsilon} \cup {l})
  IN [i \in 1 .. first_zero_line - 1 |-> [axis |-> axes[i], norm |-> m[axes[i]] - epsilon]]

\* FD::update
FDUpdate(B, row) == Append(IF Len(B) = 2 * l THEN Compressed(B) ELSE B, row)

-----------------------------------------------------------------------------
(* FD_ATTP                                                                 *)

LastFull(ck) == IF ck.full = <<>> THEN [fd |-> <<>>, next |-> 0] ELSE Last(ck.full)

\* The last full checkpoint with the partial ones since and the row.
FullFrom(ck, cnt, row) ==
  FDUpdate(FoldLeft(FDUpdate, LastFull(ck).fd, SubSeq(ck.partial, Len(ck.partial) - cnt + 1,
                                                  Len(ck.partial))), row)

\* B after pop_first took k rows off it.
Popped(B, k) == SubSeq(B, k + 1, Len(B))

\* Variant: the partial checkpoints the sketch took in still follow it.
NextOfLast(ck) == LastFull(ck).next

\* next_partial_ckpt of a new full checkpoint.
NextPartial(ck) == Len(ck.partial)

\* A popped row becomes a partial checkpoint, or every l-th a full one.
Checkpointed(ck, row, ts) ==
  LET cnt == Len(ck.partial) - LastFull(ck).next
  IN IF cnt + 1 >= l
     THEN [ck EXCEPT !.full = Append(@, [ts |-> ts, fd |-> FullFrom(ck, cnt, row),
                                         next |-> NextPartial(ck)])]
     ELSE [ck EXCEPT !.partial = Append(@, row @@ [ts |-> ts])]

\* Variant: the remaining direction is not counted.
TargetOfNorm(af2, top) == af2

\* The squared norm up to which no direction of C can have grown too long.
Target(af2, top) == af2 - top

\* The numbers of rows after which the loop of update finds the first
\* singular value of what is left of B short enough.
Pops(B, af2) == {k \in 0 .. Len(B) : TopOf(Popped(B, k)) * l < af2}

Update(ts, row) ==
  LET B == FDUpdate(C, row)
      af2 == AF2 + row.norm
      pops == Min(Pops(B, af2))
      rest == Popped(B, pops)
      ck == FoldLeft(LAMBDA acc, r : Checkpointed(acc, r, ts),
                     [partial |-> partial_ckpt, full |-> full_ckpt], SubSeq(B, 1, pops))
  IN /\ ~aborted
     /\ reused => Len(stream) < RowsAgain
     /\ AF2' = af2
     /\ IF af2 * (l - 1) < nxt_target * l
        THEN C' = B /\ UNCHANGED <<nxt_target, partial_ckpt, full_ckpt, aborted>>
        ELSE IF Pops(B, af2) = {}
        THEN aborted' = TRUE /\ UNCHANGED <<nxt_target, C, partial_ckpt, full_ckpt>>
        ELSE /\ C' = rest
             /\ nxt_target' = Target(af2, TopOf(rest))
             /\ partial_ckpt' = ck.partial /\ full_ckpt' = ck.full
             /\ UNCHANGED aborted
     /\ Feed(ts, row, [ts |-> ts, axis |-> row.axis, norm |-> row.norm])
     /\ UNCHANGED <<l, reused>>

\* clear() leaves nxt_target alone.
Clear ==
  /\ ~aborted
  /\ AF2' = 0
  /\ C' = <<>> /\ partial_ckpt' = <<>> /\ full_ckpt' = <<>>
  /\ ClearExact
  /\ reused' = (reused \/ stream # <<>>)
  /\ UNCHANGED <<l, nxt_target, aborted>>

Next ==
  \/ \E ts \in 1 .. MaxTs, row \in Row : Update(ts, row)
  \/ Clear

Spec == Init /\ [][Next]_vars

\* get_covariance_matrix: the last full checkpoint not after ts, with the
\* partial ones that follow it up to ts.
AnswerAt(ts) ==
  LET i == LastAt(full_ckpt, ts, LAMBDA e : e.ts)
      start == IF i = 0 THEN [fd |-> <<>>, next |-> 0] ELSE full_ckpt[i]
      since == SubSeq(partial_ckpt, start.next + 1, Len(partial_ckpt))
  IN Covariance(FoldLeft(FDUpdate, start.fd, SelectSeq(since, LAMBDA p : p.ts <= ts)))

-----------------------------------------------------------------------------
(* Properties                                                              *)

\* ShareKept: after every update of a sketch that was not cleared, no
\* direction of the rows outside the checkpoints has a squared length of
\* AF2 / l, though most updates return without looking; and the loop only runs
\* out of rows, against the assertion of pop_first, while all rows are zero.
ShareKept ==
  /\ aborted => AF2 = 0
  /\ ~reused /\ ~aborted /\ stream # <<>> => TopOf(C) * l < AF2

\* CovarianceWithin: the answer about any timestamp is never above the exact
\* matrix and below it in every direction by less than 2 AF2 / l, one share
\* for what the sketches cut off and one for what no checkpoint holds.
CovarianceWithin ==
  ~reused /\ ~aborted =>
    \A ts \in 1 .. Newest, a \in Axis :
      LET exact == ExactAt(ts)[a]
          answer == AnswerAt(ts)[a]
      IN answer = exact \/ (answer < exact /\ (exact - answer) * l < 2 * Trace(ExactAt(ts)))
=============================================================================
