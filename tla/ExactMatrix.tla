---------------------------- MODULE ExactMatrix ----------------------------
(***************************************************************************)
(* ExactMatrix of exact_query.cpp and the exact norm of query.cpp, which   *)
(* the driver feeds with the rows every other matrix sketch gets.          *)
(*                                                                         *)
(* A row is a multiple of a unit vector: its axis and its squared norm.    *)
(* Covariance matrices of such rows are diagonal, squares are all that     *)
(* enters them, and integers are exact.                                    *)
(***************************************************************************)
EXTENDS TsCounts

CONSTANTS
  Axis,      \* 1 .. m_n
  RowsAt,    \* bound on streams: the rows tried as the n-th of a stream
  MaxTs      \* bound on timestamps

VARIABLES
  exact_last_ts,  \* m_last_ts
  cur_matrix,     \* m_cur_matrix
  matrices,       \* m_matrices
  fnorm_sqr,      \* m_exact_fnorm_sqr_vec of QueryMatrixSketchImpl
  stream,         \* history: the rows since the last clear()
  astray          \* history: fnorm_sqr also counts other rows

exactVars == <<exact_last_ts, cur_matrix, matrices, fnorm_sqr, stream, astray>>

Row == IF Len(stream) < Len(RowsAt) THEN RowsAt[Len(stream) + 1] ELSE {}
Zero == [a \in Axis |-> 0]
Newest == IF stream = <<>> THEN 0 ELSE Last(stream).ts

\* cblas_dspr with alpha 1: the outer product of the row is added.
Dspr(m, row) == [m EXCEPT ![row.axis] = @ + row.norm]
Trace(m) == SumFunctionOnSet(m, Axis)

\* What the lines of a matrix add up to, one after the other.
Summed(rows) ==
  LET m[n \in 0 .. Len(rows)] == IF n = 0 THEN Zero ELSE Dspr(m[n - 1], rows[n])
  IN m[Len(rows)]

InitExact ==
  /\ exact_last_ts = 0 /\ cur_matrix = Zero /\ matrices = <<>>
  /\ fnorm_sqr = << <<0, 0>> >>
  /\ stream = <<>> /\ astray = FALSE

\* Variant: filed under the timestamp that begins.
FiledUnderNew(ts) ==
  IF exact_last_ts # 0 /\ ts # exact_last_ts THEN Append(matrices, <<ts, cur_matrix>>)
  ELSE matrices

\* The first row of a timestamp files the matrix of the one before.
Filed(ts) ==
  IF exact_last_ts # 0 /\ ts # exact_last_ts
  THEN Append(matrices, <<exact_last_ts, cur_matrix>>) ELSE matrices

\* parse_update_arg: the elements read so far are worth norm.
Counted(ts, norm) ==
  LET last == Last(fnorm_sqr)
  IN IF last[1] = ts THEN [fnorm_sqr EXCEPT ![Len(fnorm_sqr)] = <<ts, last[2] + norm>>]
     ELSE Append(fnorm_sqr, <<ts, last[2] + norm>>)

\* A line of the input; item is the row with what the history keeps of it.
Feed(ts, row, item) ==
  /\ ts >= Newest /\ ts >= Last(fnorm_sqr)[1] /\ ts > 0
  /\ fnorm_sqr' = Counted(ts, row.norm)
  /\ matrices' = Filed(ts)
  /\ cur_matrix' = Dspr(cur_matrix, row)
  /\ exact_last_ts' = ts
  /\ stream' = Append(stream, item)
  /\ UNCHANGED astray

\* A line that cannot be read to its end: it is skipped, but the elements
\* before the fault have been counted.
MalformedLine(ts, norm) ==
  /\ ts >= Last(fnorm_sqr)[1] /\ ts > 0
  /\ ~astray
  /\ fnorm_sqr' = Counted(ts, norm)
  /\ astray' = (norm # 0)
  /\ UNCHANGED <<exact_last_ts, cur_matrix, matrices, stream>>

\* clear(), before another run of the driver, which counts anew.
ClearExact ==
  /\ exact_last_ts' = 0 /\ cur_matrix' = Zero /\ matrices' = <<>>
  /\ fnorm_sqr' = << <<0, 0>> >>
  /\ stream' = <<>> /\ astray' = FALSE

NextExact ==
  \/ \E ts \in 1 .. MaxTs, row \in Row :
       Feed(ts, row, [ts |-> ts, axis |-> row.axis, norm |-> row.norm])
  \/ \E ts \in 1 .. MaxTs, row \in Row : \E norm \in {0, row.norm} : MalformedLine(ts, norm)
  \/ ClearExact

\* get_covariance_matrix
ExactAt(ts) ==
  LET i == LastAt(matrices, ts, LAMBDA e : e[1])
  IN IF ts >= exact_last_ts THEN cur_matrix ELSE IF i = 0 THEN Zero ELSE matrices[i][2]

\* get_exact_fnorm_sqr
ExactFnormSqr(ts) == fnorm_sqr[LastAt(fnorm_sqr, ts, LAMBDA e : e[1])][2]

-----------------------------------------------------------------------------
(* Properties                                                              *)

\* The rows of the stream up to ts, added up.
SummedUpTo(ts) ==
  LET m[n \in 0 .. Len(stream)] ==
        IF n = 0 THEN Zero
        ELSE IF stream[n].ts <= ts THEN Dspr(m[n - 1], stream[n]) ELSE m[n - 1]
  IN m[Len(stream)]

\* BaselinesAgree: as of every timestamp the exact matrix is the sum of the
\* rows up to it, and its trace is the norm the driver counted on its own,
\* unless that met a malformed line.
BaselinesAgree ==
  \A ts \in 1 .. MaxTs :
    /\ ExactAt(ts) = SummedUpTo(ts)
    /\ ~astray => ExactFnormSqr(ts) = Trace(ExactAt(ts))
=============================================================================
