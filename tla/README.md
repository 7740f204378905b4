# A verification project for the persistent sketches of ATTPCode

The program summarises a stream of timestamped items so that questions about
its past can be answered: *at the time* (ATTP, everything up to `ts_e`) or *back
in time* (BITP, everything after `ts_s`). A driver reads a text file line by
line; a data line updates every configured sketch, a line starting with `?` asks
all of them a question. The sketches are sequential objects; the only
concurrency is the driver's progress bar thread.

What is hard here is not interleaving but *history*: a sketch is correct only
if its lazily maintained, compressed state stays coherent over every sequence
of legal calls, and an answer about an old timestamp is right only if nothing
that happened since has disturbed it. That is what the specifications check.

Files: `*.tla` modules, `MC*.tla` constants of the checked instances, `*.cfg`
one configuration per run, `*Proofs.tla` TLAPS proofs, `PROJECT.json` the map
from every definition to the source lines it stands for, the runs, the
variants that show each property can fail, findings and hazards.

## Inventory

| Component | Source | State | Operations | Hard because | Correct when | Status |
|---|---|---|---|---|---|---|
| Misra-Gries sketch (also `DummyPersistentMisraGries`) | `misra_gries.*`, `dummy_persistent_misra_gries.h` | counters, lazy minimum, pending delta | update, merge, clone, clear, report | the minimum is a stale lower bound; two subtraction passes; merges tighten one object and loosen another | never above the truth, short by at most N/k, table fits | modelled, proved |
| Chain Misra-Gries, CMG | `pmmg.*` | running sketch, checkpoints, delta chains, counters in two heaps | update (two implementations), rebuild counters at `ts` | counters are stored as differences against a moving subtraction amount; deleted keys linger | past answers within eps, never changed | modelled |
| Array heaps | `min_heap.h` | array, with or without inverted index | push up/down, make, mark updated, remove | repaired in place while keys change | heap order, index right | modelled |
| Tree Misra-Gries, TMG | `pmmg.*` | forest of merged sketches, level, quota | update, merge into the forest, query walk | binary-counter carries from a rising start level | chronological forest, answers within their bound | modelled |
| TMG back in time, TMG_BITP | `pmmg.*` | forest with pruned left ends, per-level lists, cached sketch, size | update, prune, query, clear | nodes freed through lists that are only half maintained; a cache | lists and trees agree, answers about suffixes within their bound | modelled |
| Query driver | `query.*` | file position, byte and data counters, bar status | run, pause, continue, stop, set-up | a second thread without locks | exclusive terminal, coherent reports, termination | partly: run, the bar (proved), creation of sketches, the exact norm; not: argument parsing, error statistics, output |
| Sampling sketches (ATTP, BITP) | `sampling.*` | version lists per slot, ring, weight lists, batch, totals per timestamp | update, sample and frequencies at `ts` | random replacement, lazy deletion, keys changed inside search trees | the sample kept is the right one of the prefix or suffix | partly: all but implementation 1 of BITP |
| AVL trees | `avl.h`, `avl_container.h` | balanced trees with links and aggregates | insert, remove, search, sums, clone, merge | rotations with several kinds of hooks | order, balance, aggregates, a sorted bag | partly: no move assignment, no repair of aggregates from outside |
| Norm sampling | `norm_sampling*` | version lists, heap, norms per timestamp | update, rows, threshold and norm at `ts` | off-by-one between norms and timestamps, a heap that survives clear | heaviest rows of the prefix, norm of the prefix | modelled |
| Frequent directions, PFD | `fd.*`, `lapack_wrapper.*` | sketch of the rest, partial and full checkpoints, next target | update, answer at `ts`, clear | most updates skip the decomposition; checkpoints share rows | answers within two shares | modelled for rows along the axes |
| Exact baselines | `exact_query.*` | matrices per timestamp, prefix counts | update, query | - | exact | partly: the matrix |
| Configuration | `conf.*`, `config_list.h` | entries (a variant and two flags), parser status | parse, get, list_length | lists over several lines, errors half way | what is read back is what the file said | modelled |
| Registry, command line | `sketch*`, `driver.cpp`, `util.h`, `basic_defs.h` | none after start | create a sketch | - | - | partly: creation |
| Piecewise-linear approximation | `pla.*` | segments, open cone, saved cone | feed, estimate | several values at one time undo the last step | within delta at fed points | not modelled |
| Count-Min, AMS, dyadic heavy hitters | `pcm.*`, `pams.*`, `heavyhitters.*`, `hashtable.h`, `MurmurHash3.*` | counters, one approximation each | update, estimate | inherits the approximation's error | estimates within bounds, with some probability | not modelled |
| Timers, Fenwick tree, old driver, unit drivers, data scripts, vendored tools | rest | - | - | - | - | not modelled: outside the program's logic |

The driver calls a sketch through `update(ts, key, c)` with `c = 1` and
nondecreasing `ts > 0` (`sketch.h:20-21`), and through `estimate_*`. CMG, TMG and
TMG-BITP each own Misra-Gries objects and reach inside them
(`MisraGriesAccessor`): TMG merges clones and tree nodes, CMG listens to the keys
an update drops. Configuration restricts eps to (0, 1), so CMG and TMG have
`k = ceil(3/eps) >= 4`; the ASSUMEs of the modules say exactly that.

## What is modelled

**MGSketch** holds the operators of one `MisraGries` object: `update_impl` as the
composition of its branches (`HasRoom`, `SubtractPasses`, `InsertLeftover`),
`reset_delta`, and `merge` with its cut at the (k+1)-th largest counter. The table
is a function from keys to counts, 0 meaning absent; `~0ul` is the constant
`NoMin`, larger than any weight. `ChainMisraGries` and `TreeMisraGries` use the
same operators. Definitions marked "Variant" are deliberately wrong versions of
their neighbour, used only to show that a property can fail.

**MisraGries** is a collection of objects with one action per public method.
Objects that absorbed another are not updated afterwards, as in the program (a
merged object's `m_min_cnt` is not maintained). `exact`, `total` and `err` are
history: the true counts, the weight, and the weight declined.
**FrequencySummary** is the abstract promise: an answer lies between the true
count minus an error and the true count; the error grows by at most the arriving
weight, adds up under merging and is copied by copying. `MisraGries` implements
it under `f <- exact, est <- table, err <- err`.

**MinHeap** models the index-keeping heaps of `min_heap.h`; the inverted index is
always rewritten together with the slot, so it is the operator `Position`.

**ChainMisraGries**: `UpdateSameTs` and `UpdateNextTs` are `update`, the second one
first closing the old timestamp (`CloseOld`, `CloseNew`). Both implementations are
in one module, chosen once by `useNew` as by `m_use_update_new`, so that the same
properties are asked of both. An update passes a record `Now` from the close to
the count as the code's object state. The delta nodes of one timestamp form one
batch, because no reader can observe their order. With no counter left, `update_new`
reads slot 0 of an empty vector; what is there is the pointer removed last, and
`Phantoms` is the choice this leaves. `TmpCnt` is what `create_tmp_cnt_at` rebuilds.

**TreeMisraGries**: `MergeCurSketch` is `merge_cur_sketch` with split, carry, quota and
target; `AnswerAt` is the walk of `estimate_heavy_hitters`. Where `nth_element` could
pick among equal counters the cut has the same value, so a CHOOSE is no choice.
A timestamp's value only matters by order, hence they are consecutive.

**TreeMisraGriesBITP** is the third class: the forest of TMG whose oldest nodes are
dropped as new ones arrive. Nodes are named by level and first timestamp; `row` is
the circular list of a level, through which `Pruned` frees nodes, and `nodes` what is
allocated. `Query` builds the merged sketch of a suffix and caches it; `DropTmp` is
when an update drops it. `clear` is modelled with its slip in the remaining quota.

**PersistentMisraGries** composes the three classes as the driver holds them: one
sketch of any class fed one stream, fields of the same name being one variable.
Its properties are those of the classes.

**AVL** is `avl.h`: a tree is a record of the links, height differences and the two
kinds of aggregates the code stores in nodes, and an operation is an operator from
tree to tree. `RotateOnce` and `RotateTwice` are the four rotations of the source with
the side as a parameter; `Grown` and `Shrunk` are the two rebalancing loops.
**AVLSearch** has the read-only operations, **AVLContainer** the container of
`avl_container.h` with one action per modifying method. **SortedBag** is what it
promises: the elements in order of their keys, equal keys in order of insertion. The
container implements it with the in-order walk as refinement mapping.

**TsCounts, SamplingSketch, SamplingBITP**: the reservoir sample of SAMPLING with the
versions of its slots, and SAMPLING_BITP with its first (ring, minimum-weight lists)
and its last implementation (batch, compacted at a target). A random number is a
nondeterministic choice, a weight a rank. `List::reset` leaves pointers to freed arrays: `freed` are the slots
in that state, `aborted` the end that freeing them twice is.

**ExactMatrix, NormSampling, NormSamplingWR, FrequentDirections**: rows are multiples
of unit vectors, so that covariance matrices are diagonal, all quantities are
integers, and the singular value decomposition of PFD sorts the axes. The exact
matrix and the driver's own norm are fed with every row, as the driver does, and
serve as the reference. In PFD `reused` is history: `clear` keeps `nxt_target`.

**SamplesAndMatrices** composes the sampling and matrix sketches as
PersistentMisraGries does the others.

**Config**: the parser as one state machine over tokens, whose status survives the
end of a line inside a list, the entries with their variant, and the part of `setup`
that creates CMG sketches from them. The types of `std::variant` are kept, so that a
wrong alternative throws. A quoted value with an escaped quote is a loop without
progress (`SPINNING`); no checked line has one.

**QueryDriver**: two processes with program counters `main` and `bar`. A step is one
access to shared state: each compare-and-swap, the flag, each of the two
counters loaded by a report. A line is one byte; it is data, a request or neither.
`tellg` is -1 when the last line of a file has no newline. The unlocked counters
are volatile 64-bit loads and stores; the model gives them the order an x86 build
has. Later files that fail to open are not modelled.

## Runs

| Run | Asks | Bounds |
|---|---|---|
| `mg_weighted` | estimates sound, lazy minimum safe, weight accounted, abstract summary implemented | 2 objects, 4 keys, K = 3, weights 1-2, total 8 |
| `mg_unit` | shortfall at most total/K, table fits, for the driver's weight 1 | 2 objects, 4 keys, K = 3, total 7 |
| `driver` | exclusion on the terminal, coherent reports, a last report of the whole input, refusals, termination | every input of at most 2 files of at most 2 lines, counters modulo 16 |
| `driver_assert` | (violated) the assertion in `continue_progress_bar` | same |
| `pmmg` | CMG: past answers within eps, records immutable, records track the sketch, counters in step, free list suffices; TMG: forest in order, nothing below the start level, answers within their bound; TMG_BITP: pruning meets what it assumes, lists and trees agree, answers about suffixes within their bound, size counted | K = 4, eps/3 = 3/10; CMG 7 keys, 6 arrivals, and up to 9 on the way to the limit of its counters; 5 keys for TMG, 14 arrivals, TMG_BITP 25 timestamps: free choice of keys for the first, then only a most frequent key |
| `chain_heap`, `chain_bound` | (violated) the comments on `struct Counter` and `m_tmp_cnt_map` | 4 and 5 keys |
| `avl` | balance, aggregates and links; all variants of searches and sums agree; a sorted bag implemented | 12 nodes with two equal keys and one weight 0: every sequence of operations on at most 8, every first operation on three sparsest trees of height 5 |
| `samples` | samples and frequencies of the past kept; suffix samples right and their stores exact; priority samples and thresholds; exact matrix and norm; PFD's share and error | samples of 1 to 3, up to 8 arrivals over 2 or 3 timestamps; 3 axes, PFD with l = 2 and 3 |
| `samples_interval`, `samples_norm` | (violated) the interval an answer is about | same |
| `config` | accepted files read back as written, exceptions explained, the sketches set up are those asked for, reading ends | every file of up to 4 of 15 lines over 4 entries |

Why these bounds reach the interesting cases. K - 1 counters and K + 1 keys are
the fewest with which the table fills, both subtraction passes run, and a merge
cuts. In `pmmg`, six arrivals in any order take
CMG to the second checkpoint, a deleted counter that returns, and an empty heap. Its
2(K - 1) = 6 counters are in use at once only after nine arrivals: three keys recorded
in the first timestamp are dropped in the second by a fourth, and three more take their
place: seven keys.
Two action constraints keep that within reach. `LastTwo` has `k6` and `k7` arrive for
the first time only after the other five and in this order, which loses nothing: up to
a permutation of the keys every stream is such a one. `Lean` leaves, after six
arrivals, `update_new` in its first two timestamps with at most two keys that come twice.
TMG's 13 leaves take `m_level` through its first quota of
2k and its second of k, a merge drops counters, and every query depth occurs;
TMG_BITP's 25 leaves prune level 0 and level 1. In `avl`, the sparsest trees are
those where a removal rotates at every level. In `samples`, the batch is compacted
with and without equal weights, slots are displaced twice, and PFD's sketch C fills
its 2l lines and is compressed (each confirmed by asking TLC for a counterexample to
its absence). PFD's bound of two shares says something only for l = 3; for l = 2
`CovarianceWithin` checks that an answer is never too large. In `driver`,
two lines allow two requests, and two files the change of file. `NoMin = 100` and
`Wrap = 16` exceed every value the instance reaches otherwise. Symmetry in keys
and objects is used in safety runs only (`SummarySpec` is checked as a step property).
`pmmg` and `samples` switch the deadlock check off: their streams are bounded and a
sketch without `clear` within the bound stops.

Fairness (`QueryDriver`): both threads are scheduled (weak fairness of `Main` and
`Bar`), and strong fairness of `Pause`: between two refreshes the status stays WAITING for
an interval of at least 500 ms while the main thread retries every 10 ms. Without
it, an adversarial schedule could retry only during refreshes. `Config` has weak
fairness of its one process: the program runs. The other modules have no liveness:
they are sequential objects whose operations are single steps.

The default build is `-O2 -DNDEBUG`: assertions are off. Those that matter are
invariants here (`LazyMinSound`, `TypeOK`) or findings. One is an action: a list that
an error left unfinished fails `conf.cpp:770` when the next list for its key begins
(`ListAsserts`), where a release build allocates it anew (`BeginList`); the model allows both.

## Findings

1. `query.cpp:574`: a request on the first lines can meet a bar thread that has
   not started; the pause is refused and the assertion fails later.
2. `pmmg.cpp:539`: the min heap is repaired upwards after its key grew, so falls
   are not recorded. Reproduced with the C++ class: eps 0.9, arrivals 1 1 2 at
   time 1, 2 3 4 at time 2, 1 at time 3.
3. `pmmg.h:281`: the stated error range of the rebuilt counters is too narrow.
   Reproduced with eps 0.6: a key with frequency 3 of 7 has no entry.
4. `sampling.cpp:2003`: a back-in-time frequency is scaled by the arrivals before
   the interval.
5. `norm_sampling_wr.cpp:175`: the norm of a timestamp includes the next row, the
   entry read is that of the following timestamp, and for the last finished one the
   end of the map is read.

Known and modelled, with the properties stated around them: a second `clear` of
SAMPLING frees twice (`aborted`); PFD keeps its target over `clear` (`reused`) and
pops from an empty sketch while all rows are zero; a malformed matrix line leaves
its prefix in the exact norm (`astray`); `tellg` is -1 at an unterminated end.
`TreeMisraGriesBITP::clear` leaves a quota that wraps: the run follows a cleared sketch
for three timestamps only, in which `m_level` is 0 as it would be anyway, so what it
shows is not that this is harmless. A query
of TMG for exactly the time a tree ends merges that tree, and the assertion before the
merge (`pmmg.cpp:1082`, `ts_e > m_ts`) excludes it: the answer is right, a build with
assertions stops. A
weight above 1 can push the Misra-Gries table over its size and be subtracted twice
(`misra_gries.cpp:125, 160`), which the driver's weight of 1 rules out. The
threshold of NORM_SAMPLING counts only rows that were once sampled, not those
rejected at once; `HeaviestSampled` says exactly that.

CMG's rebuilt counters stay within eps in spite of 2, because a missed fall errs in the
direction the eps/3 lowering of the rebuilt counter absorbs: this is what
`PastWithinEps` checks for both implementations, and `PastTracksSketch` states the
lower direction only for `update_old`. It does not say that no heavy hitter is missed:
`get_heavy_hitters` lowers its threshold by 2 eps/3 only (`pmmg.cpp:680`), and measures
it by a total interpolated between the checkpoint and the present
(`pmmg.cpp:757-791`), which moves with later arrivals. The interpolated total and the
threshold are not modelled, which is why `PastRecordsFixed` is about the recorded counters.
TMG lowers its threshold by 1/k + eps/3, the bound proved for it. Of the frequency queries,
`ChainMisraGries::estimate_frequency` and the correction `d` that
`estimate_frequency_bitp` adds (`pmmg.cpp:1427`) are not modelled; the sketch the latter
caches is.

## Proofs

Each theorem holds for every value of the constants that satisfies the named
assumptions, which TLC evaluates on the instances. Where a model bounds a stream
(`TreeMaxTotal`, `ChainMaxTotal`, `RowsAt`...), the bound is such a constant.

| Module | Proves |
|---|---|
| `MGSketchProofs` | what `update_impl`, `merge` and the lazy minimum do to one sketch (lemmas) |
| `MisraGriesProofs` | `TypeOK`, `EstimateSound`, `LazyMinSound`, that the objects implement `FrequencySummary`; `MassAccounted` for any weights, `EpsBound` and `TableFits` for weight 1 |
| `QueryDriverProofs` | `TypeOK`, `PauseExcludesBar`, `RefusedOnlyAtStart`, `ReportCoherent`, `FinalReportComplete` |
| `ConfigProofs` | `AcceptedReads`, `AbortsExplained`, `SetupBuildsAsked` |
| `PersistentMisraGriesProofs` | `NothingBelowLevel`, `Chronological` and its half of `PastWithinEps` of TMG; `PastWithinEps` for weight 1 |
| `ChainMisraGriesProofs` | of CMG, both implementations: `PastRecordsFixed`, `PastTracksSketch`, `CountersInSync`; for weight 1 `CountersSuffice` and the CMG half of `PastWithinEps` |
| `SamplesAndMatricesProofs` | `ShareKept` of PFD, `BaselinesAgree`; `PastSampleKept` of SAMPLING and NORM_SAMPLING_WR, `PastFrequenciesHold` |
| `DataLemmas` | sums over finite sets, and what every operation of `MinHeap` does to the items and the order of a heap (lemmas) |

**MisraGriesProofs.** The inductive invariant is `IInv == TypeOK /\ EstimateSound /\
LazyMinSound /\ MergedSettled`. None of the parts is inductive alone: the subtraction
passes keep counters nonnegative only because the lazy minimum is a lower bound; the
minimum is one only because pending weight is below it; soundness of merged
objects needs that they hold no pending delta. The argument goes bottom-up:
`SubtractMinSpec` and `SubtractPassesSpec` say what a pass takes from each
counter, `UpdateKeeps`, `ResetDeltaKeeps` and `MergeKeeps` lift this to the operators,
one lemma per action to `IInv`, and one per action to a step of the summary.

For the accuracy, `MassIsAccounted` says that what is subtracted from the pending weight is
subtracted from other counters too. With any weights one counter pays, with unit weights
K - 1 do, so that J times the weight declined is at most the total (J = 2 or J = K): one
induction over the passes for both. The hypothesis `Weights = {1}` of `ErrorIsEps` and
`TableAlwaysFits` is what the program does: every caller of `update` of a Misra-Gries
sketch uses the default weight 1. The bound is false for other weights, where a pass may
take the minimum of a table that is almost empty. The lemmas about one sketch are in
`MGSketchProofs`, because CMG holds one too.

**QueryDriverProofs.** `Phases` ties the two program counters, the flag and the status
together. `CountersTrack`, for `ReportCoherent`, says that the bytes read are those of
the finished files and the position in the current one, and that every line counted as
data has been read; the report loads the number of lines before the number of bytes, and
both only grow. `AtTheEnd` adds, for `FinalReportComplete`, that the bar is stopped only
at the end of the last file and that the main thread's report is the last one.

**ConfigProofs.** `ReadInv` says that until a line is refused every entry reads as the
file last said, except the entry whose list is open, which holds the values so far; that
a refused line settles the outcome; and where every exception comes from.
`DeclaredAssumption` is what `config_list.h` looks like: no default throws, a needed key
is a declared one.

**PersistentMisraGriesProofs.** The forest is a binary counter. `CountsUp`: the levels
occupied, weighted by powers of 2, and the leaves still to come make up the quota of
`m_level`. The quota is 2K, so the level itself is empty when it rises. Every other
tree then starts where the next lower one ended (`OrderedRoots`), and a carry merges
neighbours. The free level found by a carry is `FreeLevel`, the levels it merges
`Generations`, both without recursion. The order holds even in a forest whose carry
would run past the last level.

What the forest is worth needs the history, which the state does not keep: `TreePast`
says that there is a history `G` of the finished timestamps (true counts and weight, and
what had been moved into leaves by then) and a relation `R` of the nodes to the time they
begin and their height, such that each node that still has a sketch holds one of exactly
what was moved in its time (`NodeOk`), a leaf's time is shorter than a node's share, and
the running sketch is of the rest (`Running`), of which little is left when a leaf ends
(`LittleLeft`, from `SketchSplits`). `G` and `R` are existentially quantified, so no history
variable is added; trees are related to `R` and never taken apart recursively. A query
merges neighbours only (`HoldsBoth`); the walk down a tree and the search over the trees are
recursive functions over the turns (`TurnIsOk`, `SearchTurnIsOk`), and what comes out is a
sketch of the history up to a leaf's end (`AnswerIsOk`).

`RoomInv` is why no carry runs past the last level ("Too many items"): the share of a node
of `m_level` is `TwoTo[level]`, and the nodes counted there stand for at least half a share
each. `SketchesAssumption` says that twice the weight of the stream is below 2 to the number
of levels (64).

**ChainMisraGriesProofs.** Answers about a closed timestamp depend on the checkpoint
before it and on the deltas up to it. A step appends checkpoints and deltas of the
timestamp it closes, never earlier ones (`RecordAt` finds the same record before and
after), and needs that the first checkpoint is that of the first timestamp, so that the
search never falls off the list (`ChainInv`). That gives `PastRecordsFixed`, and it leaves
one timestamp to look at: the one a step closes.

The inductive invariant `RecordsInv` has two more parts. `PresentInv`, of the state an
update works on: the sketch is sound and accounts for its weight (`SketchOk`, from
`MGSketchProofs`); every entry of the snapshot is the newest record of its key, every
other key has no record since the last checkpoint or one of a deletion (`SnapOk`); and
with `update_new` the counters are at their distance from the records, both heaps are
permutations of the table, and a key that is recorded but not in the table is in
`m_deleted_counters` (`CtrOk`). `PastInv`, of each closed timestamp: the record read for
it is within the drift allowed of what the sketch held then, and that was within
total/K of the truth.

A step goes through `Settled`, the state after the records of the closed timestamp are
made and before the arrival is counted. For `update_old` this is a case split on
`OutOfRange`. For `update_new` the two loops are recursive functions over the turns;
`Loop` is what a turn keeps. A turn takes one key out of the set of those above their range
(`Over`), and the top of the max heap is the greatest key, so that the loop ends with
`Over` empty or with the limit on delta nodes hit, where a checkpoint replaces the
deltas. The max heap stays ordered at each operation. The min heap does not: it is
repaired in the wrong direction when a counter is raised (a finding above), so the proof
only claims that it holds the keys of the table, and the lower half of
`PastTracksSketch` only for `update_old`. An arrival then raises, adds or drops counters;
what the sketch subtracts lazily from all of them is added to `m_sub_amount` (`SketchMoves`),
so that the others stay at their distance.

`CountersSuffice` follows because the records waiting for a deletion are among the keys
recorded at the end of the last timestamp, all of which were in a table of at most K - 1 keys.
It and the answers need weight 1, as `ErrorIsEps` does.

**SamplesAndMatricesProofs.** PFD skips the decomposition while the norm seen is below
a target. `TargetSound` is why it may: the target is at most the norm seen at the last
decomposition minus the longest direction left then, and since then a direction has grown by
no more than the norm has. It must survive the compression of a full C, which never lengthens a
direction (`CompressedPays`), and fails after `clear`, which leaves the target alone:
`ShareKept` excepts reused sketches, as the hazard of that line says. The model's singular
value decomposition is a sorted enumeration of the axes, which `SortedExists` shows to exist.
`RowsAssumption` and `HalfSizesAssumption` say that rows are multiples of unit vectors
and that the l-th direction exists. `BaselinesAgree` is by `Filing` (filed matrices are
those of timestamps that are over): what was answered for a past timestamp stays, and
both lists count a row exactly for the timestamps from its own on.

For the reservoirs the invariants say what the slots show of every time, not which
versions they keep: `ShownAppend` (a version appended at ts changes what is shown from ts
on and nothing before) is all the proof needs to know of `last_of`. Of SAMPLING, `Kept` says
that with m arrivals up to ts the slots up to m show distinct ones of these, the others
nothing, and, while m fits, slot i the i-th. The turns of `update_loop` are a recursive
function, and `TakenAllKeeps` an induction over them. `CountedTill` says the same of
`m_ts2cnt_map` for the timestamps before `m_last_ts`; the cache is right because what it
depends on no longer changes. Of NORM_SAMPLING_WR, `DrawnRight`: the first row that
counts has the whole weight and goes to every slot, so that a slot only shows nothing
while nothing counts.

Only model-checked, and why:

- liveness (`RunEnds`, `ParseEnds`): beyond the prover;
- `Balanced`, `AggregatesExact`, `SearchesAgree` and the sorted bag of the AVL trees: the
  operations are recursive, about which tlapm proves nothing;
- `PruningSound`, `RowsMirrorTrees`, `SuffixWithinEps`, `SizeCounted` of TMG_BITP: trees
  of nodes named by their place, reached recursively;
- `SuffixSampled`, `SuffixStoreExact`, `HeaviestSampled`: not attempted yet;
- `CovarianceWithin`: an error bound that accumulates over folds of compressions.

## Plan

Built: the Misra-Gries family, the driver, the AVL trees, the samplers, the matrix
sketches and the configuration, and the proofs above. Left:

1. Proofs: the forest of TMG_BITP.
2. Implementation 1 of SAMPLING_BITP and the exact heavy hitters.
3. The argument parsing of the query types.

## Not modelled

Floating-point linear algebra in general directions and the statistics of errors in
the driver (data only); the piecewise-linear approximation and what is built on it (floating-point
slopes, guarantees in probability over hash functions); implementation 1 of
SAMPLING_BITP, which keeps the samples of implementation 0 in AVL trees with aggregates of
its own; move assignment of trees; memory accounting except TMG_BITP's counter;
output formats; timers; the superseded driver, unit drivers, scripts and vendored tools.
