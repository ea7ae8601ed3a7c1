# Verification of torann

torann answers k-nearest-neighbour and radius queries on the unit torus under
an L1 (or L^p) metric.  It is a Python package with a compiled core: an object,
`ToroidalNN`, starts with exact scans and moves to a locality-sensitive hash
index once the set is large.  Points come in two tiers: *anchors* (static) and
*candidates*, which an outer optimisation loop moves every epoch (`update`) and
from time to time freezes into anchors (`promote`).

This directory holds TLA+ models of that code, TLC configurations that check
them on small instances, and TLAPS proofs.  Every definition is translated from
the source; `PROJECT.json` ("map") names the lines each one stands for.

Contents: [inventory](#inventory), [plan](#plan), [modules](#modules),
[runs](#runs-and-bounds), [fairness](#fairness), [proofs](#proofs),
[disagreements found](#where-code-and-documentation-disagree),
[not modelled](#not-modelled).

## Inventory

| component | where | state | operations |
|---|---|---|---|
| index contract `BaseIndex` | `torann/base.py` | none | `build`, `update`, `promote`, `query_knn`, `query_radius` |
| reference tables `PythonLshIndex` | `torann/lsh.py` | points, per table the sorted keys and ids of each tier, the candidates' keys in row order | as the contract |
| compiled tables `RustLshIndex` | `src/lib.rs` | the same, plus direct-address offset tables per tier | as the contract |
| k-NN query | both | none kept; gathered ids, level, row | hash, probe, gather, rank, prefix relaxation |
| candidate heap | `src/lib.rs` | k slots per query | `heap_offer`, `heap_offer_64`, `heap_emit` |
| batched k-NN join, 8-bit prefilter | `src/lib.rs` | heaps and filter counts per block of queries | `query_block`, `lb_limit`, `score_tile` |
| radius query and join | both | hit lists | `query_radius`, `radius_block`, `dedup_hits` |
| exact scans, `BruteIndex` | `torann/brute.py`, `src/lib.rs` | points | `exact_knn`/`brute_knn`, `exact_radius`/`brute_radius`, `pairwise_l1`/`pairwise_lp` |
| facade `ToroidalNN` | `torann/wrapper.py` | arena, tier boundary, serving index, mode, drift snapshot and limit, tuned size, predicted recall | `fit`, `update`, `promote`, `query`, `query_radius` |
| tuner | `torann/wrapper.py` | writes the facade's tuning fields | `_tune`, `_plan_tables`, `_reach`, `_hit_rate` |
| crossover | `torann/wrapper.py` | none | `tune_thresholds`, `_threshold` |
| backend selection | `torann/rust.py`, `torann/wrapper.py` | installed classes | `_cpu_supports_avx2`, `_resolve`, `_lsh_class` |
| metrics, containers | `torann/metrics.py`, `torann/base.py` | none | `toroidal_separation`, `csr_to_padded` |
| A/B harness | `examples/bench_ab.py` | arms' directories, worker processes, result files | `build_arm`, `run`, worker, `merge`, report |
| benchmark drivers, recall measures | `examples/*.py` | an index, and positions of their own | one program per script |
| weighted directions, statistics, reports, figures, cluster scripts, exploration | several | none that behaviour depends on | |

**How they interact.** The facade owns one index object and calls it through the
contract.  It also keeps its own copy of the points, the arena: exact scans in
LSH mode read the arena, everything else reads the index.  A retune or a first
lazily building query *replaces* the index object.  The reference and the
compiled index are interchangeable; conformance tests compare their tables entry
for entry.  Inside the compiled core, tables hand id slices to the query path,
which offers them to the heap.  There are no callbacks and no messages.  Concurrency comes
from two places: rayon parallelism over disjoint rows, and threads of the caller.  The
facade has no lock.  The compiled `build`, `update` and `promote` release the interpreter
lock while they hold the index borrowed exclusively, its queries while they share it, and
so does the scan in `_tune`, over copies; meanwhile other threads may call the same facade.
PyO3 refuses them the index object as long as it is borrowed, but nothing refuses them the
facade's own attributes or installing another index.  The drivers in `examples/` call the facade from
outside, some through views of its arena or by writing its index's fields.  The A/B
harness runs builds of the package in worker processes and exchanges files: several
jobs, on several machines, share a disk.

**What is hard.** Long histories: what a bucket contains, and in which order,
depends on every update and promote since the build, and on how ties were broken
in each merge.  Many programs for one answer: four paths answer a batch, behind a
filter that turns itself off half way.  Caches: the row-order keys, the offset tables, the arena, the
drift snapshot and the tuned size all restate something else and are refreshed by
different statements in different operations.  Approximate answers with promises
attached: the relaxation counts raw entries, while the promise is about distinct
points.  Partial failure: `fit`, `update`, `promote` and `_build_lsh` assign in sequence
and can raise in between; other threads may call in while the compiled index works, and a
call then goes on with an arena and an index it did not leave.
In the harness: dead workers, killed and restarted jobs, torn files, a rebuild under a
running job.

**What makes each part correct.**

* Tables: each id filed exactly once, under its current key, in sorted order,
  and the same in both implementations, ties included.
* Offset tables: never older than the tier, and the same answer as the search.
* Facade: arena and index equal; the snapshot is about the current candidates;
  no epoch ends with more drift, and no promote with more growth, than the tables
  were tuned for; the mode follows from the thresholds; a rejected call changes
  no answer.
* Query: nothing nearer lost from the query's own buckets; widened ranges are exact prefixes; enough results; an end.
* Joins: the rows of the query-at-a-time scans, whatever the blocks and whatever the
  prefilter rules out; memory bounded by distinct hits.
* Heap: the k nearest of everything offered, whatever the order and however often.
* Scans: both implementations return the same row, and the NumPy kernels add in
  NumPy's order.
* Batches: a row does not depend on the rows answered with it.
* Tuner: the closed form is what hash and probes give; a goal in reach is met, with no
  more tables than it takes.  Thresholds route every measured size as it was measured.
* Harness: what is compared comes from one run on one machine, complete, each arm first
  as often as the other.  Drivers: they ask about the positions they believe in.  Recall:
  every script's measure is that of the exact scan.

## Plan

In order of importance; the first four blocks are done.

1. The core: `TableOps`, `IndexSpec`, `PyTables`, `RustTables`, `TablesParity`;
   `MergeLoop`; `Facade`; `TorusHash`, `KnnQuery`; `TopK`, `CandidateHeap`; `BlockJoin`;
   `ExactScans`.
2. The rest of the package and what measures it: `FacadeFaults` (every failing step, several
   threads), `RowArrays`, `LaneSums`, `Separation`, `HitModel`, `TablePlan`,
   `Crossover`; `BenchRun`, `BenchReport`; `Recall`, `Workloads`; `MCAlgorithms`, which
   checks the algorithms together.
3. Proofs of the package's own safety properties, for all values of the constants: the
   facade with and without faults, the parity of the tables and both refinements of
   `IndexSpec`, the heap and its refinement of `TopK`, the exact scans, the query's level
   loop, the joins, the merge, separation, plans, thresholds, the ablation's arms.
4. Proofs about what measures it, and what was left: the harness (`BenchReport`'s three
   invariants), the recalls of the scripts, the order of additions, the batch form of the
   reference, and that a call of several threads' which nothing overtakes does what it
   does alone.
5. Not proved: the count behind the closed form (`HitRatesCount`), the drivers
   (`DriversKeepTheirPicture`), and liveness.

## Modules

**Ranking** says what a sort and a boolean mask return: `Ordered` puts the i-th element
of a set where i - 1 others come before it, `Picked` keeps chosen places in order.  No
property depends on how a sort compares, and rank by counting can be reasoned about.
**TableOps** has the sequence operators behind a tier: `SortTier`, `LowerBound`
(`searchsorted`), and the two programs that merge sorted tiers: `NumpyInsert`
(search every insertion point, open all slots at once) and `TwoPointerMerge`
(walk both with two indices).

**IndexSpec** is the contract, with no table in it: `filed[i]` is the place the
caller last gave id i-1, `update` re-files exactly the candidates, `promote` adds
a batch and freezes what was there.  A place is coordinates for an exact index
and a hash signature for the LSH ones.

**PyTables**, **RustTables** are the two implementations; one action per method,
one variable per attribute.  A point is its signature, one key per table.
`RustTables` also has `offsS`/`offsC`, built by `BuildOffsets` and read by
`StaticRange`/`CandRange`, with the binary search that replaces them when the key
space is over the memory budget.  **TablesParity** drives both with the same
calls and maps each one onto `IndexSpec` by reading off, from the sorted tables
alone, where every id is filed.

**MergeLoop** is the merge loop of `update` and `promote` as a state machine, one
output per step: the detailed version of `TwoPointerMerge`.

**Facade** is `ToroidalNN`.  Points are positions on a circle.  What tuning
computes from a random sample is a choice (`driftLimit' \in DriftLimits`); when
it runs, what it overwrites and what it leaves alone are the code's.  `QueryKnn`
and `QueryRadius` are the *state changes* of the queries: the lazy build.
`Facade` implements `IndexSpec` through its index's copy of the points.  Since a build
may file anything, `IndexSpec` is compared call by call (`ImplementsIndex`
here and `ImplementIndex` for the tables): a step that is an update with certain
points must be the specification's update with those points.
**FacadeFaults** is the same object under calls of several `Threads`, which need not run to
their end.  A call is cut wherever the compiled core releases the interpreter lock, and any
step of another thread may come between:

| code | steps |
|---|---|
| `fit`, exact / in LSH mode | `FitExact` / `FitTunes`, then as `_build_lsh` |
| `_build_lsh`: the scan of `_tune`; `build`; the snapshot | ends `FitTunes`, `UpdateTunes`, `Freezes` or `QueryTunes`; `Installs`; `Snapshots` |
| `update`: retune / refresh, compiled / its end | `UpdateTunes` / `UpdateRefreshes` / `Leaves` |
| `promote`: compiled / from line 460 on | `Promotes` / `Freezes` |
| query: lazy build / compiled / its end | `QueryTunes` / `QueryEnters` / `Leaves` |
| a call that raises | `RejectFit`, `FailTune`, `FailMake`, `FailBuild`, `RefuseUpdate` |

`inside[t]` is what thread t is in the middle of, with what it will need when it comes back
(`Calls`): the batch of a promote and the mode it found, the size a tune counted.  While
`live`, it borrows the index that serves, so that another thread's `update` is refused *after* the
arena was written and its `promote` *before* anything was; installing another index
ends that, and the call goes on inside the old one.  A call is `crossed` once another one has
changed the facade under it.  `fault` records what failed and crossed calls may have
left, on a scale of four, with what is still owed by calls in progress; `FaultsLeave` says what
each level guarantees, and so which later call repairs what.  The worst level says
nothing: it is where a promote ends up that comes back to another thread's fit and appends its
batch to an arena whose index never saw it, or one that froze the rows an `update` refused in the
meantime has already replaced in the arena.  `before` is history: the facade as it was
found by the one call in progress that began in order and has not been crossed (`Orderly`).
`Atomic` is `Facade` read over `before`: when such a call ends, `before` and the facade it
leaves are one step of `Facade` (`CallsAreAtomic`).  A call that was crossed is
outside that property, and rightly: it is not atomic, and the code promises nothing.

The cuts are those where compiled code lets go of the lock.  CPython may also switch threads
between any two statements; those interleavings are left out, so what holds here of threads
holds of callers that switch at these places.  The exact index is cut at the same places
although it keeps the lock, which only adds behaviours.

**TorusHash** is the hash on a grid: codes, in-cell fractions, keys, probe steps
with their wrap, toroidal distance, all exact integers; sums over axes and powers of the
base are the loops that accumulate them (`SumTo`, `Pw`).  **KnnQuery** is one query
from gather to row, with the level loop of the relaxation step by step; a row is the
first k ids by (distance, id) (`Ahead`, `FirstK`).  NumPy's
`argpartition` may keep any of the digits tied for a probe; the model lets it.

**BlockJoin** is a batch of queries in the compiled core: the choice between scan
and join, blocks, and per table one action for each bucket loaded (`Load`) and one
for the end of the table (`CloseTable`: compaction, judging the radius filter).  The
k-NN and the radius join are the same program with a heap or a hit list, so they
share a module.  A heap is the set of ids it holds, as in `TopK`; a hit list is the
sequence as pushed, with its capacity.  `CellBound` and `Limit` are `lb_cells` and
`lb_limit` on a grid whose positions divide into cells as floats divide into 1/256ths.
A bucket may be held in any order: `Listings` are all its orders, and `Grown` is the
capacity of a list after so many pushes.  Relaxation starts a row over and is `KnnQuery`'s;
here a short query is only recorded in `relaxed`.

**RowArrays** is the reference's batch form: pairs `row * n + id` in one flat array,
ranges expanded by `cumsum` and `repeat`, ranks scattered into padded rows, blocks of
queries, the relaxation of the short rows in step, CSR rows and `csr_to_padded`.  It is held
against one query at a time, stated by sets, which is how `KnnQuery` sees it.  A short row
gets its level from a recursive function over the levels, one number per row,
as `level[aidx[done]] = lev` leaves it; the reference definition takes the first level
with enough entries.

**TopK** says what a bounded heap promises.  **CandidateHeap** is the heap, each
turn of a sift loop a step, and implements it; emitting picks any arrangement of the
slots that sorts them.  **ExactScans** has the four exact
scans over one row of distances, padded with -1 to k; `Partitions` are all results
`argpartition` may return.  **LaneSums** keeps a float sum as the tree of its additions, which is all that
its bits depend on; columns are functions of the axis, and `LoopEnd` is where the loop over
whole rounds of eight is left.  **Separation** is `toroidal_separation` and the blocks of the
reference scan under it.

**HitModel** is `_wall_profile` and `_hit_rate` in whole numbers (midpoints of the wall
distance, sums times their denominators), next to a count over every place a query can
have in its cell, with the hash and the probe rule of `lsh.py`.  **TablePlan** is
`_reach` and `_plan_tables`, with what one table finds as an input and the recall of several
in exact fractions (`Powers` of a miss); `Plans` are the ones `_reach` returned, in the
order tried, and `AutoProbes` stands for probes the caller left open.  **Crossover** is which code serves a call: the CPU probe, the bindings,
the backend, the thresholds, and `tune_thresholds` with the set of sizes the tables won as an
input: the sizes `Halved` from n down, and where its loop over the `Measured` ones ends.

**BenchRun** is the A/B harness: a job runs both arms of each batch of its shard, pair
after pair, in worker processes, and rewrites its result file after each pair, in two steps
because `open(out, "w")` empties it first.  Jobs start on any machine, also again over the
same file; workers die, cases raise, jobs are killed, and one arm is rebuilt in the three
steps in which its directory changes.  A batch is chosen by the places of its cases in the
shard (`Picked`), a shard without a case writes its empty file at once, and a shuffle is any
arrangement of the batches.  **BenchReport** adds `merge` and the report's
comparisons over any files a user may name, in any order; the merged rows accumulate file
by file in a recursive function, as in the loop of `merge`.

**Workloads** has one program per driver script, run on the systems the scripts compare.  A
position is its history (the draw it was born in and the draws that moved it), so systems
that hold equal positions have also used the random stream alike.  **Recall** has every
script's way to exclude the query from an exact answer and to count hits, and the arms of the
ablation that corrupt an answer.  `BlockedTruths` keeps the best k block by block
(`BestWith`), as the script that cannot hold all distances does.  The ablation ranks a pool and
passes over the first ranks of it; `Rankings` are all the cuts that equal distances leave
open, so a window's arm may draw any ids that could stand at its ranks (`Eligible`).

`MC*` modules give constants their values.  `MCAlgorithms` puts the merge loop, the heap, the
exact scans and the stateless algorithms in one specification, of which a behaviour runs one
and leaves the others at rest: each is checked over all its inputs within the bounds, in one
run.  A stateless algorithm is a task that is set and then solved; its `...Task` operator
enumerates the inputs.  Operators commented "Mutant:" are
plausible bugs, unused by the specifications; putting one in place of its original
must break the property that `PROJECT.json` pairs it with.

## Runs and bounds

| run | checks | bounds, and why they are enough |
|---|---|---|
| `tables` | both implementations have the same tables; lookups return the points that hash there now; the reference tables stay sorted and complete; both implement `IndexSpec`; unmoved entries keep their order | one table (tables never read each other), 3 key values, 4 points: buckets of several moved and several kept entries, histories of any length, both tiers empty or not |
| `facade` | arena/index agreement, snapshot, drift, growth, mode, refinement of `IndexSpec` | 3 points on a circle of 4; a snapshot cap of 2, below the tier size; three threshold pairs (either order, and 0), tables tuned or pinned, L planned or not; histories of any length |
| `faults` | what failed, refused and overtaken calls leave behind, and which call repairs it; a facade never tuned is not tuned by growth; a call nothing changed the facade under does what it does alone | up to 2 points on a circle of 2; one facade that retunes and one that does not, thresholds of 0 and 1 in either order; two threads, each at any place where the lock is released (one call may be overtaken by any history of the other's, themselves cut; the theorems are for any number; they are interchangeable, so `Threads` is a symmetry set); histories of any length |
| `knn` | bucket mates, prefix ranges and keys in range, the last one exact, the floor under the row's length, termination | 3 digits of base 2, so two intermediate levels; 4 tables, so that counts of duplicates can reach 4k; every set of up to 3 points on a circle of 4, all queries, every kind of `exclude_ids` |
| `join` | the joins return the rows of the query-at-a-time scans and relax the same queries; the memory of a radius block | 3 points (the first in one of two cells) on a circle of 12 with 6 prefilter cells, so that bounds of 0, 1 and 2 cells occur across the seam; 3 tables of 2 digits; self-joins and two foreign batches of 2 and 3 queries; blocks of 2 and 1, of everything, and no blocks; a judging window of 1 pair and 2 dead windows, so that the filter is dropped in mid-block; slack 1, so that lists compact at the second table |
| `bench` | arms alternate, files complete, like compared with like | 3 cases, two of which share a fixture; jobs that overlap, the arms named either way round, and a third shard without a batch; two machines, 2 pairs; 2 starts (`MaxLaunches`: two jobs, or one started again) and 1 upset (`MaxUpsets`: a case that raises, a worker that dies, or a rebuild); machines are interchangeable, so `Hosts` is a symmetry set |
| `algorithms` | merge loop: every output where search-and-insert puts it | every pair of sorted tiers of up to 4 entries over 3 keys |
| | heap: order, holds the nearest, implements `TopK` | 3 slots (a root with two children), 5 candidates (some are evicted), ties, repeated offers, an excluded id |
| | scans: NumPy and compiled agree | up to 4 points with ties, every partition, every k up to 3 and every radius |
| | batches: a row does not depend on the others | 4 points on a circle of 4, two at one place, one or two tiers, 2 queries in blocks of 1 and 2, two tables of 2 digits: empty, short and full rows side by side |
| | lane sums | 1 to 34 axes (past two rounds, all tails), four metrics; the limit of 128 axes scaled to 32, so that both sides of it occur |
| | separation | up to 3 points and 2 anchors on a circle of 4, blocks of every size |
| | hit rate | every pair of gaps on two axes at 2, 3 and 4 cells a side, 2 midpoints, tables of up to 3 digits, of 2 in the count |
| | plan | caps of 3 tables, 2 and 3 probes; every table of hit rates that grows with probes, in quarters; goals between and at reachable values; depth pinned or not, probes given or not |
| | thresholds | every machine, backend and outcome of measurement over up to 4 sizes, thresholds given or not |
| | recall | up to 5 points with coinciding ones, k of 1 and 2, every answer |
| | ablation | all six arms; 5 points at every distance, k of 1 and 2, and 18 points in coinciding groups of 1, 2, 3 and 5 for the ranks past 8: the groups straddle both ends of the window |
| | drivers | each of 18 scripts or cases on its systems, up to 2 anchors, 2 candidates, 2 epochs, 2 batches: the programs are loops without conditions, and a second round is the first that can mix epochs |
| `scans_inf`, `knn_short`, `knn_none`, `facade_recall`, `facade_rejected` | a statement of the documentation that the code does not meet; see below | |

`knn`, `join` and `algorithms` describe calls that end, and in `bench` the starts and upsets
run out, so these are run with `CHECK_DEADLOCK FALSE`.  `tables`, `facade` and `faults` are
checked for deadlock: some call is always possible.

Named bounds: `MaxPoints`, `MaxLen`, `MaxKey`, `MaxK`, `MaxDist`, `Capacity`,
`SnapshotCap`, the sets `Clouds`, `Queries`, `Batches`, `FitInputs`, `DriftLimits`, `Ks`,
`Radii`, and in `BlockJoin` the code's own constants, scaled down: `BatchMin` (64),
`Window` (2^17), `DeadRun` (3), `Slack` (16); likewise `Budget`, `PairwiseMax` (128), `Walls`
(`_WALL_GRID`), `MaxTables`, `DefaultProbes`, `DeepProbes`, `Smallest` (256 points) in
`algorithms`, and `RowLength`, `Farthest`, `MostAsked` in the scans.  `MaxPoints`,
`MaxLaunches` and `MaxUpsets` appear in guards (`Promote`, `Promotes`, `Freezes`, `Launch`,
`RunArm`, `Clear`): a promote that would come back to an arena too full for its batch is not
followed further.

## Fairness

Only `KnnQuery` states fairness, `WF_vars(Next)`: a query runs in the calling
thread without waiting for anything, so it takes a step as long as it has one.
Under it every query ends (`Answered`).  The other modules describe what a caller
may do, and nothing obliges the caller to do it; their properties are safety.

## Proofs

Everything in this section holds for every value of the constants that satisfies the named
assumptions (`ASSUME`) of the modules: any number of points, tables, axes, digits and keys,
any k, any capacity, any history of calls.  The runs check the same properties, and the
inductive invariants named below hold in the same bounded instances.

**The library.**  `TableOps_proofs` is about the operators: what `SortTier`, `Picked` and a
row made by rank return (`RankedFacts`: each candidate once, the i-th with i - 1 nearer),
what `LowerBound` separates, that merging two tiers that file different ids gives a tier
(`MergedTier`) in which the kept entries keep their order (`MergeKeepsOrder`), and that the
two programs for the merge return the same sequence, ties included (`MergeSame`).
`RowArrays_proofs` begins with the hash: sums accumulated term by term, powers, the
toroidal distance, keys split at a digit (two keys share a prefix exactly when the points
agree on those digits: `PrefixAgree`), and the range of every probed key (`ProbeKeyRange`).  A loop over 1..n is a
recursive function; its value at every turn is found by least counterexample
(`LeastNatural`, from the library's well-founded minimum) rather than by the library's
induction rules, whose operator parameter none of the provers can instantiate.

**Tables** (`TablesParity_proofs`): `SameTables`, `ReferenceTablesSound`,
`LookupsAreCurrent`, `UpdateKeepsOrder` and `ImplementIndex`.  The invariant is
`ParityInv`.  Its first half, `PyInv`, says the reference's tiers file exactly their ids
under the keys of the current points and that the row-order keys are current; the second,
`RsFollows`, that the compiled core has the same, and offset tables of the tiers it has
*now*.  Equality of the tables alone is not inductive: the next update compares old keys
with new ones, so stale row-order keys would part the two; and the merges agree only on
sorted tiers without repeated ids.

**Facade** (`Facade_proofs`): `ImplInSync`, `SnapshotFitsTier`, `DriftWithinLimit`,
`GrowthWithinLimit`, `ModeFollowsThresholds`, and `ImplementsIndex`, the refinement of
`IndexSpec`.  `IInv` is the conjunction of the checked invariants and one more fact, that in
LSH mode the drift limit is one tuning chose (the attribute starts at 0, which would call
everything drifted).  The parts need each other: `update` writes the anchors of the
index from the index's own boundary, so equal copies need equal boundaries; a promote
keeps the snapshot's length right only because the index mode is in step with it.
Every rebuild, whichever call runs it, is covered by one lemma (`Rebuilt`), whose heart
is `FreshSnapshot`: a snapshot has not drifted from itself, because the median of zero
gaps is zero.  Assumptions: those named in `Facade.tla`; in particular a drift limit is
positive, which the code ensures by clamping the neighbour scale at 1e-9.

With failing and overlapping calls (same module, for `FacadeFaults`, for any number of
threads): `FaultsLeave` and `NeverTunedOutlivesGrowth`.  `FaultInv` adds to `FaultsLeave` what
the level says of calls in progress.  `Tuned` and `AnchorsAgree` are what each level still
knows of tuning and of the points; the `Claims` are, for each thread that is tuning, building or
promoting, what will be true when it comes back and nobody has crossed it: that the index
in `build` holds the arena, that the index a promote has frozen is the arena with the batch
behind it.  `FaultsLeave` alone is not inductive: a step back from the compiled code restores
order only because of what was true when it went in.  Each step changes the facade for the
others too, and the lemma `OthersClaim` says that a crossed call claims nothing.

`CallsAreAtomic` (`WithoutFailuresAtomic`) adds `AtomInv`, about the history variable: at most one
call is orderly, without one `before` is the facade itself, and with one, `Leads` says by
which step of `Facade` it set out from `before` (`Called`: a fit, an update that drifted, a
promote that outgrew its tables or crossed the threshold, a lazily building query) and how
far it has come.  When it comes back, the choices it made on its way (a drift limit, a snapshot) are
the ones that the single step makes (`RebuildIsAtomic`).

**Heap and exact scans** (in `Algorithms_proofs`): the heap holds the nearest of what it was
offered (`HoldsNearest`) and implements `TopK` (`ImplementsTopK`).  `HeapInv`: the slots are
entries of distinct wanted ids, an id turned away is farther than all of them, and the heap
order holds except around the slot that is sifting, whose children are not farther than its
parent.  The root is the farthest (`HoldsNearest` needs it at every eviction) only because
of that order.  `ScansAgree`: the NumPy scan masks a column, partitions and repairs the ties
at the k-th distance; the compiled one skips the id and keeps the heap.  `ScanInv` says that
each answered scan gave the row its arguments determine, whichever columns `argpartition`
kept; the argument is that masking moves only the excluded id, that the kept columns
with the ties have the rank they have in the whole row, and that the first k of those
are the nearest.  For a finite cutoff: the other case is `scans_inf`.

**Query** (`KnnQuery_proofs`): `BucketMatesRanked`, `PrefixRanges`, `RelaxationFloor`.  `QueryInv` says what is being ranked: all bucket mates always; after
widening, everything in the level's ranges, which counted 4k entries or more; at the
last level everybody.  The floor follows by counting: an entry counts at most once per
table, so 4k entries are at least 4k / L distinct ids.

**Joins** (`BlockJoin_proofs`): `KnnJoinAgrees`, `RadiusJoinAgrees`, `HitListsBounded`, for
any batch, block size and course of the filter.  `JoinInv`: for each query of the open block,
the heap holds the nearest of, and the list all hits among, the ids *seen* in buckets
loaded so far (`Held`); queries of closed blocks have the scan's answer (`AnswersOK`); a list
consists of what its last compaction left plus ids this table added once each (`ListOK`).
What makes the prefilter harmless is `RuledOutIsFarther`: a pair it rules out is farther than
the limit it was judged by, which the heap only lowers.  `HitListsBounded` needs
`ListOK` since a list may repeat an id across tables and never within one.

**Algorithms** (`Algorithms_proofs`): the merge loop (`TypeCorrect`, `EntryPlacement`,
`OutputSorted`, `LoopAgrees`).  Placement alone is not inductive: what makes
the next output go to the right slot is how far each index can be.  `Heads` says it:
kept entries already passed are strictly below the fresh head, fresh ones already
consumed are at most the kept head; the strictness is the tie rule.  When the loop ends
every slot is accounted for, so the output is search-and-insert's.  The stateless
algorithms have two theorems each.  The general one is about every input the code may be
given: `SeparationExact`, `PlansAreSound`, `RoutesAsMeasured`, `ArmsAreSound`,
`RecallsAreSound`, `SumsAreInOrder`, `BatchesKeepRows`.  The other (`SeparationsHold`,
`PlansHold`, `RoutesHold`, `ArmsHold`, `RecallsHold`, `LanesHold`, `RowsHold`) is the property
that the run checks, from the first and from the fact that the tasks set are such inputs
(`TaskOK`).  The arguments: blocks leave no row out, and the nearest other point is the
second of a row in which a point comes first or ties with what does (separation); the prediction
grows with the tables, which is what entitles the code to `searchsorted` over it
(`PredictedGrows`; plans); the loop of `tune_thresholds` ends at the first size lost, and all
larger ones were won (`FirstLostFacts`; thresholds); the querying point
is last of its row and outside every pool, what a pool leaves out is no nearer than what it
keeps, and what a window passes over contains the truth (arms); keeping the best k of the best k and the next
block is keeping the best k of all, and the querying point leaves a truth alike whether its
distance is masked, its id is skipped, or one more is asked for and it is dropped (recalls,
for k below the number of points and a query that stands at its own point, as in every
script); the kernel's lane at j = 8 (i + 1) is NumPy's accumulator after i rounds, and the
loop ends at d less d mod 8 (sums, for a block limit of 8 or more and one axis or more).

`BatchesKeepRows` has the longest argument (`RowArrays_proofs`), for any keys, probed keys,
distances and excluded ids of an index with at least one point.  It goes up the code.
*Arrays*: `FlattenSeq` puts the c-th of row i behind the lengths of the rows
before it (`Laid`); so `repeat` names the row of every slot, and the expanded ranges visit
every entry between the two searched bounds, in order.  *Gather*: a chunk holds exactly the
pairs of its rows with the ids in their ranges, over either tier; sorting and dropping equal
neighbours leaves each pair once, and `row * n + id` splits in one way only, since ids are
below n (`PairSplits`).  *Ranking*: the lists of the single queries, laid end to end, are in
`lexsort`'s order, and a set has one listing in a strict order (`OneListing`), so that *is*
the sorted array; the rank in a row is then the place less where the row begins
(`Placed`).  *Widening*: the rows still active at a level are those no lower level satisfied,
so a row's level is its own first one, whichever rows it is widened with.  *Blocks*: they tile
the batch (`BlocksJoin`), and the sums of lengths over blocks agree with those over queries
(`SumsAgree`), which carries `indptr` across block bounds and empty rows.

**Harness** (`BenchReport_proofs`): `RowsComplete`, `ArmsRunFirstEqually`,
`ReportsCompareLike`, for any cases, fixtures, shards, machines,
shuffles, kills, deaths, restarts and rebuilds.  `BenchInv` says what a process and a file
hold: exactly the rows of the arms, batches and pairs that have run (`RowsRan`), which is what
makes a file complete the moment it is whole; the leader's row of a case before the other's,
since who led is read off the rows; and both rows of a pair from one run on one machine
(`OfOneRun`), which a job started again over an old file could break and does not, since
it begins with no rows.  What holds of every file in this form (`InPairs`) holds of
files joined one after the other, and `merge` refuses what would pair rows of two machines.
Assumptions: the arms of a job are two names (an A/A run copies the build), the cases are
distinct, jobs are finitely many, at least one pair, and the name a row without a machine
answers is no machine's.

Proved and not run as properties of their own: the type invariants, `OutSorted`, and the
inductive invariants.

**Only model-checked.**

* Liveness: `Answered`.  It and `ENABLED` are out of the prover's reach.
* `HitRatesCount`: a closed form against a count over every place in a cell: the cardinality
  of sets given by sums, case by case, which the run covers by enumeration.
* `DriversKeepTheirPicture`: about fixed programs, each of which the run executes.
* What `RECURSIVE` operators compute, and exponentiation with `^`.

## Where code and documentation disagree

1. `knn_short`: the relaxation stops when it has *counted* 4k entries.  A point
   counts once per table it shares, the excluded point included, so with four
   tables (the default is 16) a level that holds only the querying point already
   counts 4 and the row comes back empty although other points exist.  README:
   "k results are structurally guaranteed".  `RelaxationFloor`, in run `knn`, is
   what does hold: at least `ceil(4k/L)` distinct points less the excluded one.
2. `knn_none`: an `exclude_ids` entry of -1 excludes nothing, but still lowers the
   number of points the row is checked against; with k >= n a row that misses one
   point is taken for complete.
3. `scans_inf`: infinity marks the excluded column in the NumPy scan and is also a
   legal radius, at which the excluded point is returned.
4. `facade_rejected`: `fit` assigns the points before it converts `k` and `radius`;
   if that raises, the arena is new and the index old.
5. `facade_recall`: a fit that goes back to the exact index leaves
   `expected_recall` at the previous prediction.
6. The docstring of `bench_recall_ablation.py` (lines 15 and 16) says that all arms but the
   first two have "recall pinned to 0".  `ratio2x` draws from everything within twice the k-th
   distance and `uniform` from everything, so either may draw the whole truth; only the two
   windows past the first k pin recall.  No run of its own violates this: `ArmsCorruptAsNamed`,
   in the run `algorithms`, states and checks what the arms do instead.

A remark rather than a disagreement: a comment in `radius_block` says that a hit
list's capacity stays under about twice its distinct hits.  `HitListsBounded` is the
bound the compaction gives: lists are compacted only between tables, so one table may
first double a list that was just short of the trigger (2 1/4 times), and the list
then has up to half of that in reserve.

Further remarks, on behaviour that no document contradicts:

* After a refused or failed `update` the arena holds rows the index does not.  The next
  `update` repairs that, but a `promote` before it freezes the stale rows: they are anchors
  then, and no `update` reaches them (`Froze`).  Only a rebuild does.  So does an `update` that
  another thread's `promote` refuses in the middle.
* `promote` reads the arena and its boundary again after the compiled call (`wrapper.py:460`).
  If another thread's `fit` has replaced both meanwhile, it freezes the new candidates
  and appends its batch to the arena alone: no call fails, and arena and index hold
  different points until the next rebuild.  Calls of several threads need a lock of the
  caller's; no document says so, and none says otherwise.
* A first build that fails before tuning leaves LSH mode with the exact index and a tuned
  size of 0.  Growth by promotes asks for a tuned size and so never rebuilds
  (`NeverTunedOutlivesGrowth`).
* At the table cap, dropping probes may lose a goal the plan had reached, by up to 0.01.
* `pairwise_lp` takes square roots column by column where p is 1/2 or 1/4, and `np.power` in
  the block form past 128 axes.
* `bench_backends.run_scenario` scores an answer that is one update old.  The radius cases of
  `bench_ab.case_crossover_auto` count the query itself on both sides; the suite's comment
  wants it excluded.  The ablation's window arms would draw the query itself if there were no
  more than k times the window's last rank of points; no shape of the script is that small.
* In the harness: the rows filled in for a dead worker name no machine, so `merge` refuses a
  case that has both such rows and measured ones; with no pair left to compare the report says "DIFFERENT"; a job whose
  arm is rebuilt meanwhile compares two builds under one name, since `so_sha256` is recorded and never compared,
  and only the fingerprint would show it; a killed job's file records the pairs asked for, not
  those done.

## Not modelled

* Floating point: the statistics the tuner samples (the cells per side and the drift limit
  that follow from them), distance kernels, weighted directions.  `TorusHash` works on a grid,
  where hashing is exact.
* Measured time: which sizes the tables win is an input of `Crossover`; the z-test of
  `bench_ab.summarise` is statistics over times.
* Reports and figures (`report_session.py`, `report_recall_ablation.py`,
  `plot_benchmarks.py`, `figures.py`, the tables the drivers print): text from finished
  results.  The exploration scripts: one-off experiments on the same statistics.  The cluster
  scripts: job submission.  Query statistics (`stats`, `Tally`, `Clock`): counters nothing
  depends on.
* `ess.esa`, FAISS, NumPy and the batch system are outside the repository; where a model needs
  them they are modelled from their use and marked external.
* In the harness, a worker's check of its arm and its import of the package are one step, and
  a case either returns or raises.
* Switches of threads between statements that hold the interpreter lock: `FacadeFaults` cuts
  a call where compiled code releases it.
* The parallel loops of the compiled core write disjoint rows and are modelled by their
  results.
