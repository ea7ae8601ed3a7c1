------------------------------- MODULE Recall -------------------------------
(***************************************************************************)
(* How the benchmark scripts score an answer against the exact one, each   *)
(* script with code of its own, and the arms of bench_recall_ablation.py,  *)
(* which corrupt an exact answer and score themselves.                     *)
(*                                                                         *)
(* A check is one query at the place of an indexed point: n, own its id,   *)
(* gap[i] the distance to id i (0 to itself), k, radius, got the ids of    *)
(* the index's k-NN row (-1 pads), near those of its radius row.           *)
(***************************************************************************)
EXTENDS Integers, SequencesExt, FiniteSetsExt

PointIds(check) == 0..(check.n - 1)
Others(check) == PointIds(check) \ {check.own}

\* argsort, argpartition and FAISS leave the order of equal distances open: every
\* set of k ids that may be taken for the nearest.
Nearests(gap, ids, k) ==
    {S \in kSubset(Min({k, Cardinality(ids)}), ids) : \A i \in S, j \in ids \ S : gap[i] <= gap[j]}

\* The rank of every kept answer is by (distance, id) in exact_knn alone.
Before(gap, i, j) == (gap[i] < gap[j]) \/ (gap[i] = gap[j] /\ i < j)
Want_OwnKept(check) ==
    [r \in 1..check.k |-> CHOOSE i \in PointIds(check) :
        Cardinality({j \in PointIds(check) : Before(check.gap, j, i)}) = r - 1]

\* exact_knn with exclude_ids: what benchmark.recall, bench_ess_suite.recall and
\* _knn_recall count against, and rank by rank neighbour_quality.
Want(check) ==
    [r \in 1..check.k |-> CHOOSE i \in Others(check) :
        Cardinality({j \in Others(check) : Before(check.gap, j, i)}) = r - 1]
KnnHits(check) == Cardinality(ToSet(check.got) \cap ToSet(Want(check)))
RankHits(check) == {r \in 1..check.k : Want(check)[r] \in ToSet(check.got)}

\* sample_recall of the lifecycle scripts, toroidal_truth of compare_faiss: the own
\* distance is set to infinity before sorting.
Apart(check) == [check.gap EXCEPT ![check.own] = 1 + Max({check.gap[i] : i \in PointIds(check)})]
SampleTruths(check) == Nearests(Apart(check), PointIds(check), check.k)

\* exact_knn_sample of bench_backends: columns in blocks, the best k kept after each.
BestWith(gap, kept, columns, k) == UNION {Nearests(gap, S \cup columns, k) : S \in kept}
BlockedTruths(check, block) ==
    LET blocks == (check.n - 1) \div block + 1
        columns(b) == {i \in PointIds(check) : i \div block = b - 1}
        best[b \in 0..blocks] ==
            IF b = 0 THEN {{}}
            ELSE BestWith(Apart(check), best[b - 1], columns(b), check.k)
    IN  best[blocks]

\* FlatSim.query, exact_truth, flat_search: a search for k + 1 of which the own id
\* is filtered out, and cut to k.
FlatTruths(check) ==
    UNION {Nearests(check.gap, S \ {check.own}, check.k) :
              S \in Nearests(check.gap, PointIds(check), check.k + 1)}

\* recall_of, _knn_recall and the rest: the shared ids, pads being in no truth.
Hits(check, truth) == Cardinality({i \in ToSet(check.got) : i >= 0} \cap truth)

\* benchmark.recall, radius: the query's own id leaves both sides.
InRadius(check) == {i \in PointIds(check) : check.gap[i] <= check.radius}
RadiusScore(check) ==
    LET want == InRadius(check) \ {check.own}
    IN  <<Cardinality(want \cap (check.near \ {check.own})), Cardinality(want)>>

\* case_crossover_auto, exp_tune_grid and exp_tune_cost: both sides as they come.
AutoRadiusScore(check) ==
    <<Cardinality(check.near \cap InRadius(check)), Cardinality(InRadius(check))>>

-----------------------------------------------------------------------------
\* CorruptIndex: an arm with a window draws from ranks low*k + 1 to high*k.
Windows == {[name |-> "top2k", low |-> 0, high |-> 2],
            [name |-> "rank1-4k", low |-> 1, high |-> 4],
            [name |-> "rank8-16k", low |-> 8, high |-> 16]}
AblationArms == {[name |-> a, low |-> 0, high |-> 1] : a \in {"exact", "ratio2x", "uniform"}} \cup Windows

\* _corrupt ranks the pool, the first high*k, and passes over the first low*k of it.
Rankings(check, arm) ==
    LET first(ranks, ids) == Nearests(Apart(check), ids, check.k * ranks)
    IN  UNION {UNION {{[pool |-> pool, passed |-> passed, truth |-> truth] :
                  truth \in first(1, IF arm.low = 0 THEN pool ELSE passed)} :
                  passed \in first(arm.low, pool)} : pool \in first(arm.high, PointIds(check))}

\* Mutant: the window begins at the top.
Eligible_WindowFromTheTop(check, arm, ranked) ==
    IF arm.name = "exact" THEN ranked.truth ELSE ranked.pool

\* What an arm may draw.
Eligible(check, arm, ranked) ==
    LET kth == Max({check.gap[i] : i \in ranked.truth})
    IN  CASE arm.name = "exact" -> ranked.truth
          [] arm \in Windows -> ranked.pool \ ranked.passed
          [] arm.name = "ratio2x" -> {i \in Others(check) : check.gap[i] <= 2 * kth}
          [] OTHER -> Others(check)

\* The rows _corrupt may return and score, each with the truth it scored it by.
Corrupted(check, arm) ==
    UNION {{[truth |-> ranked.truth, ids |-> ids] :
               ids \in kSubset(Min({check.k, Cardinality(Eligible(check, arm, ranked))}),
                               Eligible(check, arm, ranked))} :
           ranked \in Rankings(check, arm)}

-----------------------------------------------------------------------------
\* Every script's truth is k neighbours as near as exact_knn's, never the querying
\* point, although one excludes it by id, one by an infinite distance, one by
\* asking for one more and filtering, which must survive points that coincide with
\* the query.  So where the k-th distance is not shared all scripts give an answer
\* the same recall.  The radius scores of the crossover cases count the query
\* itself: one more hit in one more.
RecallCountsHits(check) ==
    LET truths == SampleTruths(check) \cup FlatTruths(check)
                  \cup UNION {BlockedTruths(check, block) : block \in 1..check.n}
        best == Nearests(check.gap, Others(check), check.k)
    IN  /\ truths = best /\ ToSet(Want(check)) \in best
        /\ Cardinality(best) = 1 => \A T \in truths : Hits(check, T) = KnnHits(check)
        /\ Cardinality(RankHits(check)) = KnnHits(check)
        /\ check.own \in check.near =>
              AutoRadiusScore(check) = [i \in {1, 2} |-> RadiusScore(check)[i] + 1]

\* bench_recall_ablation.py, "an experiment about selection": whatever is drawn, an
\* arm delivers k neighbours and never the querying point; the control's are as
\* near as any; a window's have as many others as near, and no more that are nearer,
\* as its ranks say; ratio2x stays within twice the k-th distance.  Recall is pinned
\* to 0 by the two windows past the first k, which never hit the truth, and by no
\* other arm: each of the other four may draw all of it.  (With too few points for a window the query itself
\* would be drawn; every shape of the script has enough.)
AblationSound(check, arm) ==
    /\ \A drawn \in Corrupted(check, arm) :
          /\ Cardinality(drawn.ids) = check.k /\ check.own \notin drawn.ids
          /\ arm.name = "exact" => drawn.ids \in Nearests(check.gap, Others(check), check.k)
          /\ arm \in Windows => \A i \in drawn.ids :
                /\ Cardinality({j \in Others(check) : check.gap[j] < check.gap[i]}) < check.k * arm.high
                /\ Cardinality({j \in Others(check) \ {i} : check.gap[j] <= check.gap[i]})
                      >= check.k * arm.low
          /\ arm.low >= 1 => drawn.ids \cap drawn.truth = {}
          /\ arm.name = "ratio2x" =>
                \A i \in drawn.ids : \E j \in drawn.truth : check.gap[i] <= 2 * check.gap[j]
    /\ arm.low = 0 => \E drawn \in Corrupted(check, arm) : drawn.ids = drawn.truth
=============================================================================
