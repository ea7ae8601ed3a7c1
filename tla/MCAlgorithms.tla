---------------------------- MODULE MCAlgorithms ----------------------------
(***************************************************************************)
(* The algorithms the index rests on, model-checked together.  A behaviour *)
(* runs one of them, the others being at rest: the merge of two tiers, the *)
(* heap of one query, the exact scans of one row, or one task for the      *)
(* stateless algorithms, which is set and then solved.                     *)
(***************************************************************************)
EXTENDS MCMergeLoop, CandidateHeap, ExactScans,
        RowArrays, LaneSums, HitModel, TablePlan, Crossover, Separation, Recall, Workloads

VARIABLE task   \* [kind, solved, ...]: the inputs of one stateless algorithm

AlgorithmVars == <<vars, heapVars, scanVars, task>>

MCCandidates == 0..4

NoTask == [kind |-> "none", solved |-> FALSE]

HeapAtRest ==
    /\ dist = [id \in Candidates |-> 0]
    /\ h = <<>> /\ sift = "emitted" /\ at = 0 /\ offered = {}
MergeAtRest == fresh = <<>> /\ kept = <<>> /\ a = 0 /\ b = 0 /\ out = <<>>
ScansAtRest ==
    /\ row = <<0>> /\ excluded = -1 /\ asked = 1 /\ cutoff = 0
    /\ answered = {"exact_knn", "brute_knn", "exact_radius", "brute_radius"}
    /\ pyKnn = <<>> /\ rsKnn = <<>> /\ pyRadius = <<>> /\ rsRadius = <<>>

-----------------------------------------------------------------------------
\* RowArrays: four points on a circle, two of them at one place; batches of two; on a tie
\* any of the digits nearest a wall are stepped.
CircleAxes == [t \in Tables |-> [j \in Digits |-> 1]]
CircleOffsets == [t \in Tables |-> [j \in Digits |-> (t + j) % Grid]]
On(x) == [axis \in Axes |-> x]

RowJob(cloud, static, batch, steps, k, radius, excludes, block) ==
    [n |-> Len(cloud), static |-> static,
     keys |-> [t \in Tables |-> [i \in DOMAIN cloud |-> Key(cloud[i], t)]],
     own |-> [q \in DOMAIN batch |-> [t \in Tables |-> Key(batch[q], t)]],
     probed |-> [q \in DOMAIN batch |-> [t \in Tables |->
                    <<Key(batch[q], t)>> \o Ascending({ProbeKey(batch[q], t, j) : j \in steps[q][t]})]],
     gap |-> [q \in DOMAIN batch |-> [i \in DOMAIN cloud |-> Dist(batch[q], cloud[i])]],
     k |-> k, radius |-> radius, excludes |-> excludes, block |-> block]

RowTask ==
    \E x \in 0..(Grid - 1), static \in {1, 4}, q \in {0, Grid \div 2}, block \in 1..2 :
    \E y \in x..(Grid - 1), k \in 1..2, excludes \in {<<>>, <<0, 1>>, <<-1, 2>>},
       steps \in [1..2 -> [Tables -> SUBSET Digits]] :
        /\ \A t \in Tables : /\ steps[1][t] \in ProbeDigits(On(q), t)
                             /\ steps[2][t] \in ProbeDigits(On(Grid - 1), t)
        /\ task = [kind |-> "rows", solved |-> FALSE,
                   job |-> RowJob(<<On(0), On(x), On(y), On(y)>>, static, <<On(q), On(Grid - 1)>>,
                                  steps, k, k - 1, excludes, block)]

\* Separation: designs of up to three points, with up to two anchors.
SeparationTask ==
    \E points \in UNION {[1..n -> 0..(Grid - 1)] : n \in 0..3},
       anchors \in UNION {[1..n -> 0..(Grid - 1)] : n \in 0..2} :
        task = [kind |-> "separation", solved |-> FALSE,
                points |-> [i \in DOMAIN points |-> On(points[i])],
                anchors |-> [i \in DOMAIN anchors |-> On(anchors[i])]]

\* LaneSums: every number of axes to past two rounds, in four metrics.
LaneTask ==
    \E d \in 1..34, p \in {"1", "3/4", "1/2", "1/4"} :
        task = [kind |-> "lanes", solved |-> FALSE, d |-> d, p |-> p]

\* HitModel: pairs that differ in two axes, by up to half the torus.
HitTask ==
    \E cells \in 2..4 : \E one, two \in {2 * i : i \in 0..(cells * Walls)} :
        task = [kind |-> "hits", solved |-> FALSE, gaps |-> <<one, two>>, cells |-> cells]

\* TablePlan: what a table finds grows with its probes and with every digit dropped.
Grows(f) == \A m \in 1..(Cardinality(DOMAIN f) - 1) : f[m - 1] <= f[m]
HitsOfDepth == {f \in [0..DeepProbes -> 0..Parts] : Grows(f)}
PlanTask ==
    \E shallow, deep \in HitsOfDepth : \E goal \in {32, 52, 60}, depth \in 1..2, pinned, any \in BOOLEAN :
    \E probes \in {AutoProbes, 1} :
        /\ \A m \in 0..DeepProbes : deep[m] <= shallow[m]
        /\ task = [kind |-> "plan", solved |-> FALSE,
                   job |-> [depth |-> depth, pinned |-> pinned, probes |-> probes,
                            anyRecall |-> any, goal |-> goal,
                            hit |-> IF depth = 1 THEN <<deep>> ELSE <<shallow, deep>>]]

\* Crossover: the table of the code in units of 256 points, thresholds around the sizes.
MCBands ==
    [knn |-> [lp \in BOOLEAN |-> IF lp THEN <<<<16, 2>>, <<64, 4>>, <<1000, 32>>>>
                                 ELSE <<<<4, 2>>, <<32, 8>>, <<64, 32>>, <<1000, 256>>>>],
     radius |-> [lp \in BOOLEAN |-> IF lp THEN <<<<1000, 2>>>>
                                    ELSE <<<<4, 4>>, <<16, 8>>, <<64, 2>>, <<1000, 256>>>>]]
Machines == [x86 : BOOLEAN, probe : {"avx2", "no avx2", "unreadable"}, wheel : BOOLEAN]
RouteTask ==
    \E machine \in Machines, backend \in {"auto", "python", "rust"}, n \in {2, 5, 8} :
    \E knnWins, radiusWins \in SUBSET ToSet(Sizes(n)), lp \in BOOLEAN, both \in {Unset, 0, 4} :
        \* A backend that is not installed cannot be constructed for.
        /\ LshClass(machine, backend) # "ImportError"
        /\ radiusWins \in {knnWins, ToSet(Sizes(n)) \ knnWins}
        /\ task = [kind |-> "route", solved |-> FALSE, machine |-> machine, n |-> n,
                   nn |-> [backend |-> backend, knn |-> Unset, radius |-> Unset,
                           both |-> both, d |-> 16, lp |-> lp],
                   wins |-> [knn |-> knnWins, radius |-> radiusWins]]

\* Recall: five points, any of them the query, whose distances may coincide.
CheckTask ==
    \E n \in 3..5, k \in 1..2, radius \in 0..1 : \E own \in {0, 2}, got \in SUBSET (0..(n - 1)) :
    \E gap \in [0..(n - 1) -> 0..2] :
        /\ gap[own] = 0 /\ own \notin got /\ Cardinality(got) <= k
        /\ task = [kind |-> "recall", solved |-> FALSE,
                   check |-> [n |-> n, own |-> own, gap |-> gap, k |-> k, radius |-> radius,
                              got |-> Ordered(got, <) \o [i \in 1..(k - Cardinality(got)) |-> -1],
                              near |-> got \cup {own}]]

\* The ablation's arms, where the points are enough for the arm's ranks: five points, or
\* eighteen in groups that coincide.
ArmGaps(arm) ==
    IF arm.high <= 4 THEN {gap \in [0..4 -> 0..2] : gap[0] = 0}
    ELSE {[i \in 0..17 |-> i \div group] : group \in {1, 2, 3, 5}}
AblationTask ==
    \E arm \in AblationArms, k \in 1..2 : \E gap \in ArmGaps(arm) :
        LET n == IF arm.high <= 4 THEN 5 ELSE 18
        IN  /\ k * arm.high < n
            /\ task = [kind |-> "ablation", solved |-> FALSE, arm |-> arm,
                       check |-> [n |-> n, own |-> 0, gap |-> gap, k |-> k]]

\* Workloads: every driver, on every system its script runs.
DriverTask ==
    \E driver \in Drivers, n \in 0..2, size \in 1..2, epochs \in 1..2, batches \in 1..2 :
    \E system \in SystemsOf(driver) :
        task = [kind |-> "driver", solved |-> FALSE,
                job |-> [driver |-> driver, system |-> system, a |-> n, b |-> size,
                         epochs |-> epochs, batches |-> batches]]

-----------------------------------------------------------------------------
AlgorithmInit ==
    \/ Init /\ HeapAtRest /\ ScansAtRest /\ task = NoTask
    \/ MergeAtRest /\ HeapInit /\ ScansAtRest /\ task = NoTask
    \/ MergeAtRest /\ HeapAtRest /\ ScanInit /\ task = NoTask
    \/ /\ MergeAtRest /\ HeapAtRest /\ ScansAtRest
       /\ \/ RowTask \/ SeparationTask \/ LaneTask \/ HitTask \/ PlanTask \/ RouteTask
          \/ CheckTask \/ AblationTask \/ DriverTask

Solve ==
    /\ task.kind # "none" /\ ~task.solved
    /\ task' = [task EXCEPT !.solved = TRUE]
    /\ UNCHANGED <<vars, heapVars, scanVars>>

AlgorithmNext ==
    \/ Next /\ UNCHANGED <<heapVars, scanVars, task>>
    \/ HeapNext /\ UNCHANGED <<vars, scanVars, task>>
    \/ ScanNext /\ UNCHANGED <<vars, heapVars, task>>
    \/ Solve

AlgorithmSpec == AlgorithmInit /\ [][AlgorithmNext]_AlgorithmVars

Solved(kind) == task.kind = kind /\ task.solved

\* RowsSurviveBatching, of every batch tried.
RowsKeepTheirPlace == Solved("rows") => RowsSurviveBatching(task.job)

\* SeparationSound, of every design and set of anchors tried.
SeparationIsMaximin == Solved("separation") => SeparationSound(task.points, task.anchors)

\* SumsInNumpyOrder, of every number of axes and metric tried.
LanesAddInOrder == Solved("lanes") => SumsInNumpyOrder(task.d, task.p)

\* HitRateSound, of every pair of gaps tried.
HitRatesCount == Solved("hits") => HitRateSound(task.gaps, task.cells)

\* PlanSound, of every job tried.
PlansMeetGoals == Solved("plan") => PlanSound(task.job)

\* RoutedAsMeasured, of every machine, object and outcome of measurement tried.
ThresholdsRoute == Solved("route") => RoutedAsMeasured(task.machine, task.nn, task.n, task.wins)

\* RecallCountsHits, of every check tried.
RecallsAgree == Solved("recall") => RecallCountsHits(task.check)

\* AblationSound, of every arm and check tried.
ArmsCorruptAsNamed == Solved("ablation") => AblationSound(task.check, task.arm)

\* DriversMeetTheIndex, of every driver, system and size tried.
DriversKeepTheirPicture == Solved("driver") => DriversMeetTheIndex(task.job)
=============================================================================
