------------------------------ MODULE Separation ------------------------------
(***************************************************************************)
(* toroidal_separation of metrics.py: the shortest distance from a batch   *)
(* to everything else, read off the reference scan exact_knn, whose first  *)
(* column is taken to be the query itself; and the blocks of rows          *)
(* (_blocks of brute.py) exact_knn and exact_radius work through.          *)
(***************************************************************************)
EXTENDS TorusHash

CONSTANT Budget   \* _BUDGET

ASSUME BudgetAssumption == Budget \in Nat

\* _blocks: the rows of each block.
ScanBlocks(m, n) ==
    LET step == Max({1, Budget \div Max({1, n * Dims})})
    IN  {s..Min({m, s + step - 1}) : s \in {i \in 1..m : (i - 1) % step = 0}}

\* Column `col` of exact_knn, counted from 1: the rows of the blocks are all there is.
KnnColumn(union, batch, col) ==
    LET nearer(x, i, j) == \/ Dist(x, union[i]) < Dist(x, union[j])
                           \/ Dist(x, union[i]) = Dist(x, union[j]) /\ i < j
        at(x) == CHOOSE i \in DOMAIN union :
                     Cardinality({j \in DOMAIN union : nearer(x, j, i)}) = col - 1
    IN  {Dist(batch[r], union[at(batch[r])]) : r \in UNION ScanBlocks(Len(batch), Len(union))}

\* Mutant: one new point is taken for too few although anchors are given.
ToroidalSeparation_NeedsTwo(points, anchors) ==
    IF Len(points) < 2 THEN 0 ELSE Min(KnnColumn(anchors \o points, points, 2))

\* toroidal_separation; anchors <<>> is None or an empty array.
ToroidalSeparation(points, anchors) ==
    IF Len(points) = 0 \/ (anchors = <<>> /\ Len(points) < 2) THEN 0
    ELSE Min(KnnColumn(anchors \o points, points, 2))

-----------------------------------------------------------------------------
\* metrics.py: "the shortest toroidal-L1 distance from any point of `points` to any
\* other point of `anchors + points`", and 0 when there is no such pair.  Taking the
\* second column for the nearest other point stays right when points coincide with
\* each other or with an anchor, and when the rows come in several blocks.
SeparationSound(points, anchors) ==
    LET union == anchors \o points
        pairs == {pq \in (DOMAIN points) \X (DOMAIN union) : pq[2] # Len(anchors) + pq[1]}
        gaps == {Dist(points[pq[1]], union[pq[2]]) : pq \in pairs}
    IN  ToroidalSeparation(points, anchors) = IF gaps = {} THEN 0 ELSE Min(gaps)
=============================================================================
