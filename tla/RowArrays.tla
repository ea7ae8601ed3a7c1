------------------------------ MODULE RowArrays ------------------------------
(***************************************************************************)
(* The batch form of the reference: lsh.py answers a block of queries with *)
(* flat arrays (pairs row * n + id, ranges expanded by cumsum and repeat,  *)
(* ranks scattered into padded rows), and base.py pads CSR rows the same   *)
(* way.  Held against one query at a time, as KnnQuery states it.          *)
(*                                                                         *)
(* Arrays are sequences, their entries numbered from 1; rows and ids count *)
(* from 0 as in the code.  A job is one call against one index: n, static  *)
(* and keys[t], the key of every id in table t; own[q][t] and probed[q][t] *)
(* the query's key and all the keys it looks up; gap[q][i] its distance    *)
(* to id i - 1; k, radius, excludes (<<>> for None) and block.             *)
(***************************************************************************)
EXTENDS TableOps, TorusHash

\* np.repeat, np.cumsum and np.flatnonzero; np.concatenate is FlattenSeq.
Repeated(values, counts) ==
    FlattenSeq([i \in DOMAIN counts |-> [j \in 1..counts[i] |-> values[i]]])
Sums(counts) == [i \in DOMAIN counts |-> SumTo(counts, i)]
Ascending(places) == Ordered(places, Below)

\* np.arange(total) + np.repeat(lo - seg, counts): all positions of all ranges.
Expanded(lo, counts) ==
    LET sums == Sums(counts)
        from == Repeated([i \in DOMAIN lo |-> lo[i] - (sums[i] - counts[i])], counts)
    IN  [i \in DOMAIN from |-> from[i] + i - 1]

\* The sorted arrays of table t, one tier or two.
Tiers2(job, t) ==
    LET static == SortTier(SubSeq(job.keys[t], 1, job.static), 0)
    IN  IF job.static = job.n THEN <<static>>
        ELSE <<static, SortTier(SubSeq(job.keys[t], job.static + 1, job.n), job.static)>>

\* A pair as one number.
PairOf(job, row, id) == row * job.n + id

\* The chunk of pairs of one tier: rows[i] against the keys in [from[i], from[i] + width).
Found1(tier, from, width) == LowerBound(tier, from + width) - LowerBound(tier, from)
Chunk(job, tier, rows, from, width) ==
    LET lo == [i \in DOMAIN from |-> LowerBound(tier, from[i])]
        counts == [i \in DOMAIN from |-> Found1(tier, from[i], width)]
        pos == Expanded(lo, counts)
        of == Repeated(rows, counts)
    IN  [i \in DOMAIN pos |-> PairOf(job, of[i], tier[pos[i] + 1].id)]

Chunks(job, t, rows, from, width) ==
    LET tiers == Tiers2(job, t)
    IN  FlattenSeq([s \in DOMAIN tiers |-> Chunk(job, tiers[s], rows, from, width)])

\* Sorted, neighbours that repeat dropped, decoded into [row, id].
Decoded(job, chunks) ==
    LET pairs == Ascending(Range(FlattenSeq(chunks)))
    IN  [i \in DOMAIN pairs |-> [row |-> pairs[i] \div job.n, id |-> pairs[i] % job.n]]

-----------------------------------------------------------------------------
\* _gather on the queries of one block; its rows count from 0.
GatherPairs(job, queries) ==
    Decoded(job, [t \in Tables |->
        LET keys == [r \in DOMAIN queries |-> job.probed[queries[r]][t]]
            rows == Repeated([r \in DOMAIN queries |-> r - 1], [r \in DOMAIN queries |-> Len(keys[r])])
        IN  Chunks(job, t, rows, FlattenSeq(keys), 1)])

\* Mutant: the rank within a row is counted from the row before.
RankInRow_Shifted(pairs, i) ==
    Cardinality({j \in DOMAIN pairs : j < i /\ pairs[j].row \in {pairs[i].row, pairs[i].row - 1}})

\* np.arange(sq.size) - starts[sq], where starts sums the counts of the rows before.
InRow(pairs, r) == Cardinality({j \in DOMAIN pairs : pairs[j].row = r})
RankInRow(pairs, i) ==
    (i - 1) - SumTo([r \in 1..pairs[i].row |-> InRow(pairs, r - 1)], pairs[i].row)

\* lexsort((cands, dist, qids)).
LexBefore(job, queries, x, y) ==
    LET d(p) == job.gap[queries[p.row + 1]][p.id + 1]
    IN  \/ x.row < y.row
        \/ x.row = y.row /\ d(x) < d(y)
        \/ x.row = y.row /\ d(x) = d(y) /\ x.id < y.id
InRankOrder(job, queries, pairs) ==
    LET all == Range(pairs)
        before(x) == Cardinality({y \in all : LexBefore(job, queries, y, x)})
    IN  [i \in 1..Cardinality(all) |-> CHOOSE x \in all : before(x) = i - 1]

\* exclude_ids of one block of rows, <<>> for None.
Kept1(excludes, pairs) ==
    IF excludes = <<>> THEN pairs
    ELSE Picked(pairs, {i \in DOMAIN pairs : pairs[i].id # excludes[pairs[i].row + 1]})

\* _finish_topk: the rows of the block, empty slots -1.
FinishTopk(job, queries, excludes, pairs) ==
    LET ranked == InRankOrder(job, queries, Kept1(excludes, pairs))
        at(r, c) == {i \in DOMAIN ranked : ranked[i].row = r - 1 /\ RankInRow(ranked, i) = c - 1}
    IN  [r \in 1..Len(queries) |-> [c \in 1..job.k |->
            IF at(r, c) = {} THEN -1 ELSE ranked[CHOOSE i \in at(r, c) : TRUE].id]]

\* lo_key: the first key of the range the query's key widens to.
Floored(job, q, t, lev) == (job.own[q][t] \div Pw[lev]) * Pw[lev]

\* How many entries a query's ranges hold, those of all tables and tiers.
RangeCount(job, q, lev) ==
    SumTo([t \in Tables |->
        LET tiers == Tiers2(job, t)
        IN  SumTo([s \in DOMAIN tiers |-> Found1(tiers[s], Floored(job, q, t, lev), Pw[lev])],
                  Len(tiers))], L)

\* The levels of the short rows, all widened in step.
Levels(job, queries) ==
    LET level[lev \in 0..(K - 1)] ==
            [r \in DOMAIN queries |->
                IF lev = 0 THEN K
                ELSE IF level[lev - 1][r] = K /\ RangeCount(job, queries[r], lev) >= 4 * job.k
                THEN lev ELSE level[lev - 1][r]]
    IN  level[K - 1]

\* One pass per level: its rows in every table, the first alone at the last level.
Pass(job, queries, lev) ==
    LET levels == Levels(job, queries)
        group == Ascending({r \in DOMAIN queries : levels[r] = lev})
    IN  FlattenSeq([t \in 1..(IF lev < K THEN L ELSE 1) |->
            Chunks(job, t, [i \in DOMAIN group |-> group[i] - 1],
                   [i \in DOMAIN group |-> Floored(job, queries[group[i]], t, lev)], Pw[lev])])
RelaxedRows(job, queries, excludes) ==
    FinishTopk(job, queries, excludes, Decoded(job, [lev \in Digits |-> Pass(job, queries, lev)]))

-----------------------------------------------------------------------------
\* Blocks of queries, each with its part of exclude_ids.
Blocks(job) == (Len(job.own) + job.block - 1) \div job.block
StartOf(job, b) == (b - 1) * job.block
BlockLen(job, b) == Min({Len(job.own), StartOf(job, b) + job.block}) - StartOf(job, b)
QueriesOf(job, b) == [r \in 1..BlockLen(job, b) |-> StartOf(job, b) + r]
ExcludesOf(job, queries) ==
    IF job.excludes = <<>> THEN <<>> ELSE [r \in DOMAIN queries |-> job.excludes[queries[r]]]

\* PythonLshIndex.query_knn: the blocks, then every short row of the batch again.
BlockRows(job, b) ==
    FinishTopk(job, QueriesOf(job, b), ExcludesOf(job, QueriesOf(job, b)),
               GatherPairs(job, QueriesOf(job, b)))
Reachable1(job) == job.n - (IF job.excludes = <<>> THEN 0 ELSE 1)
QueryKnn(job) ==
    LET rows == FlattenSeq([b \in 1..Blocks(job) |-> BlockRows(job, b)])
        kk == Min({job.k, Reachable1(job)})
        short == Ascending({q \in DOMAIN rows : kk > 0 /\ rows[q][kk] = -1})
        again == RelaxedRows(job, short, ExcludesOf(job, short))
    IN  [q \in DOMAIN rows |->
            IF q \in Range(short) THEN again[CHOOSE i \in DOMAIN short : short[i] = q] ELSE rows[q]]

\* PythonLshIndex.query_radius: CSR rows, their lengths counted block by block.
HitsOf(job, b) ==
    LET queries == QueriesOf(job, b)
        pairs == Kept1(ExcludesOf(job, queries), GatherPairs(job, queries))
    IN  InRankOrder(job, queries, Picked(pairs,
            {i \in DOMAIN pairs : job.gap[queries[pairs[i].row + 1]][pairs[i].id + 1] <= job.radius}))
QueryRadius(job) ==
    LET counts == FlattenSeq([b \in 1..Blocks(job) |->
                                  [r \in 1..BlockLen(job, b) |-> InRow(HitsOf(job, b), r - 1)]])
        found == FlattenSeq([b \in 1..Blocks(job) |-> HitsOf(job, b)])
    IN  [indptr |-> <<0>> \o Sums(counts), ids |-> [i \in DOMAIN found |-> found[i].id]]

\* csr_to_padded: every entry's row and its place in it, scattered into -1.
CsrToPadded(csr) ==
    LET m == Len(csr.indptr) - 1
        counts == [q \in 1..m |-> csr.indptr[q + 1] - csr.indptr[q]]
        width == Max({1} \cup Range(counts))
        begin == Repeated([q \in 1..m |-> csr.indptr[q]], counts)
        of == Repeated([q \in 1..m |-> q], counts)
        at(q, c) == {i \in DOMAIN csr.ids : of[i] = q /\ i - 1 - begin[i] = c - 1}
    IN  [q \in 1..m |-> [c \in 1..width |->
            IF at(q, c) = {} THEN -1 ELSE csr.ids[CHOOSE i \in at(q, c) : TRUE]]]

-----------------------------------------------------------------------------
\* One query at a time, by sets.
Excluded1(job, q) == IF job.excludes = <<>> THEN -1 ELSE job.excludes[q]
InKeys(job, t, keys) == {i \in 0..(job.n - 1) : job.keys[t][i + 1] \in keys}
Probed1(job, q) == UNION {InKeys(job, t, Range(job.probed[q][t])) : t \in Tables}
Prefix(job, q, t, lev) ==
    InKeys(job, t, Floored(job, q, t, lev)..(Floored(job, q, t, lev) + Pw[lev] - 1))
NearerTo(job, q, i, j) ==
    LET d(x) == job.gap[q][x + 1] IN d(i) < d(j) \/ (d(i) = d(j) /\ i < j)
Nearest1(job, q, ids) ==
    LET others == ids \ {Excluded1(job, q)}
        before(i) == Cardinality({j \in others : NearerTo(job, q, j, i)})
    IN  [c \in 1..Cardinality(others) |-> CHOOSE i \in others : before(i) = c - 1]
Padded1(list, width) == [c \in 1..width |-> IF c <= Len(list) THEN list[c] ELSE -1]

Enough(job, q, lev) == SumTo([t \in Tables |-> Cardinality(Prefix(job, q, t, lev))], L) >= 4 * job.k
Widened1(job, q) ==
    LET lev == Min({l \in 1..(K - 1) : Enough(job, q, l)} \cup {K})
    IN  UNION {Prefix(job, q, t, lev) : t \in IF lev < K THEN Tables ELSE {1}}
KnnAlone(job, q) ==
    LET list == Padded1(Nearest1(job, q, Probed1(job, q)), job.k)
        kk == Min({job.k, Reachable1(job)})
    IN  IF kk > 0 /\ list[kk] = -1 THEN Padded1(Nearest1(job, q, Widened1(job, q)), job.k) ELSE list

RadiusAlone(job, q) ==
    Nearest1(job, q, {i \in Probed1(job, q) : job.gap[q][i + 1] <= job.radius})

\* A batch gets the rows each query gets alone, whatever the block size and which
\* rows of a block came back empty or short: no pair changes its row on the way
\* through the flat arrays, k-NN rows and radius rows end up at their query's place,
\* the padded and the ragged form of a radius answer agree.
RowsSurviveBatching(job) ==
    LET csr == QueryRadius(job)
        padded == CsrToPadded(csr)
    IN  \A q \in DOMAIN job.own :
          /\ QueryKnn(job)[q] = KnnAlone(job, q)
          /\ SubSeq(csr.ids, csr.indptr[q] + 1, csr.indptr[q + 1]) = RadiusAlone(job, q)
          /\ padded[q] = Padded1(RadiusAlone(job, q), Len(padded[q]))
          /\ Len(RadiusAlone(job, q)) <= Len(padded[q])
=============================================================================
