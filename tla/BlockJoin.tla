------------------------------ MODULE BlockJoin ------------------------------
(***************************************************************************)
(* A batch of queries against the compiled index, as query_knn and         *)
(* query_radius of lib.rs answer it: small batches one query at a time,    *)
(* others by a join that loads every bucket a block of queries touches     *)
(* once and scores it against every query that probes it, behind an 8-bit  *)
(* lower bound that is dropped when it stops paying.  A point comes back   *)
(* once per table it shares: the k-NN join keeps a bounded heap (see       *)
(* CandidateHeap), the radius join a list it compacts as it goes.          *)
(***************************************************************************)
EXTENDS TorusHash, Ranking

CONSTANTS Clouds,      \* the indexed point sets tried: sequences of positions
          Batches,     \* the query batches tried beside the self-join
          Ks, Radii,   \* the arguments tried
          BlockSizes,  \* query_block_size: 0 sizes blocks by the workers
          Workers,     \* threads of the pool
          CellWidth,   \* positions per 8-bit cell
          Prefiltered, \* whether d and p admit the prefilter
          BatchMin,    \* BATCH_MIN
          Window,      \* PREFILTER_WINDOW
          DeadRun,     \* PREFILTER_DEAD_RUN
          Slack        \* the 16 of push_hit and of the compaction test

ASSUME JoinAssumption ==
    /\ Clouds \subseteq Seq(Positions) \ {<<>>}
    /\ Batches \subseteq Seq(Positions) \ {<<>>}
    /\ Ks \subseteq Nat \ {0} /\ Radii \subseteq Nat /\ BlockSizes \subseteq Nat
    /\ {Workers, CellWidth, BatchMin, Window, DeadRun, Slack} \subseteq Nat \ {0}
    /\ Grid % CellWidth = 0
    /\ Prefiltered \in BOOLEAN

VARIABLES points, queries,
          selfJoin,  \* exclude_ids is given and query i excludes id i - 1
          kind, arg, \* "knn" with its k, "radius" with its cutoff
          blockSize,
          phase,     \* "call", "score", "emit" or "done"
          first,     \* first query of the block being joined
          table,     \* the table being read
          left,      \* its probed buckets still to be loaded
          heaps,     \* k-NN: the ids each query's heap holds
          hits,      \* radius: each query's hits, repeated as they came
          clean,     \* radius: list lengths at their last compaction
          slots,     \* radius: list capacities
          filter,    \* the prefilter: on or off, and what it was judged on
          rows,      \* the answers, ids nearest first
          relaxed    \* queries handed to the prefix relaxation

call == <<points, queries, selfJoin, kind, arg, blockSize>>
block == <<heaps, hits, clean, slots, filter>>
answer == <<rows, relaxed>>
vars == <<call, phase, first, table, left, block, answer>>

Ids == 0..(Len(points) - 1)
Slots == DOMAIN queries
Excluded(q) == IF selfJoin THEN q - 1 ELSE -1
Gap(q, i) == Dist(queries[q], points[i + 1])

\* hless, the (distance, id) order; rows are ranked by it.
Nearer(q, i, j) == Gap(q, i) < Gap(q, j) \/ (Gap(q, i) = Gap(q, j) /\ i < j)
Ahead(q, ids, i) == Cardinality({j \in ids : Nearer(q, j, i)})
Ranked(q, ids) ==
    [n \in 1..Cardinality(ids) |-> CHOOSE i \in ids : Ahead(q, ids, i) = n - 1]
Nearest(q, ids) == {i \in ids : Ahead(q, ids, i) < arg}

-----------------------------------------------------------------------------
\* probe_keys: the query's own key and those behind its nearest walls, ties to
\* the lowest digit.
Stepped(x, t) ==
    {j \in Digits : Cardinality({i \in Digits :
        \/ Closeness(x, t, i) < Closeness(x, t, j)
        \/ Closeness(x, t, i) = Closeness(x, t, j) /\ i < j}) < Probes}
ProbedKeys(q, t) ==
    {Key(queries[q], t)} \cup {ProbeKey(queries[q], t, j) : j \in Stepped(queries[q], t)}

Bucket(t, key) == {i \in Ids : Key(points[i + 1], t) = key}
Listings(ids) == Bijection(1..Cardinality(ids), ids)

\* gather_query.
Gathered(q) == UNION {UNION {Bucket(t, key) : key \in ProbedKeys(q, t)} : t \in Tables}

\* knn_per_query and the scan of query_radius, one query at a time.
Reachable == Len(points) - (IF selfJoin THEN 1 ELSE 0)
Short(found) == found < Min({arg, Reachable})
ScannedKnn(q) == Ranked(q, Nearest(q, Gathered(q) \ {Excluded(q)}))
ScannedRadius(q) == Ranked(q, {i \in Gathered(q) \ {Excluded(q)} : Gap(q, i) <= arg})

-----------------------------------------------------------------------------
\* code8, in one axis: the cell of a coordinate.
Cell(x, a) == x[a] \div CellWidth

\* Mutant: neighbouring cells count as one cell apart.
CellBound_Tight(q, i) ==
    LET cells == Grid \div CellWidth
        apart(a) == (Cell(queries[q], a) - Cell(points[i + 1], a)) % cells
    IN  SumTo([a \in Axes |-> Min({apart(a), (cells - apart(a)) % cells})], Dims)

\* lb_cells: whole cells between two points, cyclically, summed over the axes.
CellBound(q, i) ==
    LET cells == Grid \div CellWidth
        apart(a) == (Cell(queries[q], a) - Cell(points[i + 1], a)) % cells
    IN  SumTo([a \in Axes |-> Max({Min({apart(a), (cells - apart(a)) % cells}) - 1, 0})], Dims)

\* lb_limit, without the terms that absorb float32 rounding.
Limit(dist) == dist \div CellWidth
RuledOut(q, i, dist) == filter.on /\ CellBound(q, i) > Limit(dist)

\* filter_dead, the share of survivors given as num/5.
Dead(survived, tested, num) == survived * 5 > tested * num

-----------------------------------------------------------------------------
\* block_size and the choice between join and scan.
Batch == Len(queries)
QueriesPerBlock ==
    LET even == (Batch + Workers - 1) \div Workers
    IN  IF blockSize > 0 THEN Min({even, blockSize}) ELSE even
Batched ==
    /\ blockSize # 1
    /\ kind = "knn" => Batch >= BatchMin
    /\ kind = "radius" => QueriesPerBlock >= BatchMin

\* The block that starts at query q.
Joined(q) == q..Min({q + QueriesPerBlock - 1, Batch})
BlockKeys(q, t) == UNION {ProbedKeys(i, t) : i \in Joined(q)}

NewFilter(on) == [on |-> on, survived |-> 0, tested |-> 0, seen |-> <<0, 0>>, dead |-> 0]

Init ==
    /\ points \in Clouds
    /\ selfJoin \in BOOLEAN
    /\ queries \in IF selfJoin THEN {points} ELSE Batches
    /\ kind \in {"knn", "radius"}
    /\ arg \in IF kind = "knn" THEN Ks ELSE Radii
    /\ blockSize \in BlockSizes
    /\ phase = "call"
    /\ first = 1 /\ table = 0 /\ left = {}
    /\ heaps = [q \in Slots |-> {}]
    /\ hits = [q \in Slots |-> <<>>]
    /\ clean = [q \in Slots |-> 0]
    /\ slots = [q \in Slots |-> 0]
    /\ filter = NewFilter(FALSE)
    /\ rows = [q \in Slots |-> <<>>]
    /\ relaxed = {}

\* knn_per_query and the scan of query_radius, on a batch too small to join.
Scan ==
    /\ phase = "call" /\ ~Batched
    /\ rows' = [q \in Slots |-> IF kind = "knn" THEN ScannedKnn(q) ELSE ScannedRadius(q)]
    /\ relaxed' = {q \in Slots : kind = "knn" /\ Short(Len(rows'[q]))}
    /\ phase' = "done"
    /\ UNCHANGED <<call, first, table, left, block>>

\* The buffers of query_block and radius_block for the block that starts at q,
\* in a worker's reused workspace, and the probes of its first table.
OpenBlock(q) ==
    /\ first' = q
    /\ table' = 1
    /\ left' = BlockKeys(q, 1)
    /\ heaps' = [i \in Slots |-> {}]
    /\ hits' = [i \in Slots |-> <<>>]
    /\ clean' = [i \in Slots |-> 0]
    /\ slots' = [i \in Slots |-> 0]
    /\ filter' = NewFilter(Prefiltered /\ (kind = "knn" => Cardinality(Joined(q)) >= BatchMin))
    /\ phase' = "score"

Join ==
    /\ phase = "call" /\ Batched
    /\ OpenBlock(1)
    /\ UNCHANGED <<call, answer>>

-----------------------------------------------------------------------------
\* The offer of one candidate to one query's heap.
Offered(q, heap, i) == IF i = Excluded(q) THEN heap ELSE Nearest(q, heap \cup {i})

\* One candidate of score_tile or score_tile_pruned: ruled out by the distance of
\* the farthest entry, if the heap is full.
Score(q, st, i) ==
    LET judged == filter.on /\ Cardinality(st.heap) = arg
        pruned == judged /\ RuledOut(q, i, Max({Gap(q, j) : j \in st.heap}))
    IN  [heap |-> IF pruned THEN st.heap ELSE Offered(q, st.heap, i),
         tested |-> st.tested + (IF judged THEN 1 ELSE 0),
         survived |-> st.survived + (IF judged /\ ~pruned THEN 1 ELSE 0)]

\* The candidates of a bucket in turn, for one query.
KnnScore(q, bucket) ==
    LET after[n \in 0..Len(bucket)] ==
            IF n = 0 THEN [heap |-> heaps[q], tested |-> 0, survived |-> 0]
            ELSE Score(q, after[n - 1], bucket[n])
    IN  after[Len(bucket)]

\* The look at the prefilter's survival after a bucket.
Judged(f) ==
    LET tested == f.tested - f.seen[2]
        survived == f.survived - f.seen[1]
        dead == IF Dead(survived, tested, 2) THEN f.dead + 1 ELSE 0
    IN  IF f.on /\ tested >= Window
        THEN [f EXCEPT !.on = dead < DeadRun, !.dead = dead, !.seen = <<f.survived, f.tested>>]
        ELSE f

Total(counts) == MapThenSumSet(LAMBDA q : counts[q], DOMAIN counts)

\* One bucket of the table, in the order its tiers hold it, scored against the
\* queries of the block that probe it.
LoadKnn(group, bucket) ==
    LET scored == [q \in group |-> KnnScore(q, bucket)]
    IN  /\ heaps' = [q \in Slots |-> IF q \in group THEN scored[q].heap ELSE heaps[q]]
        /\ filter' = Judged([filter EXCEPT
               !.tested = @ + Total([q \in group |-> scored[q].tested]),
               !.survived = @ + Total([q \in group |-> scored[q].survived])])
        /\ UNCHANGED <<hits, clean, slots>>

\* push_hit: the capacity a list of len has after one more hit.
Pushed(cap, len) == IF len = cap THEN cap + len \div 2 + Slack ELSE cap

\* The capacity of q's list after so many more hits.
Grown(q, more) ==
    LET cap[n \in 0..more] ==
            IF n = 0 THEN slots[q] ELSE Pushed(cap[n - 1], Len(hits[q]) + n - 1)
    IN  cap[more]

\* score_tile_radius and its pruned twin.
LoadRadius(group, bucket) ==
    LET survivors(q) == {n \in DOMAIN bucket : ~RuledOut(q, bucket[n], arg)}
        near(q) == {n \in survivors(q) :
                       Gap(q, bucket[n]) <= arg /\ bucket[n] # Excluded(q)}
    IN  /\ hits' = [q \in Slots |->
               IF q \in group THEN hits[q] \o Picked(bucket, near(q)) ELSE hits[q]]
        /\ slots' = [q \in Slots |->
               IF q \in group THEN Grown(q, Cardinality(near(q))) ELSE slots[q]]
        /\ filter' = [filter EXCEPT
               !.tested = @ + Len(bucket) * Cardinality(group),
               !.survived = @ + IF filter.on
                                THEN Total([q \in group |-> Cardinality(survivors(q))]) ELSE 0]
        /\ UNCHANGED <<heaps, clean>>

Load ==
    /\ phase = "score" /\ left # {}
    /\ left' = left \ {Min(left)}
    /\ LET group == {q \in Joined(first) : Min(left) \in ProbedKeys(q, table)}
       IN  \E bucket \in Listings(Bucket(table, Min(left))) :
             IF bucket = <<>> THEN UNCHANGED block
             ELSE IF kind = "knn" THEN LoadKnn(group, bucket) ELSE LoadRadius(group, bucket)
    /\ UNCHANGED <<call, phase, first, table, answer>>

\* dedup_hits: every id once, in (distance, id) order.
Distinct(q) == Ranked(q, Range(hits[q]))

\* Mutant: a list is compacted when it has doubled.
Overgrown_Doubled(q) == Len(hits[q]) > 2 * clean[q] + Slack

Overgrown(q) == Len(hits[q]) > clean[q] + clean[q] \div 4 + Slack

\* The end of a table: the radius join compacts its lists and judges its filter.
CloseTable ==
    /\ phase = "score" /\ left = {}
    /\ hits' = [q \in Slots |-> IF Overgrown(q) THEN Distinct(q) ELSE hits[q]]
    /\ clean' = [q \in Slots |-> IF Overgrown(q) THEN Len(Distinct(q)) ELSE clean[q]]
    /\ filter' = [filter EXCEPT
           !.on = @ /\ (kind = "radius" => ~Dead(filter.survived, filter.tested, 1))]
    /\ IF table < L THEN /\ table' = table + 1
                         /\ left' = BlockKeys(first, table + 1)
                         /\ UNCHANGED phase
                    ELSE phase' = "emit" /\ UNCHANGED <<table, left>>
    /\ UNCHANGED <<call, first, heaps, slots, answer>>

\* Mutant: lists compacted once are taken for clean.
RadiusRow_AsCompacted(q) == IF clean[q] > 0 THEN hits[q] ELSE Distinct(q)

RadiusRow(q) == Distinct(q)

\* heap_emit, or the deduplicated lists; then the next block.
Emit ==
    /\ phase = "emit"
    /\ rows' = [q \in Slots |-> IF q \notin Joined(first) THEN rows[q]
                               ELSE IF kind = "knn" THEN Ranked(q, heaps[q])
                               ELSE RadiusRow(q)]
    /\ relaxed' = relaxed \cup {q \in Joined(first) : kind = "knn" /\ Short(Cardinality(heaps[q]))}
    /\ LET next == first + QueriesPerBlock
       IN  IF next <= Batch
           THEN OpenBlock(next)
           ELSE phase' = "done" /\ UNCHANGED <<first, table, left, block>>
    /\ UNCHANGED call

Next == Scan \/ Join \/ Load \/ CloseTable \/ Emit

Spec == Init /\ [][Next]_vars

-----------------------------------------------------------------------------
\* A k-NN batch is answered as one query at a time would be, whatever the block
\* size, the order inside buckets and the moment the prefilter is dropped: the
\* same rows, and the same queries found short.
KnnJoinAgrees ==
    phase = "done" /\ kind = "knn" =>
        /\ \A q \in Slots : rows[q] = ScannedKnn(q)
        /\ relaxed = {q \in Slots : Short(Len(ScannedKnn(q)))}

\* So is a radius batch: no hit is lost to the filter or to a compaction, none
\* is left repeated, and all stand in the scan's order.
RadiusJoinAgrees ==
    phase = "done" /\ kind = "radius" => \A q \in Slots : rows[q] = ScannedRadius(q)

\* What bounds the radius join's memory: however many tables a point shares, a
\* list never holds more than 2 1/4 times its distinct ids plus the slack, and
\* never reserves more than half as much again.
HitListsBounded ==
    \A q \in Slots :
        LET most == (9 * Cardinality(Range(hits[q]))) \div 4 + Slack
        IN  Len(hits[q]) <= most /\ 2 * slots[q] <= 3 * most + 2 * Slack
=============================================================================
