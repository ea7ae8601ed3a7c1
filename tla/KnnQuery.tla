------------------------------ MODULE KnnQuery ------------------------------
(***************************************************************************)
(* One query against a built LSH index, as lsh.py answers it and as the    *)
(* per-query path of lib.rs does: gather the probed buckets, rank, and     *)
(* when the row came out short widen key prefixes until enough entries are *)
(* counted.  Tiers and their sorted arrays are the business of the tables  *)
(* modules; here a table maps a key range to the ids that hash into it.    *)
(***************************************************************************)
EXTENDS TorusHash

CONSTANTS Clouds,    \* the indexed point sets tried: sequences of positions
          Queries,   \* the query positions tried
          MaxK,      \* bound on k
          Excludes,  \* exclude_ids entries tried: NULL is no argument at all
          NULL

ASSUME KnnAssumption ==
    /\ Clouds \subseteq Seq(Positions) \ {<<>>}
    /\ Queries \subseteq Positions
    /\ MaxK \in Nat \ {0}
    /\ NULL \notin Int

VARIABLES points,   \* the index
          query,
          k,
          exclude,  \* this query's excluded id, -1 for none, NULL for no argument
          phase,    \* where the query stands
          level,    \* digits dropped by the relaxation
          cand,     \* ids gathered, each once
          row       \* the answer: ids, nearest first

vars == <<points, query, k, exclude, phase, level, cand, row>>
input == <<points, query, k, exclude>>

Ids == 0..(Len(points) - 1)
At(i) == points[i + 1]

-----------------------------------------------------------------------------
\* The (distance, id) order every implementation ranks by.
Nearer(i, j) ==
    LET di == Dist(query, At(i))
        dj == Dist(query, At(j))
    IN  di < dj \/ (di = dj /\ i < j)

Ahead(ids, i) == Cardinality({j \in ids : Nearer(j, i)})

\* The first k of a set of ids, nearest first.
FirstK(ids) ==
    [n \in 1..Min({k, Cardinality(ids)}) |-> CHOOSE i \in ids : Ahead(ids, i) = n - 1]

\* The k nearest of a set of ids, the excluded id left out.
TopK(ids) == FirstK(ids \ {exclude})

\* Ids of table t under keys [lo, lo + width).
InRange(t, lo, width) == {i \in Ids : Key(At(i), t) \in lo..(lo + width - 1)}

\* Mutant: only the stepped buckets are read.
Gathered_NeighboursOnly(digits) ==
    UNION {UNION {InRange(t, ProbeKey(query, t, j), 1) : j \in digits[t]} : t \in Tables}

\* The buckets of one query: its own and the stepped ones.
Gathered(digits) ==
    UNION {InRange(t, Key(query, t), 1)
            \cup UNION {InRange(t, ProbeKey(query, t, j), 1) : j \in digits[t]} : t \in Tables}

\* Mutant: the range starts at the query's own key.
Widened_Unaligned(t, lev) == InRange(t, Key(query, t), Pw[lev])

\* The bucket widened by dropping the low `lev` digits of the key.
Widened(t, lev) ==
    LET width == Pw[lev] IN InRange(t, (Key(query, t) \div width) * width, width)

\* Mutant: counts one level further than is read.
RawCount_NextLevel(lev) ==
    SumTo([t \in Tables |-> Cardinality(Widened(t, lev + 1))], L)

\* Entries counted at a level: a point counts once per table it shares.
RawCount(lev) == SumTo([t \in Tables |-> Cardinality(Widened(t, lev))], L)

\* What the row is checked against before relaxing.
Reachable == Len(points) - (IF exclude = NULL THEN 0 ELSE 1)
Short(r) == Len(r) < Min({k, Reachable})

-----------------------------------------------------------------------------
Init ==
    /\ points \in Clouds
    /\ query \in Queries
    /\ k \in 1..MaxK
    /\ exclude \in {e \in Excludes : e = NULL \/ e < Len(points)}
    /\ phase = "gather"
    /\ level = 0
    /\ cand = {}
    /\ row = <<>>

\* _gather / gather_query.
Gather ==
    /\ phase = "gather"
    /\ \E digits \in [Tables -> UNION {ProbeDigits(query, t) : t \in Tables}] :
          /\ \A t \in Tables : digits[t] \in ProbeDigits(query, t)
          /\ cand' = Gathered(digits)
    /\ phase' = "rank"
    /\ UNCHANGED <<input, level, row>>

\* Mutant: a row the relaxation built is tested again.
Rank_Again ==
    /\ phase = "rank"
    /\ row' = TopK(cand)
    /\ phase' = IF Short(row') THEN "widen" ELSE "done"
    /\ level' = IF phase' = "widen" THEN 1 ELSE level
    /\ UNCHANGED <<input, cand>>

\* _finish_topk / refine_topk, then the test for a short row.
Rank ==
    /\ phase = "rank"
    /\ row' = TopK(cand)
    /\ phase' = IF level = 0 /\ Short(row') THEN "widen" ELSE "done"
    /\ level' = IF phase' = "widen" THEN 1 ELSE level
    /\ UNCHANGED <<input, cand>>

\* One turn of the level loop of _relaxed_query / relax_query: too few, go on.
Widen ==
    /\ phase = "widen"
    /\ level < K
    /\ RawCount(level) < 4 * k
    /\ level' = level + 1
    /\ UNCHANGED <<input, phase, cand, row>>

\* Enough, or the last level, which reads all of the first table instead.
Collect ==
    /\ phase = "widen"
    /\ level < K => RawCount(level) >= 4 * k
    /\ cand' = IF level < K THEN UNION {Widened(t, level) : t \in Tables}
                            ELSE Widened(1, K)
    /\ phase' = "rank"
    /\ UNCHANGED <<input, level, row>>

Next == Gather \/ Rank \/ Widen \/ Collect

\* A query runs to its end in the calling thread: it takes its next step as long
\* as it has one.
Spec == Init /\ [][Next]_vars /\ WF_vars(Next)

-----------------------------------------------------------------------------
Done == phase = "done"
Returned == Range(row)
Eligible == Ids \ {exclude}

\* A point that shares the query's own bucket in some table is never lost to one
\* farther away, although the relaxation throws the gathered set away and starts
\* over from prefixes.
BucketMatesRanked ==
    Done => \A i \in Eligible \ Returned :
        (\E t \in Tables : Key(At(i), t) = Key(query, t))
            => Len(row) = k /\ \A j \in Returned : Nearer(j, i)

\* A widened range is the points that agree with the query on the digits kept:
\* nobody else, however keys wrap or carry.  Every key looked up addresses an offset
\* table of B^K + 1 slots, read at the first key of a range and after its last.  With
\* no digit kept the answer is exact.
PrefixRanges ==
    /\ \A t \in Tables, j \in Digits :
          /\ ProbeKey(query, t, j) \in 0..(Pw[K] - 1)
          /\ (Key(query, t) \div Pw[j]) * Pw[j] \in 0..(Pw[K] - Pw[j])
    /\ level > 0 =>
          \A t \in Tables : Widened(t, level) =
              {i \in Ids : \A j \in (level + 1)..K : Code(At(i), t, j) = Code(query, t, j)}
    /\ Done /\ level = K => row = TopK(Ids)

\* Every query returns: the widening ends, and a row that is short even after it
\* is not widened again.
Answered == <>Done

\* How short an answer can get.  The level is chosen by counting 4k entries, which
\* may be L copies of the same points, one of them the excluded one: up to three
\* tables that still leaves k points, with more it need not.
RelaxationFloor ==
    Done => LET distinct == (4 * k + L - 1) \div L
                self == IF exclude = NULL THEN 0 ELSE 1
            IN  Len(row) >= Min({k, Reachable, distinct - self})

\* README.md: "`k` results are structurally guaranteed".
StructurallyFull == Done => Len(row) >= Min({k, Reachable})

\* wrapper.py, query: "-1 excludes nothing", and "rows are padded with -1 / inf
\* only when fewer than k points exist".
PaddedOnlyWhenFewer == Done /\ exclude = -1 => Len(row) >= Min({k, Len(points)})
=============================================================================
