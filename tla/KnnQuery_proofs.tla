--------------------------- MODULE KnnQuery_proofs ---------------------------
(***************************************************************************)
(* What one query returns: who cannot be missing from it, what a widened   *)
(* range reads and how short an answer can get, for every set of points,   *)
(* query, hash and k.                                                      *)
(***************************************************************************)
EXTENDS KnnQuery, RowArrays_proofs

\* The arguments of a query.
InputOK ==
    /\ points \in Seq(Positions) /\ points # <<>>
    /\ query \in Positions
    /\ k \in Nat /\ k >= 1

\* The ids in the query's own bucket in some table.
Mates == {i \in Ids : \E t \in Tables : Key(At(i), t) = Key(query, t)}

\* What is ranked: all bucket mates, and after widening all of the level's
\* ranges, which counted enough, or everybody.
CandOK ==
    /\ cand \subseteq Ids /\ Mates \subseteq cand
    /\ level \in 1..(K - 1) => /\ RawCount(level) >= 4 * k
                               /\ cand = UNION {Widened(t, level) : t \in Tables}
    /\ level = K => cand = Ids

QueryInv ==
    /\ InputOK
    /\ phase \in {"gather", "rank", "widen", "done"}
    /\ level \in 0..K
    /\ phase = "gather" => level = 0
    /\ phase = "widen" => level >= 1
    /\ phase \in {"rank", "done"} => CandOK
    /\ phase = "done" => row = TopK(cand) /\ (level = 0 => ~Short(row))

-----------------------------------------------------------------------------
\* Ids and the points behind them.
LEMMA IdFacts ==
    ASSUME InputOK
    PROVE  /\ Len(points) \in Nat /\ Len(points) >= 1
           /\ IsFiniteSet(Ids) /\ Cardinality(Ids) = Len(points)
           /\ \A i \in Ids : i \in Int /\ At(i) \in Positions /\ Dist(query, At(i)) \in Nat
<1>1. points \in Seq(Positions) /\ points # <<>> /\ query \in Positions
  BY DEF InputOK
<1>2. Len(points) \in Nat /\ Len(points) >= 1 /\ \A i \in 1..Len(points) : points[i] \in Positions
  BY <1>1, EmptySeq, LenProperties, ElementOfSeq
<1>3. Ids = 0..(Len(points) - 1)
  BY DEF Ids
<1>4. IsFiniteSet(Ids) /\ Cardinality(Ids) = Len(points)
  <2> DEFINE n == Len(points) - 1
  <2>1. n \in Int /\ 0 <= n /\ n - 0 + 1 = Len(points)
    BY <1>2
  <2> HIDE DEF n
  <2>2. IsFiniteSet(0..n) /\ Cardinality(0..n) = n - 0 + 1
    BY <2>1, FS_Interval
  <2> QED
    BY <1>3, <2>1, <2>2 DEF n
<1>5. \A i \in Ids : i \in Int /\ At(i) \in Positions
  BY <1>2, <1>3 DEF At
<1>6. \A i \in Ids : Dist(query, At(i)) \in Nat
  BY <1>1, <1>5, DistType
<1> QED
  BY <1>2, <1>4, <1>5, <1>6

Gaps == [i \in Ids |-> Dist(query, At(i))]

\* The order of a row is the generic one, over these distances.
LEMMA NearerIsCloser ==
    ASSUME InputOK, NEW ids \in SUBSET Ids
    PROVE  /\ Rankable(Gaps, ids)
           /\ \A i, j \in Ids : Nearer(i, j) <=> Closer(Gaps, i, j)
           /\ \A i \in ids : Ahead(ids, i) = Cardinality(Passed(Gaps, ids, i))
<1>1. IsFiniteSet(ids)
  BY IdFacts, FS_Subset
<1>2. \A i \in Ids : i \in Int /\ Gaps[i] = Dist(query, At(i)) /\ Gaps[i] \in Int
  BY IdFacts DEF Gaps
<1>3. Rankable(Gaps, ids)
  BY <1>1, <1>2 DEF Rankable
<1>4. \A i, j \in Ids : Nearer(i, j) <=> Closer(Gaps, i, j)
  BY <1>2 DEF Nearer, Closer
<1>5. \A i \in ids : {j \in ids : Nearer(j, i)} = Passed(Gaps, ids, i)
  BY <1>4 DEF Passed
<1> QED
  BY <1>3, <1>4, <1>5 DEF Ahead

\* The first k of some ids: as many as there are up to k, in order, and whoever
\* is left out is behind all of a full row.
LEMMA FirstKFacts ==
    ASSUME InputOK, NEW ids \in SUBSET Ids
    PROVE  LET s == FirstK(ids)
           IN  /\ Cardinality(ids) \in Nat /\ Len(s) \in Nat
               /\ Len(s) = IF k <= Cardinality(ids) THEN k ELSE Cardinality(ids)
               /\ DOMAIN s = 1..Len(s)
               /\ \A a \in 1..Len(s) : s[a] \in ids
               /\ \A a, b \in 1..Len(s) : a < b => Nearer(s[a], s[b])
               /\ \A i \in ids : (\A a \in 1..Len(s) : s[a] # i)
                     => Len(s) = k /\ \A a \in 1..Len(s) : Nearer(s[a], i)
<1> DEFINE c == Cardinality(ids)
           g == Gaps
           size == Min({k, c})
           nth(m) == CHOOSE i \in ids : Ahead(ids, i) = m - 1
           all == [m \in 1..c |-> nth(m)]
           T == {nth(m) : m \in 1..c}
           s == FirstK(ids)
<1>1. Rankable(g, ids) /\ \A i \in ids : Ahead(ids, i) = Cardinality(Passed(g, ids, i))
  BY NearerIsCloser
<1>2. ids \subseteq Ids /\ \A i, j \in Ids : Nearer(i, j) <=> Closer(g, i, j)
  BY NearerIsCloser
<1> HIDE DEF g
<1>3. s = [m \in 1..size |-> nth(m)]
  BY DEF FirstK
<1>4. ASSUME NEW m \in 1..c, NEW i \in ids, Cardinality(Passed(g, ids, i)) = m - 1
      PROVE  nth(m) \in ids /\ Cardinality(Passed(g, ids, nth(m))) = m - 1
  <2>1. \E x \in ids : Ahead(ids, x) = m - 1
    BY <1>1, <1>4
  <2>2. nth(m) \in ids /\ Ahead(ids, nth(m)) = m - 1
    BY <2>1
  <2> HIDE DEF nth
  <2> QED
    BY <1>1, <2>2
<1> HIDE DEF nth
<1>5. all \in [1..Cardinality(ids) -> T] /\ \A m \in 1..Cardinality(ids) : all[m] = nth(m)
  OBVIOUS
<1> HIDE DEF all, T
<1>6. ListsByRank(all, g, ids)
  BY <1>4, <1>5 DEF ListsByRank
<1>7. /\ Cardinality(ids) \in Nat
      /\ all \in [1..Cardinality(ids) -> ids]
      /\ \A i \in ids : \E m \in 1..Cardinality(ids) : all[m] = i
      /\ \A m, n \in 1..Cardinality(ids) : Closer(g, all[m], all[n]) <=> m < n
      /\ \A m, n \in 1..Cardinality(ids) : all[m] = all[n] => m = n
  <2>1. Rankable(g, ids)
    BY <1>1
  <2>2. all \in [1..Cardinality(ids) -> T]
    BY <1>5
  <2>3. /\ Cardinality(ids) \in Nat
        /\ all \in [1..Cardinality(ids) -> ids]
        /\ \A i \in ids : \E n \in 1..Cardinality(ids) : all[n] = i
        /\ \A m, n \in 1..Cardinality(ids) : all[m] = all[n] => m = n
    BY ONLY <2>1, <2>2, <1>6, RankedFacts
  <2>4. \A m, n \in 1..Cardinality(ids) : Closer(g, all[m], all[n]) <=> m < n
    BY ONLY <2>1, <2>2, <1>6, RankedFacts
  <2> QED
    BY ONLY <2>3, <2>4
<1>8. /\ c \in Nat
      /\ all \in [1..c -> ids]
      /\ \A i \in ids : \E m \in 1..c : all[m] = i
      /\ \A m, n \in 1..c : Closer(g, all[m], all[n]) <=> m < n
      /\ \A m \in 1..c : all[m] = nth(m)
      /\ k \in Nat
  BY <1>5, <1>7 DEF InputOK
<1> HIDE DEF c
<1>9. size = IF k <= c THEN k ELSE c
  BY <1>8, LesserOf
<1> HIDE DEF size, s
<1>11. size \in Nat /\ \A m \in 1..size : m \in 1..c
  BY <1>8, <1>9
<1>12. \A m \in 1..size : s[m] = all[m] /\ s[m] \in ids
  BY <1>3, <1>8, <1>11
<1>13. DOMAIN s = 1..size /\ Len(s) = size
  <2>1. s \in [1..size -> ids]
    BY <1>3, <1>12
  <2>2. s \in Seq(ids)
    BY <1>11, <2>1, SeqDef
  <2>3. DOMAIN s = 1..size /\ DOMAIN s = 1..Len(s) /\ Len(s) \in Nat
    BY <2>1, <2>2, LenProperties
  <2> QED
    BY ONLY <1>11, <2>3
<1>14. \A a, b \in 1..size : a < b => Nearer(s[a], s[b])
  BY <1>2, <1>8, <1>11, <1>12
<1>15. ASSUME NEW i \in ids, \A a \in 1..size : s[a] # i
       PROVE  size = k /\ \A a \in 1..size : Nearer(s[a], i)
  <2>1. PICK m \in 1..c : all[m] = i
    BY <1>8
  <2>2. m \notin 1..size
    BY <1>12, <1>15, <2>1
  <2>3. size = k /\ \A a \in 1..size : a < m
    BY <1>8, <1>9, <2>2
  <2>4. \A a \in 1..size : Closer(g, all[a], all[m])
    BY <1>8, <1>11, <2>1, <2>3
  <2> QED
    BY <1>2, <1>12, <2>1, <2>3, <2>4
<1> QED
  BY <1>8, <1>9, <1>11, <1>12, <1>13, <1>14, <1>15 DEF c, s

-----------------------------------------------------------------------------
\* A widened range is the ids that agree with the query on the digits kept.
LEMMA WidenedFacts ==
    ASSUME InputOK, NEW t \in Tables, NEW lev \in 0..K
    PROVE  /\ Widened(t, lev) =
                {i \in Ids : \A j \in (lev + 1)..K : Code(At(i), t, j) = Code(query, t, j)}
           /\ \A i \in Ids : Key(At(i), t) = Key(query, t) => i \in Widened(t, lev)
           /\ lev = K => Widened(t, lev) = Ids
<1> DEFINE lo == (Key(query, t) \div Pw[lev]) * Pw[lev]
<1>1. query \in Positions /\ \A i \in Ids : At(i) \in Positions
  BY IdFacts DEF InputOK
<1>2. Widened(t, lev) = {i \in Ids : Key(At(i), t) \in lo..(lo + Pw[lev] - 1)}
  BY DEF Widened, InRange
<1>3. \A i \in Ids : Key(At(i), t) \in lo..(lo + Pw[lev] - 1)
                        <=> \A j \in (lev + 1)..K : Code(At(i), t, j) = Code(query, t, j)
  BY <1>1, PrefixAgree
<1>4. Key(query, t) \in lo..(lo + Pw[lev] - 1)
  BY <1>1, PrefixAgree
<1> HIDE DEF lo
<1>5. \A i \in Ids : Key(At(i), t) = Key(query, t) => i \in Widened(t, lev)
  BY <1>2, <1>4
<1>6. lev = K => (lev + 1)..K = {}
  BY HashTypes
<1>7. Widened(t, lev) =
         {i \in Ids : \A j \in (lev + 1)..K : Code(At(i), t, j) = Code(query, t, j)}
  BY <1>2, <1>3
<1> QED
  BY <1>5, <1>6, <1>7

\* The sum of n copies of a number.
LEMMA SumOfSame ==
    ASSUME NEW n \in Nat, NEW c \in Nat, NEW f \in [1..n -> Nat], \A i \in 1..n : f[i] <= c
    PROVE  SumTo(f, n) \in Int /\ SumTo(f, n) <= n * c
<1>1. f \in [1..n -> Int]
  OBVIOUS
<1>2. PICK s : Adds(s, f, n) /\ SumTo(f, n) = s[n]
  BY <1>1, SumRuns
<1>3. s \in [0..n -> Int] /\ s[0] = 0 /\ \A i \in 1..n : s[i] = s[i - 1] + f[i]
  BY <1>2 DEF Adds
<1> DEFINE Bad == {m \in 0..n : ~(s[m] <= m * c)}
<1>4. Bad = {}
  <2> SUFFICES ASSUME Bad # {} PROVE FALSE
    OBVIOUS
  <2>1. PICK m \in Bad : \A x \in Bad : m <= x
    <3>1. Bad \in SUBSET Nat
      OBVIOUS
    <3> HIDE DEF Bad
    <3> QED
      BY <3>1, LeastNatural
  <2>2. m # 0
    <3>1. 0 * c = 0
      OBVIOUS
    <3> QED
      BY <1>3, <2>1, <3>1
  <2>3. m - 1 \in 0..n /\ ~(m <= m - 1) /\ m \in 1..n /\ m \in 0..n
    BY <2>2
  <2>4. s[m - 1] <= (m - 1) * c /\ s[m - 1] \in Int /\ s[m] = s[m - 1] + f[m] /\ f[m] <= c /\ f[m] \in Nat
    BY <1>3, <2>1, <2>3
  <2>5. (m - 1) * c + c = m * c /\ (m - 1) * c \in Int
    BY ONLY <2>3, n \in Nat, c \in Nat
  <2>6. s[m] <= m * c
    BY <2>4, <2>5
  <2> QED
    BY <2>1, <2>6
<1>5. n \in 0..n
  OBVIOUS
<1> QED
  BY <1>2, <1>3, <1>4, <1>5

\* What the tables count between them is at most L times the ids they hold.
LEMMA CountedOften ==
    ASSUME InputOK, NEW lev \in 0..K, RawCount(lev) >= 4 * k
    PROVE  LET found == UNION {Widened(t, lev) : t \in Tables}
           IN  /\ IsFiniteSet(found) /\ Cardinality(found) \in Nat
               /\ (4 * k + L - 1) \div L \in Int
               /\ (4 * k + L - 1) \div L <= Cardinality(found)
<1> DEFINE found == UNION {Widened(t, lev) : t \in Tables}
           u == Cardinality(found)
           f == [t \in Tables |-> Cardinality(Widened(t, lev))]
<1>1. L \in Nat /\ L >= 1 /\ Tables = 1..L
  BY HashTypes DEF Tables
<1>2. k \in Nat
  BY DEF InputOK
<1>3. \A t \in Tables : Widened(t, lev) \subseteq Ids
  BY DEF Widened, InRange
<1>4. IsFiniteSet(found) /\ u \in Nat
  <2>1. found \subseteq Ids
    BY <1>3
  <2> QED
    BY <2>1, IdFacts, FS_Subset, FS_CardinalityType
<1>5. \A t \in Tables : Cardinality(Widened(t, lev)) \in Nat /\ Cardinality(Widened(t, lev)) <= u
  <2> TAKE t \in Tables
  <2>1. Widened(t, lev) \subseteq found
    OBVIOUS
  <2> HIDE DEF found
  <2> QED
    BY <1>4, <2>1, FS_Subset, FS_CardinalityType
<1>6. RawCount(lev) = SumTo(f, L)
  BY DEF RawCount
<1> HIDE DEF found, u
<1>7. f \in [1..L -> Nat] /\ \A i \in 1..L : f[i] <= u
  BY <1>1, <1>5
<1> HIDE DEF f
<1>8. SumTo(f, L) \in Int /\ SumTo(f, L) <= L * u
  BY ONLY <1>1, <1>4, <1>7, SumOfSame
<1> DEFINE a == 4 * k + L - 1
           q == a \div L
           r == a % L
<1>9. L * u \in Nat /\ a \in Nat /\ a <= L * u + L - 1
  BY <1>1, <1>2, <1>4, <1>6, <1>8
<1>10. q \in Int /\ r \in 0..(L - 1) /\ a = L * q + r
  <2> HIDE DEF a
  <2> QED
    BY ONLY <1>1, <1>9
<1> HIDE DEF a, q, r
<1>11. q <= u
  <2> SUFFICES ASSUME q >= u + 1 PROVE FALSE
    BY <1>4, <1>10
  <2>1. L * q >= L * (u + 1) /\ L * (u + 1) = L * u + L /\ L * q \in Int
    BY ONLY <1>1, <1>4, <1>10, q >= u + 1
  <2> QED
    BY <1>1, <1>9, <1>10, <2>1
<1> QED
  BY <1>4, <1>10, <1>11 DEF found, u, q, a

-----------------------------------------------------------------------------
\* A step leaves the arguments alone, and what is computed from them.
LEMMA InputStays ==
    ASSUME InputOK, UNCHANGED input
    PROVE  /\ InputOK' /\ Ids' = Ids /\ Mates' = Mates /\ k' = k
           /\ \A t, lev : Widened(t, lev)' = Widened(t, lev)
           /\ \A lev : RawCount(lev)' = RawCount(lev)
           /\ \A ids : TopK(ids)' = TopK(ids)
           /\ \A r : Short(r)' = Short(r)
<1>1. points' = points /\ query' = query /\ k' = k /\ exclude' = exclude
  BY DEF input
<1>2. InputOK' /\ Ids' = Ids
  BY <1>1 DEF InputOK, Ids
<1>3. \A i : At(i)' = At(i)
  BY <1>1 DEF At
<1>4. Mates' = Mates
  BY <1>1, <1>2, <1>3 DEF Mates
<1>5. \A t, lo, width : InRange(t, lo, width)' = InRange(t, lo, width)
  BY <1>2, <1>3 DEF InRange
<1>6. \A t, lev : Widened(t, lev)' = Widened(t, lev)
  BY <1>1, <1>5 DEF Widened
<1>7. \A lev : RawCount(lev)' = RawCount(lev)
  BY <1>6 DEF RawCount
<1>8. \A ids, i : Ahead(ids, i)' = Ahead(ids, i)
  BY <1>1, <1>3 DEF Ahead, Nearer
<1>9. \A ids : TopK(ids)' = TopK(ids)
  BY <1>1, <1>8 DEF TopK, FirstK
<1>10. \A r : Short(r)' = Short(r)
  BY <1>1 DEF Short, Reachable
<1> QED
  BY <1>1, <1>2, <1>4, <1>6, <1>7, <1>9, <1>10

\* Bucket mates are gathered, and nobody from outside the index.
LEMMA GatheredFacts ==
    ASSUME InputOK, NEW digits
    PROVE  Gathered(digits) \subseteq Ids /\ Mates \subseteq Gathered(digits)
<1>1. \A t, lo, width : InRange(t, lo, width) \subseteq Ids
  BY DEF InRange
<1>2. Gathered(digits) \subseteq Ids
  BY <1>1 DEF Gathered
<1>3. ASSUME NEW t \in Tables, NEW i \in Ids, Key(At(i), t) = Key(query, t)
      PROVE  i \in InRange(t, Key(query, t), 1)
  <2>1. Key(query, t) \in Int
    BY KeyType DEF InputOK
  <2> DEFINE key == Key(query, t)
  <2> HIDE DEF key
  <2>2. key \in key..(key + 1 - 1)
    BY <2>1 DEF key
  <2> QED
    BY <1>3, <2>2 DEF InRange, key
<1>4. Mates \subseteq Gathered(digits)
  BY <1>3 DEF Mates, Gathered
<1> QED
  BY <1>2, <1>4

\* So they are at every level of the relaxation.
LEMMA CollectedFacts ==
    ASSUME InputOK, NEW lev \in 0..K, NEW ids,
           ids = (IF lev < K THEN UNION {Widened(t, lev) : t \in Tables} ELSE Widened(1, K))
    PROVE  /\ ids \subseteq Ids /\ Mates \subseteq ids
           /\ lev = K => ids = Ids
<1>1. \A t, n : Widened(t, n) \subseteq Ids
  BY DEF Widened, InRange
<1>2. Mates \subseteq Ids
  BY DEF Mates
<1>3. K \in Nat /\ 1 \in Tables
  BY HashTypes DEF Tables
<1>4. CASE lev < K
  <2>1. \A t \in Tables : \A i \in Ids : Key(At(i), t) = Key(query, t) => i \in Widened(t, lev)
    BY WidenedFacts
  <2>2. Mates \subseteq UNION {Widened(t, lev) : t \in Tables}
    BY <2>1 DEF Mates
  <2> QED
    BY <1>1, <1>3, <1>4, <2>2
<1>5. CASE ~(lev < K)
  <2>1. lev = K
    BY <1>3, <1>5
  <2>2. Widened(1, K) = Ids
    BY <1>3, <2>1, WidenedFacts
  <2> QED
    BY <1>2, <1>3, <1>5, <2>2
<1> QED
  BY <1>4, <1>5

\* A query starts well-formed.
LEMMA QueryInit == Init => QueryInv
<1> SUFFICES ASSUME Init PROVE QueryInv
  OBVIOUS
<1>1. points \in Seq(Positions) /\ points # <<>> /\ query \in Positions
  BY KnnAssumption DEF Init
<1>2. k \in Nat /\ k >= 1
  BY KnnAssumption DEF Init
<1>3. K \in Nat
  BY HashTypes
<1> QED
  BY <1>1, <1>2, <1>3 DEF Init, QueryInv, InputOK

\* Every step of a query keeps the invariant.
LEMMA QueryStep == QueryInv /\ [Next]_vars => QueryInv'
<1> SUFFICES ASSUME QueryInv, [Next]_vars PROVE QueryInv'
  OBVIOUS
<1>1. InputOK /\ level \in 0..K /\ K \in Nat /\ K >= 1
  BY HashTypes DEF QueryInv
<1>2. UNCHANGED input
  BY DEF Next, Gather, Rank, Widen, Collect, vars, input
<1>3. /\ InputOK' /\ Ids' = Ids /\ Mates' = Mates /\ k' = k
      /\ \A t, lev : Widened(t, lev)' = Widened(t, lev)
      /\ \A lev : RawCount(lev)' = RawCount(lev)
      /\ \A ids : TopK(ids)' = TopK(ids)
      /\ \A r : Short(r)' = Short(r)
  BY <1>1, <1>2, InputStays
<1>4. CASE Gather
  <2>1. PICK digits : cand' = Gathered(digits)
    BY <1>4 DEF Gather
  <2>2. phase = "gather" /\ phase' = "rank" /\ level' = level /\ level = 0
    BY <1>4 DEF Gather, QueryInv
  <2>3. cand' \subseteq Ids /\ Mates \subseteq cand'
    BY <1>1, <2>1, GatheredFacts
  <2>4. CandOK'
    BY <1>1, <1>3, <2>2, <2>3 DEF CandOK
  <2> QED
    BY <1>1, <1>3, <2>2, <2>4 DEF QueryInv
<1>5. CASE Rank
  <2>1. /\ phase = "rank" /\ row' = TopK(cand) /\ cand' = cand
        /\ phase' = IF level = 0 /\ Short(row') THEN "widen" ELSE "done"
        /\ level' = IF phase' = "widen" THEN 1 ELSE level
    BY <1>5 DEF Rank
  <2>2. CandOK
    BY <2>1 DEF QueryInv
  <2>3. CASE level = 0 /\ Short(row')
    <3>1. phase' = "widen" /\ level' = 1 /\ 1 \in 0..K
      BY <1>1, <2>1, <2>3
    <3> QED
      BY <1>3, <3>1 DEF QueryInv
  <2>4. CASE ~(level = 0 /\ Short(row'))
    <3>1. phase' = "done" /\ level' = level
      BY <2>1, <2>4
    <3>2. CandOK'
      BY <1>3, <2>1, <2>2, <3>1 DEF CandOK
    <3>3. row' = TopK(cand)'
      BY <1>3, <2>1
    <3>4. level' = 0 => ~Short(row)'
      BY <1>3, <2>4, <3>1
    <3> QED
      BY <1>1, <1>3, <3>1, <3>2, <3>3, <3>4 DEF QueryInv
  <2> QED
    BY <2>3, <2>4
<1>6. CASE Widen
  <2>1. phase = "widen" /\ phase' = "widen" /\ level < K /\ level' = level + 1 /\ level >= 1
    BY <1>6 DEF Widen, QueryInv
  <2>2. level' \in 0..K /\ level' >= 1
    BY <1>1, <2>1
  <2> QED
    BY <1>3, <2>1, <2>2 DEF QueryInv
<1>7. CASE Collect
  <2>1. /\ phase = "widen" /\ phase' = "rank" /\ level' = level /\ level >= 1
        /\ level < K => RawCount(level) >= 4 * k
        /\ cand' = IF level < K THEN UNION {Widened(t, level) : t \in Tables} ELSE Widened(1, K)
    BY <1>7 DEF Collect, QueryInv
  <2>2. /\ cand' \subseteq Ids /\ Mates \subseteq cand'
        /\ level = K => cand' = Ids
    BY <1>1, <2>1, CollectedFacts
  <2>3. level \in 1..(K - 1) => /\ RawCount(level) >= 4 * k
                                /\ cand' = UNION {Widened(t, level) : t \in Tables}
    BY <1>1, <2>1
  <2>4. CandOK'
    BY <1>3, <2>1, <2>2, <2>3 DEF CandOK
  <2> QED
    BY <1>1, <1>3, <2>1, <2>4 DEF QueryInv
<1>8. CASE UNCHANGED vars
  <2>1. phase' = phase /\ level' = level /\ cand' = cand /\ row' = row
    BY <1>8 DEF vars
  <2>2. CandOK => CandOK'
    BY <1>3, <2>1 DEF CandOK
  <2>3. TopK(cand)' = TopK(cand) /\ Short(row)' <=> Short(row)
    BY <1>3, <2>1
  <2> QED
    BY <1>1, <1>3, <2>1, <2>2, <2>3 DEF QueryInv
<1> QED
  BY <1>4, <1>5, <1>6, <1>7, <1>8 DEF Next

\* Along every query the candidates hold the query's bucket mates, the widened
\* levels read what was counted, and an answer is the first of the candidates.
THEOREM QueryHolds == Spec => []QueryInv
BY QueryInit, QueryStep, PTL DEF Spec

-----------------------------------------------------------------------------
\* What the answer was picked from, when there is one.
LEMMA AnswerFacts ==
    ASSUME QueryInv, Done
    PROVE  /\ InputOK /\ CandOK /\ row = FirstK(cand \ {exclude})
           /\ cand \ {exclude} \in SUBSET Ids
           /\ level = 0 => ~Short(row)
BY DEF QueryInv, Done, CandOK, TopK

\* Nobody of the query's own bucket is lost to a point farther away.
THEOREM MatesAnswered == Spec => []BucketMatesRanked
<1>1. QueryInv => BucketMatesRanked
  <2> SUFFICES ASSUME QueryInv, Done, NEW i \in Eligible \ Returned,
                      NEW t \in Tables, Key(At(i), t) = Key(query, t)
               PROVE  Len(row) = k /\ \A j \in Returned : Nearer(j, i)
    BY DEF BucketMatesRanked
  <2> DEFINE ids == cand \ {exclude}
  <2>1. InputOK /\ CandOK /\ row = FirstK(ids) /\ ids \in SUBSET Ids
    BY AnswerFacts
  <2>2. i \in ids
    BY <2>1 DEF CandOK, Mates, Eligible
  <2> HIDE DEF ids
  <2>3. /\ DOMAIN row = 1..Len(row)
        /\ (\A a \in 1..Len(row) : row[a] # i)
              => Len(row) = k /\ \A a \in 1..Len(row) : Nearer(row[a], i)
    BY <2>1, <2>2, FirstKFacts
  <2>4. \A a \in 1..Len(row) : row[a] # i
    BY <2>3 DEF Returned, Range
  <2> QED
    BY <2>3, <2>4 DEF Returned, Range
<1> QED
  BY <1>1, QueryHolds, PTL

\* Every key looked up is within the offset table, and a widened range is the
\* points that agree on the digits kept, all of them when none is.
THEOREM RangesHold == Spec => []PrefixRanges
<1>1. QueryInv => PrefixRanges
  <2> SUFFICES ASSUME QueryInv PROVE PrefixRanges
    OBVIOUS
  <2>1. InputOK /\ query \in Positions /\ level \in 0..K
    BY DEF QueryInv, InputOK
  <2>2. K \in Nat /\ \A j \in Digits : j \in 0..K
    BY HashTypes DEF Digits
  <2>3. \A t \in Tables, j \in Digits : ProbeKey(query, t, j) \in 0..(Pw[K] - 1)
    BY <2>1, ProbeKeyRange
  <2>4. ASSUME NEW t \in Tables, NEW j \in Digits
        PROVE  (Key(query, t) \div Pw[j]) * Pw[j] \in 0..(Pw[K] - Pw[j])
    <3>1. j \in 0..K
      BY <2>2
    <3> QED
      BY ONLY <2>1, <3>1, t \in Tables, PrefixAgree
  <2>5. \A t \in Tables : Widened(t, level) =
           {i \in Ids : \A j \in (level + 1)..K : Code(At(i), t, j) = Code(query, t, j)}
    BY <2>1, WidenedFacts
  <2>6. Done /\ level = K => row = TopK(Ids)
    BY DEF QueryInv, CandOK, Done
  <2> QED
    BY <2>3, <2>4, <2>5, <2>6 DEF PrefixRanges
<1> QED
  BY <1>1, QueryHolds, PTL

\* However the relaxation chose its level, the answer has that many rows.
THEOREM FloorHolds == Spec => []RelaxationFloor
<1>1. QueryInv => RelaxationFloor
  <2> DEFINE distinct == (4 * k + L - 1) \div L
             self == IF exclude = NULL THEN 0 ELSE 1
             least == Min({k, Reachable, distinct - self})
             ids == cand \ {exclude}
             c == Cardinality(ids)
  <2> SUFFICES ASSUME QueryInv, Done PROVE Len(row) >= least
    BY DEF RelaxationFloor
  <2>1. InputOK /\ CandOK /\ row = FirstK(ids) /\ ids \in SUBSET Ids /\ (level = 0 => ~Short(row))
    BY AnswerFacts
  <2>2. k \in Nat /\ Len(points) \in Nat /\ level \in 0..K /\ K \in Nat
    BY <2>1, IdFacts, HashTypes DEF InputOK, QueryInv
  <2>3. self \in {0, 1} /\ Reachable = Len(points) - self
    BY DEF Reachable
  <2>4. distinct \in Int
    <3> DEFINE a == 4 * k + L - 1
    <3>1. L \in Nat /\ L >= 1 /\ a \in Int
      BY <2>2, HashTypes
    <3> HIDE DEF a
    <3>2. a \div L \in Int
      BY <3>1
    <3> QED
      BY <3>2 DEF a
  <2>5. /\ IsFiniteSet(cand) /\ Cardinality(cand) \in Nat
        /\ c \in Nat /\ c >= Cardinality(cand) - self
    <3>1. cand \subseteq Ids
      BY <2>1 DEF CandOK
    <3>2. IsFiniteSet(cand) /\ Cardinality(cand) \in Nat
      BY <2>1, <3>1, IdFacts, FS_Subset, FS_CardinalityType
    <3>3. CASE exclude \in cand
      <4>1. exclude \in Int
        BY <2>1, <3>1, <3>3, IdFacts
      <4>2. self = 1
        BY <4>1, KnnAssumption
      <4>3. c = Cardinality(cand) - 1
        BY <3>2, <3>3, FS_RemoveElement
      <4>4. c \in Nat
        BY <3>2, FS_Subset, FS_CardinalityType
      <4> QED
        BY <3>2, <4>2, <4>3, <4>4
    <3>4. CASE exclude \notin cand
      <4>1. ids = cand
        BY <3>4
      <4> HIDE DEF ids
      <4> QED
        BY <2>3, <3>2, <4>1
    <3> QED
      BY <3>3, <3>4
  <2> HIDE DEF ids, self, distinct
  <2>6. Len(row) \in Nat /\ Len(row) = IF k <= c THEN k ELSE c
    BY <2>1, FirstKFacts
  <2> HIDE DEF c
  <2>7. least \in Int /\ least <= k /\ least <= Reachable /\ least <= distinct - self
    <3> DEFINE X == {k, Reachable, distinct - self}
    <3>1. \A x \in X : x \in Int
      BY <2>2, <2>3, <2>4
    <3>2. IsFiniteSet(X)
      <4>1. IsFiniteSet({k}) /\ IsFiniteSet({Reachable}) /\ IsFiniteSet({distinct - self})
        BY FS_Singleton
      <4>2. IsFiniteSet(({k} \cup {Reachable}) \cup {distinct - self})
        BY <4>1, FS_Union
      <4>3. ({k} \cup {Reachable}) \cup {distinct - self} = X
        OBVIOUS
      <4> QED
        BY <4>2, <4>3
    <3>3. X # {} /\ k \in X /\ Reachable \in X /\ distinct - self \in X
      OBVIOUS
    <3> HIDE DEF X
    <3>4. Min(X) \in X /\ \A y \in X : Min(X) <= y
      BY ONLY <3>1, <3>2, <3>3, Extremes
    <3>5. least = Min(X)
      BY DEF X
    <3> QED
      BY <3>1, <3>3, <3>4, <3>5
  <2> HIDE DEF least
  <2>8. CASE level = 0
    <3>1. Min({k, Reachable}) = IF k <= Reachable THEN k ELSE Reachable
      BY <2>2, <2>3, LesserOf
    <3>2. ~(Len(row) < IF k <= Reachable THEN k ELSE Reachable)
      BY <2>1, <2>8, <3>1 DEF Short
    <3> QED
      BY <2>2, <2>3, <2>6, <2>7, <3>2
  <2>9. CASE level \in 1..(K - 1)
    <3>1. RawCount(level) >= 4 * k /\ cand = UNION {Widened(t, level) : t \in Tables}
      BY <2>1, <2>9 DEF CandOK
    <3>2. distinct <= Cardinality(cand)
      BY <2>1, <2>2, <3>1, CountedOften DEF distinct
    <3> QED
      BY <2>2, <2>3, <2>4, <2>5, <2>6, <2>7, <3>2
  <2>10. CASE level = K
    <3>1. Cardinality(cand) = Len(points)
      BY <2>1, <2>10, IdFacts DEF CandOK
    <3> QED
      BY <2>2, <2>3, <2>5, <2>6, <2>7, <3>1
  <2> QED
    BY <2>2, <2>8, <2>9, <2>10
<1> QED
  BY <1>1, QueryHolds, PTL
=============================================================================
