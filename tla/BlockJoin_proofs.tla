-------------------------- MODULE BlockJoin_proofs --------------------------
(***************************************************************************)
(* The block join answers as one query at a time, for every set of points, *)
(* batch, block size and number of tables, and whatever its prefilter is   *)
(* doing; and what bounds the lists of the radius join.                    *)
(***************************************************************************)
EXTENDS BlockJoin, RowArrays_proofs

\* The arguments of a call.
CallOK ==
    /\ points \in Seq(Positions) /\ points # <<>>
    /\ queries \in Seq(Positions) /\ queries # <<>>
    /\ selfJoin \in BOOLEAN
    /\ kind \in {"knn", "radius"}
    /\ arg \in Nat /\ (kind = "knn" => arg # 0)
    /\ blockSize \in Nat

Buffers ==
    /\ heaps \in [Slots -> SUBSET Ids]
    /\ hits \in [Slots -> Seq(Ids)]
    /\ clean \in [Slots -> Nat]
    /\ slots \in [Slots -> Nat]

Open == phase \in {"score", "emit"}

\* Where the join stands: no bucket is left that the block does not probe, and
\* none at all once the last table is read.
Place ==
    /\ phase \in {"call", "score", "emit", "done"}
    /\ first \in Slots
    /\ Open => table \in Tables /\ left \subseteq BlockKeys(first, table)
    /\ phase = "emit" => table = L /\ left = {}

\* The ids that stand in a bucket that q probes and the join has loaded.
Read(q, i, t) ==
    /\ Key(points[i + 1], t) \in ProbedKeys(q, t)
    /\ t < table \/ (t = table /\ Key(points[i + 1], t) \notin left)
Seen(q) == {i \in Ids : \E t \in Tables : Read(q, i, t)}
Wanted(q) == Seen(q) \ {Excluded(q)}

\* The heaps hold the nearest of what was read, the lists all hits among it.
Held ==
    Open => \A q \in Joined(first) :
        /\ kind = "knn" => heaps[q] = Nearest(q, Wanted(q))
        /\ kind = "radius" => Range(hits[q]) = {i \in Wanted(q) : Gap(q, i) <= arg}

Scanned(q) == IF kind = "knn" THEN ScannedKnn(q) ELSE ScannedRadius(q)
ScannedShort(q) == kind = "knn" /\ Short(Len(ScannedKnn(q)))

\* Queries of closed blocks are answered.
Closed(q) == phase = "done" \/ (Open /\ q < first)
AnswersOK ==
    /\ \A q \in Slots : Closed(q) => rows[q] = Scanned(q)
    /\ relaxed = {q \in Slots : Closed(q) /\ ScannedShort(q)}

\* A list is at most what its last compaction left to grow, and ids that this
\* table added, each of them once.
Trigger(c) == c + c \div 4 + Slack
Fresh(list, b) ==
    /\ \A m, n \in (b + 1)..Len(list) : list[m] = list[n] => m = n
    /\ \A n \in (b + 1)..Len(list) : Key(points[list[n] + 1], table) \notin left
Most(list) == (9 * Cardinality(Range(list))) \div 4 + Slack
ListOK(q) ==
    /\ clean[q] <= Cardinality(Range(hits[q]))
    /\ \E b \in 0..Len(hits[q]) : b <= Trigger(clean[q]) /\ Fresh(hits[q], b)
    /\ 2 * slots[q] <= 3 * Most(hits[q]) + 2 * Slack
ListsOK == \A q \in Slots : ListOK(q)

JoinInv == CallOK /\ Buffers /\ Place /\ Held /\ AnswersOK /\ ListsOK

-----------------------------------------------------------------------------
\* Ids, slots, and the points behind them.
LEMMA CallFacts ==
    ASSUME CallOK
    PROVE  /\ Len(points) \in Nat /\ Len(points) >= 1 /\ IsFiniteSet(Ids)
           /\ \A i \in Ids : i \in Int /\ points[i + 1] \in Positions
           /\ Batch \in Nat /\ Batch >= 1 /\ Slots = 1..Batch
           /\ \A q \in Slots : q \in Int /\ queries[q] \in Positions
           /\ \A q \in Slots, i \in Ids : Gap(q, i) \in Nat
<1>1. points \in Seq(Positions) /\ queries \in Seq(Positions) /\ points # <<>> /\ queries # <<>>
  BY DEF CallOK
<1>2. Len(points) \in Nat /\ Len(points) >= 1 /\ \A i \in 1..Len(points) : points[i] \in Positions
  BY <1>1, EmptySeq, LenProperties, ElementOfSeq
<1>3. Len(queries) \in Nat /\ Len(queries) >= 1 /\ DOMAIN queries = 1..Len(queries)
      /\ \A i \in 1..Len(queries) : queries[i] \in Positions
  BY <1>1, EmptySeq, LenProperties, ElementOfSeq
<1>4. Ids = 0..(Len(points) - 1)
  BY DEF Ids
<1>5. IsFiniteSet(Ids)
  BY <1>2, <1>4, FS_Interval
<1>6. \A i \in Ids : i \in Int /\ points[i + 1] \in Positions
  BY <1>2, <1>4
<1>7. \A q \in Slots : q \in Int /\ queries[q] \in Positions
  BY <1>3 DEF Slots
<1>8. \A q \in Slots, i \in Ids : Gap(q, i) \in Nat
  BY <1>6, <1>7, DistType DEF Gap
<1> QED
  BY <1>2, <1>3, <1>5, <1>6, <1>7, <1>8 DEF Batch, Slots

\* The size of a block, and the queries of one.
LEMMA BlockFacts ==
    ASSUME CallOK
    PROVE  /\ QueriesPerBlock \in Nat /\ QueriesPerBlock >= 1
           /\ \A q \in Slots : \A i : i \in Joined(q) <=>
                 i \in Slots /\ q <= i /\ i < q + QueriesPerBlock
<1>1. Batch \in Nat /\ Batch >= 1 /\ Slots = 1..Batch
  BY CallFacts
<1>2. Workers \in Nat /\ Workers >= 1 /\ blockSize \in Nat
  BY JoinAssumption DEF CallOK
<1> DEFINE even == (Batch + Workers - 1) \div Workers
<1>3. even \in Nat /\ even >= 1
  <2> DEFINE a == Batch + Workers - 1
             c == a \div Workers
             r == a % Workers
  <2>1. a \in Nat /\ a >= Workers
    BY <1>1, <1>2
  <2> HIDE DEF a
  <2>2. c \in Int /\ r \in 0..(Workers - 1) /\ a = Workers * c + r
    BY <1>2, <2>1
  <2> HIDE DEF c, r
  <2>3. c >= 1
    <3> SUFFICES ASSUME c <= 0 PROVE FALSE
      BY <2>2
    <3>1. Workers * c <= 0
      BY <1>2, <2>2
    <3> QED
      BY <1>2, <2>1, <2>2, <3>1
  <2> QED
    BY <2>2, <2>3 DEF a, c
<1>4. QueriesPerBlock = IF blockSize > 0 THEN Min({even, blockSize}) ELSE even
  BY DEF QueriesPerBlock
<1> HIDE DEF even
<1>5. Min({even, blockSize}) = IF even <= blockSize THEN even ELSE blockSize
  BY <1>2, <1>3, LesserOf
<1>6. QueriesPerBlock \in Nat /\ QueriesPerBlock >= 1
  BY <1>2, <1>3, <1>4, <1>5
<1>7. ASSUME NEW q \in Slots, NEW i PROVE
         i \in Joined(q) <=> i \in Slots /\ q <= i /\ i < q + QueriesPerBlock
  <2> DEFINE e == q + QueriesPerBlock - 1
  <2>1. e \in Int /\ q \in Int
    BY <1>1, <1>6
  <2>2. Min({e, Batch}) = IF e <= Batch THEN e ELSE Batch
    BY <1>1, <2>1, LesserOf
  <2>3. Joined(q) = q..Min({e, Batch})
    BY DEF Joined
  <2> QED
    BY <1>1, <1>6, <2>1, <2>2, <2>3
<1> QED
  BY <1>6, <1>7

\* The keys a block probes are finitely many numbers.
LEMMA ProbedFacts ==
    ASSUME CallOK, NEW t \in Tables
    PROVE  /\ \A q \in Slots : \A key \in ProbedKeys(q, t) : key \in Int
           /\ \A q \in Slots : /\ IsFiniteSet(BlockKeys(q, t))
                               /\ \A key \in BlockKeys(q, t) : key \in Int
                               /\ \A i \in Joined(q) : ProbedKeys(i, t) \subseteq BlockKeys(q, t)
<1>1. ASSUME NEW q \in Slots PROVE IsFiniteSet(ProbedKeys(q, t)) /\ \A key \in ProbedKeys(q, t) : key \in Int
  <2> DEFINE steps == Stepped(queries[q], t)
             behind == {ProbeKey(queries[q], t, j) : j \in steps}
             own == Key(queries[q], t)
  <2>1. queries[q] \in Positions
    BY CallFacts
  <2>2. steps \subseteq Digits
    BY DEF Stepped
  <2>3. own \in Int /\ \A j \in steps : ProbeKey(queries[q], t, j) \in Int
    BY <2>1, <2>2, KeyType
  <2>4. IsFiniteSet(steps)
    <3>1. IsFiniteSet(Digits)
      BY HashTypes, FS_Interval DEF Digits
    <3> QED
      BY <2>2, <3>1, FS_Subset
  <2> HIDE DEF steps
  <2>5. IsFiniteSet(behind)
    <3> DEFINE f == [j \in steps |-> ProbeKey(queries[q], t, j)]
    <3>1. f \in Surjection(steps, behind)
      BY DEF Surjection
    <3> HIDE DEF f, behind
    <3> QED
      BY <2>4, <3>1, FS_Surjection
  <2>6. \A key \in behind : key \in Int
    BY <2>3
  <2>7. ProbedKeys(q, t) = behind \cup {own}
    BY DEF ProbedKeys, steps
  <2> HIDE DEF behind, own
  <2>8. IsFiniteSet(behind \cup {own})
    BY <2>5, FS_AddElement
  <2> QED
    BY <2>3, <2>6, <2>7, <2>8
<1>2. ASSUME NEW q \in Slots PROVE
         /\ IsFiniteSet(BlockKeys(q, t))
         /\ \A key \in BlockKeys(q, t) : key \in Int
         /\ \A i \in Joined(q) : ProbedKeys(i, t) \subseteq BlockKeys(q, t)
  <2> DEFINE group == Joined(q)
             parts == {ProbedKeys(i, t) : i \in group}
  <2>1. group \subseteq Slots
    BY BlockFacts
  <2>2. IsFiniteSet(group)
    <3>1. Slots = 1..Batch /\ Batch \in Nat
      BY CallFacts
    <3>2. IsFiniteSet(Slots)
      BY <3>1, FS_Interval
    <3> QED
      BY <2>1, <3>2, FS_Subset
  <2>3. BlockKeys(q, t) = UNION parts
    BY DEF BlockKeys
  <2> HIDE DEF group
  <2>4. IsFiniteSet(parts)
    <3> DEFINE f == [i \in group |-> ProbedKeys(i, t)]
    <3>1. f \in Surjection(group, parts)
      BY DEF Surjection
    <3> HIDE DEF f, parts
    <3> QED
      BY <2>2, <3>1, FS_Surjection
  <2>5. \A part \in parts : IsFiniteSet(part) /\ \A key \in part : key \in Int
    BY <1>1, <2>1
  <2>6. \A i \in group : ProbedKeys(i, t) \subseteq UNION parts
    OBVIOUS
  <2> HIDE DEF parts
  <2>7. IsFiniteSet(UNION parts)
    BY <2>4, <2>5, FS_UNION
  <2>8. \A key \in UNION parts : key \in Int
    BY <2>5
  <2> QED
    BY <2>3, <2>6, <2>7, <2>8 DEF group
<1> QED
  BY <1>1, <1>2

-----------------------------------------------------------------------------
\* Distances of a query, as a function of ids.
GapsOf(q) == [i \in Ids |-> Gap(q, i)]

\* Nearest ranks by distance and id.
LEMMA NearestIsTop ==
    ASSUME CallOK, NEW q \in Slots, NEW ids \in SUBSET Ids
    PROVE  /\ Rankable(GapsOf(q), ids)
           /\ Nearest(q, ids) = TopOf(GapsOf(q), ids, arg)
           /\ \A i \in Ids : {j \in ids : Nearer(q, j, i)} = Passed(GapsOf(q), ids, i)
<1>1. IsFiniteSet(ids)
  BY CallFacts, FS_Subset
<1>2. \A i \in Ids : i \in Int /\ GapsOf(q)[i] = Gap(q, i) /\ GapsOf(q)[i] \in Int
  BY CallFacts DEF GapsOf
<1>3. Rankable(GapsOf(q), ids)
  BY <1>1, <1>2 DEF Rankable
<1>4. \A i, j \in Ids : Nearer(q, j, i) <=> Closer(GapsOf(q), j, i)
  BY <1>2 DEF Nearer, Closer
<1>5. \A i \in Ids : {j \in ids : Nearer(q, j, i)} = Passed(GapsOf(q), ids, i)
  BY <1>4 DEF Passed
<1>6. \A i \in ids : Ahead(q, ids, i) = Cardinality(Passed(GapsOf(q), ids, i))
  BY <1>5 DEF Ahead
<1>7. Nearest(q, ids) = TopOf(GapsOf(q), ids, arg)
  BY <1>6 DEF Nearest, TopOf
<1> QED
  BY <1>3, <1>5, <1>7

\* A ranked row lists its ids, each once.
LEMMA RankedRow ==
    ASSUME CallOK, NEW q \in Slots, NEW ids \in SUBSET Ids
    PROVE  /\ Cardinality(ids) \in Nat
           /\ Ranked(q, ids) \in Seq(Ids)
           /\ Len(Ranked(q, ids)) = Cardinality(ids)
           /\ Range(Ranked(q, ids)) = ids
           /\ \A m, n \in 1..Len(Ranked(q, ids)) : Ranked(q, ids)[m] = Ranked(q, ids)[n] => m = n
<1> DEFINE g == GapsOf(q)
           nth(n) == CHOOSE i \in ids : Ahead(q, ids, i) = n - 1
           s == [n \in 1..Cardinality(ids) |-> nth(n)]
           T == {nth(n) : n \in 1..Cardinality(ids)}
<1>1. Rankable(g, ids) /\ \A i \in ids : Ahead(q, ids, i) = Cardinality(Passed(g, ids, i))
  BY NearestIsTop DEF Ahead
<1> HIDE DEF g
<1>2. Ranked(q, ids) = s
  BY DEF Ranked
<1>3. ASSUME NEW n \in 1..Cardinality(ids), NEW i \in ids, Cardinality(Passed(g, ids, i)) = n - 1
      PROVE  nth(n) \in ids /\ Cardinality(Passed(g, ids, nth(n))) = n - 1
  <2>1. \E x \in ids : Ahead(q, ids, x) = n - 1
    BY <1>1, <1>3
  <2>2. nth(n) \in ids /\ Ahead(q, ids, nth(n)) = n - 1
    BY <2>1
  <2> HIDE DEF nth
  <2> QED
    BY <1>1, <2>2
<1> HIDE DEF nth
<1>4. s \in [1..Cardinality(ids) -> T] /\ \A n \in 1..Cardinality(ids) : s[n] = nth(n)
  OBVIOUS
<1> HIDE DEF s, T
<1>5. ListsByRank(s, g, ids)
  BY <1>3, <1>4 DEF ListsByRank
<1>6. /\ Cardinality(ids) \in Nat
      /\ s \in [1..Cardinality(ids) -> ids]
      /\ \A i \in ids : \E n \in 1..Cardinality(ids) : s[n] = i
      /\ \A m, n \in 1..Cardinality(ids) : s[m] = s[n] => m = n
  <2>1. Rankable(g, ids)
    BY <1>1
  <2>2. s \in [1..Cardinality(ids) -> T]
    BY <1>4
  <2> QED
    BY ONLY <2>1, <2>2, <1>5, RankedFacts, SMTT(30)
<1>7. s \in [1..Cardinality(ids) -> Ids]
  BY <1>6
<1>8. s \in Seq(Ids) /\ Len(s) = Cardinality(ids)
  <2>1. s \in Seq(Ids)
    BY <1>6, <1>7, SeqDef
  <2>2. DOMAIN s = 1..Cardinality(ids) /\ DOMAIN s = 1..Len(s) /\ Len(s) \in Nat
    BY <1>7, <2>1, LenProperties
  <2> QED
    BY <1>6, <2>1, <2>2
<1>9. Range(s) = ids
  <2>1. Range(s) = {s[n] : n \in 1..Cardinality(ids)}
    BY <1>6 DEF Range
  <2> QED
    BY ONLY <1>6, <2>1
<1> QED
  BY <1>2, <1>6, <1>8, <1>9

-----------------------------------------------------------------------------
(***************************************************************************)
(* The prefilter never rules out a point that is near enough.              *)
(***************************************************************************)

\* Remainders of numbers less than one turn away.
LEMMA OneTurn ==
    ASSUME NEW c \in Nat, c >= 1, NEW a \in Int, -c < a, a < c
    PROVE  a % c = IF a >= 0 THEN a ELSE a + c
<1> DEFINE r == a % c
           q == a \div c
<1>1. r \in 0..(c - 1) /\ q \in Int /\ a = c * q + r
  OBVIOUS
<1> HIDE DEF r, q
<1>2. q = 0 \/ q = -1
  <2>1. ASSUME q >= 1 PROVE FALSE
    <3>1. c * q >= c
      BY <1>1, <2>1
    <3> QED
      BY <1>1, <3>1
  <2>2. ASSUME q <= -2 PROVE FALSE
    <3>1. c * q <= c * (-2)
      BY <1>1, <2>2
    <3> QED
      BY <1>1, <3>1
  <2> QED
    BY <1>1, <2>1, <2>2
<1>3. q = 0 => r = a
  BY <1>1
<1>4. q = -1 => r = a + c
  BY <1>1
<1>5. r = IF a >= 0 THEN a ELSE a + c
  BY <1>1, <1>2, <1>3, <1>4
<1> QED
  BY <1>5 DEF r

\* A whole turn leaves nothing.
LEMMA WholeTurn ==
    ASSUME NEW c \in Int, c >= 1
    PROVE  c % c = 0
<1> DEFINE q == c \div c
           r == c % c
<1>1. q \in Int /\ r \in 0..(c - 1) /\ c = c * q + r
  OBVIOUS
<1> HIDE DEF q, r
<1>2. ASSUME q >= 2 PROVE FALSE
  <2>1. c * q >= c * 2
    BY <1>1, <1>2
  <2> QED
    BY <1>1, <2>1
<1>3. ASSUME q <= 0 PROVE FALSE
  <2>1. c * q <= 0
    BY <1>1, <1>3
  <2> QED
    BY <1>1, <2>1
<1>4. q = 1
  BY <1>1, <1>2, <1>3
<1>5. r = 0
  BY <1>1, <1>4
<1> QED
  BY <1>5 DEF r

\* On one axis: that many whole cells lie between the coordinates.
LEMMA CellsBetween ==
    ASSUME NEW x \in 0..(Grid - 1), NEW y \in 0..(Grid - 1),
           NEW cells, cells = Grid \div CellWidth,
           NEW apart, apart = ((x \div CellWidth) - (y \div CellWidth)) % cells,
           NEW bound, bound = Max({Min({apart, (cells - apart) % cells}) - 1, 0})
    PROVE  bound \in Nat /\ CellWidth * bound <= AxisGap(x, y)
<1> DEFINE w == CellWidth
           cx == x \div w
           rx == x % w
           cy == y \div w
           ry == y % w
<1>1. w \in Nat /\ w >= 1 /\ Grid % w = 0 /\ Grid \in Nat /\ Grid >= 1
  BY JoinAssumption, HashTypes
<1>2. /\ cx \in Int /\ rx \in 0..(w - 1) /\ x = w * cx + rx
      /\ cy \in Int /\ ry \in 0..(w - 1) /\ y = w * cy + ry
  BY <1>1
<1>3. cells \in Int /\ Grid = w * cells
  <2> DEFINE z == Grid % w
  <2>1. cells \in Int /\ Grid = w * cells + z
    BY <1>1
  <2>2. z = 0
    BY <1>1
  <2> HIDE DEF z, w
  <2> QED
    BY <1>1, <2>1, <2>2
<1>4. apart = (cx - cy) % cells
  OBVIOUS
<1>5. LET d == IF x >= y THEN x - y ELSE y - x
      IN  AxisGap(x, y) = (IF d <= Grid - d THEN d ELSE Grid - d) /\ AxisGap(x, y) \in Nat
  BY GapFacts
<1> HIDE DEF w, cx, rx, cy, ry
<1>6. cells >= 1
  <2> SUFFICES ASSUME cells <= 0 PROVE FALSE
    BY <1>3
  <2>1. w * cells <= 0
    BY <1>1, <1>3
  <2> QED
    BY <1>1, <1>3, <2>1
<1>7. 0 <= cx /\ cx < cells /\ 0 <= cy /\ cy < cells
  <2>1. ASSUME NEW c \in Int, NEW r \in 0..(w - 1), w * c + r >= 0, w * c + r < Grid
        PROVE  0 <= c /\ c < cells
    <3>1. ASSUME c <= -1 PROVE FALSE
      <4>1. w * c <= w * (-1)
        BY <1>1, <3>1
      <4> QED
        BY <1>1, <2>1, <4>1
    <3>2. ASSUME c >= cells PROVE FALSE
      <4>1. w * c >= w * cells
        BY <1>1, <1>3, <3>2
      <4>2. w * c \in Int
        BY <1>1
      <4> QED
        BY <1>1, <1>3, <2>1, <4>1, <4>2
    <3> QED
      BY <1>3, <3>1, <3>2
  <2>2. 0 <= cx /\ cx < cells
    <3>1. w * cx + rx >= 0 /\ w * cx + rx < Grid
      BY <1>1, <1>2
    <3> QED
      BY <1>2, <2>1, <3>1
  <2>3. 0 <= cy /\ cy < cells
    <3>1. w * cy + ry >= 0 /\ w * cy + ry < Grid
      BY <1>1, <1>2
    <3> QED
      BY <1>2, <2>1, <3>1
  <2> QED
    BY <2>2, <2>3
<1> DEFINE D == cx - cy
           back == (cells - apart) % cells
           e == Min({apart, back})
<1>8. D \in Int /\ -cells < D /\ D < cells
  BY <1>2, <1>3, <1>7
<1>9. apart = IF D >= 0 THEN D ELSE D + cells
  <2>1. apart = D % cells
    BY <1>4
  <2> HIDE DEF D
  <2> QED
    BY <1>3, <1>6, <1>8, <2>1, OneTurn
<1>10. apart \in Int /\ 0 <= apart /\ apart < cells
  BY <1>3, <1>8, <1>9
<1>11. back = IF apart = 0 THEN 0 ELSE cells - apart
  <2>1. CASE apart = 0
    <3>1. cells % cells = 0
      BY ONLY <1>3, <1>6, WholeTurn
    <3>2. cells - 0 = cells
      BY <1>3
    <3> QED
      BY <2>1, <3>1, <3>2
  <2>2. CASE apart # 0
    <3> DEFINE a == cells - apart
    <3>1. a \in Int /\ a > 0 /\ a < cells /\ -cells < a
      BY <1>3, <1>10, <2>2
    <3> HIDE DEF a
    <3>2. a % cells = a
      BY <1>3, <1>6, <3>1, OneTurn
    <3> QED
      BY <2>2, <3>2 DEF a
  <2> QED
    BY <2>1, <2>2
<1>12. back \in Int
  BY <1>3, <1>10, <1>11
<1> HIDE DEF back
<1>13. e = IF apart <= back THEN apart ELSE back
  BY <1>10, <1>12, LesserOf
<1>14. bound = IF e - 1 >= 0 THEN e - 1 ELSE 0
  <2>1. bound = Max({e - 1, 0})
    BY DEF back
  <2>2. e - 1 \in Int
    BY <1>10, <1>12, <1>13
  <2> HIDE DEF e
  <2> QED
    BY <2>1, <2>2, GreaterOf
<1> HIDE DEF e
<1>15. bound \in Nat
  <2>1. e \in Int
    BY ONLY <1>10, <1>12, <1>13
  <2> QED
    BY ONLY <1>14, <2>1
<1> DEFINE a == w * cx
           b == w * cy
<1>16. a \in Int /\ b \in Int /\ x = a + rx /\ y = b + ry
  BY <1>1, <1>2
<1>17. ASSUME bound > 0 PROVE CellWidth * bound <= AxisGap(x, y)
  <2>1. D # 0 /\ bound = e - 1
    BY <1>8, <1>9, <1>11, <1>13, <1>14, <1>17
  <2>2. CASE D > 0
    <3>1. bound <= D - 1 /\ bound <= cells - D - 1
      <4>1. apart = D /\ back = cells - D
        BY ONLY <1>3, <1>8, <1>9, <1>11, <2>2
      <4>2. e <= apart /\ e <= back /\ e \in Int
        BY ONLY <1>10, <1>12, <1>13
      <4> HIDE DEF D
      <4> QED
        BY ONLY <1>3, <1>8, <2>1, <4>1, <4>2
    <3>2. w * bound <= w * (D - 1) /\ w * bound <= w * (cells - D - 1)
      <4> HIDE DEF D
      <4> QED
        BY <1>1, <1>3, <1>8, <1>15, <3>1
    <3>3. w * (D - 1) = a - b - w /\ w * (cells - D - 1) = Grid - (a - b) - w
      BY <1>1, <1>2, <1>3
    <3>4. w * bound \in Int
      BY <1>1, <1>15
    <3> HIDE DEF a, b
    <3>5. /\ w * bound <= a - b - w /\ w * bound <= Grid - (a - b) - w
      BY <3>2, <3>3
    <3>6. /\ w * bound <= x - y /\ w * bound <= Grid - (x - y)
      BY <1>1, <1>2, <1>16, <3>4, <3>5
    <3>7. w * bound > 0
      BY <1>1, <1>15, <1>17
    <3>8. x >= y
      BY <3>4, <3>6, <3>7
    <3> QED
      BY <1>5, <3>6, <3>8 DEF w
  <2>3. CASE D < 0
    <3>1. bound <= (-D) - 1 /\ bound <= cells + D - 1
      <4>1. apart = D + cells /\ back = -D
        BY ONLY <1>3, <1>8, <1>9, <1>11, <2>3
      <4>2. e <= apart /\ e <= back /\ e \in Int
        BY ONLY <1>10, <1>12, <1>13
      <4> HIDE DEF D
      <4> QED
        BY ONLY <1>3, <1>8, <2>1, <4>1, <4>2
    <3>2. w * bound <= w * ((-D) - 1) /\ w * bound <= w * (cells + D - 1)
      <4> HIDE DEF D
      <4> QED
        BY <1>1, <1>3, <1>8, <1>15, <3>1
    <3>3. w * ((-D) - 1) = b - a - w /\ w * (cells + D - 1) = Grid - (b - a) - w
      BY <1>1, <1>2, <1>3
    <3>4. w * bound \in Int
      BY <1>1, <1>15
    <3> HIDE DEF a, b
    <3>5. /\ w * bound <= b - a - w /\ w * bound <= Grid - (b - a) - w
      BY <3>2, <3>3
    <3>6. /\ w * bound <= y - x /\ w * bound <= Grid - (y - x)
      BY <1>1, <1>2, <1>16, <3>4, <3>5
    <3>7. w * bound > 0
      BY <1>1, <1>15, <1>17
    <3>8. ~(x >= y)
      BY <3>4, <3>6, <3>7
    <3> QED
      BY <1>5, <3>6, <3>8 DEF w
  <2> QED
    BY <1>8, <2>1, <2>2, <2>3
<1>18. ASSUME bound = 0 PROVE CellWidth * bound <= AxisGap(x, y)
  <2>1. w * 0 = 0 /\ 0 <= AxisGap(x, y)
    BY <1>1, <1>5
  <2> QED
    BY <1>18, <2>1 DEF w
<1> QED
  BY <1>15, <1>17, <1>18

\* Summed over the axes: the bound times a cell is at most the distance.
LEMMA CellBoundSound ==
    ASSUME CallOK, NEW q \in Slots, NEW i \in Ids
    PROVE  CellBound(q, i) \in Int /\ CellWidth * CellBound(q, i) <= Gap(q, i)
<1> DEFINE x == queries[q]
           y == points[i + 1]
           cells == Grid \div CellWidth
           apart(a) == (Cell(x, a) - Cell(y, a)) % cells
           bound(a) == Max({Min({apart(a), (cells - apart(a)) % cells}) - 1, 0})
           f == [a \in Axes |-> bound(a)]
           g == [a \in Axes |-> AxisGap(x[a], y[a])]
<1>1. CellBound(q, i) = SumTo(f, Dims)
  BY DEF CellBound
<1>2. Gap(q, i) = SumTo(g, Dims)
  BY DEF Gap, Dist
<1>3. x \in Positions /\ y \in Positions
  BY CallFacts
<1>4. ASSUME NEW a \in Axes
      PROVE  bound(a) \in Nat /\ CellWidth * bound(a) <= AxisGap(x[a], y[a])
             /\ AxisGap(x[a], y[a]) \in Nat
  <2>1. x[a] \in 0..(Grid - 1) /\ y[a] \in 0..(Grid - 1)
    BY <1>3 DEF Positions
  <2>2. apart(a) = ((x[a] \div CellWidth) - (y[a] \div CellWidth)) % cells
    BY DEF Cell
  <2>3. bound(a) \in Nat /\ CellWidth * bound(a) <= AxisGap(x[a], y[a])
    BY <2>1, <2>2, CellsBetween
  <2> HIDE DEF bound, x, y
  <2>4. AxisGap(x[a], y[a]) \in Nat
    BY <2>1, GapFacts
  <2> QED
    BY <2>3, <2>4
<1> HIDE DEF bound, x, y
<1>5. f \in [1..Dims -> Int] /\ g \in [1..Dims -> Int]
  BY <1>4 DEF Axes
<1>6. \A a \in 1..Dims : CellWidth * f[a] <= g[a]
  BY <1>4 DEF Axes
<1>7. Dims \in Nat /\ CellWidth \in Int
  BY HashTypes, JoinAssumption
<1> HIDE DEF f, g
<1>8. SumTo(f, Dims) \in Int /\ CellWidth * SumTo(f, Dims) <= SumTo(g, Dims)
  BY ONLY <1>5, <1>6, <1>7, SumCompares
<1> QED
  BY <1>1, <1>2, <1>8

\* A point that is ruled out by a distance is farther.
LEMMA RuledOutIsFarther ==
    ASSUME CallOK, NEW q \in Slots, NEW i \in Ids, NEW dist \in Int, RuledOut(q, i, dist)
    PROVE  Gap(q, i) > dist
<1> DEFINE w == CellWidth
           c == CellBound(q, i)
           l == dist \div w
           r == dist % w
           d == Gap(q, i)
<1>1. w \in Nat /\ w >= 1
  BY JoinAssumption
<1>2. l \in Int /\ r \in 0..(w - 1) /\ dist = w * l + r
  BY <1>1
<1>3. c \in Int /\ w * c <= d /\ d \in Nat
  BY CellBoundSound, CallFacts
<1>4. c > l
  BY DEF RuledOut, Limit
<1> HIDE DEF w, c, l, r, d
<1>5. w * c >= w * (l + 1) /\ w * (l + 1) = w * l + w
  BY <1>1, <1>2, <1>3, <1>4
<1>6. w * c \in Int /\ w * l \in Int
  BY <1>1, <1>2, <1>3
<1>7. d > dist
  BY <1>1, <1>2, <1>3, <1>5, <1>6
<1> QED
  BY <1>7 DEF d

-----------------------------------------------------------------------------
\* One more candidate: the heap goes on holding the nearest, also when the
\* prefilter spares the exact distance.
LEMMA ScoreKeeps ==
    ASSUME CallOK, kind = "knn", NEW q \in Slots, NEW ids \in SUBSET Ids, NEW i \in Ids,
           NEW st, st.heap = Nearest(q, ids \ {Excluded(q)})
    PROVE  Score(q, st, i).heap = Nearest(q, (ids \cup {i}) \ {Excluded(q)})
<1> DEFINE old == ids \ {Excluded(q)}
           new == (ids \cup {i}) \ {Excluded(q)}
           gaps == {Gap(q, j) : j \in st.heap}
           judged == filter.on /\ Cardinality(st.heap) = arg
           pruned == judged /\ RuledOut(q, i, Max(gaps))
           g == GapsOf(q)
<1>1. Score(q, st, i).heap = IF pruned THEN st.heap ELSE Offered(q, st.heap, i)
  BY DEF Score
<1>2. CASE i = Excluded(q)
  <2>1. new = old /\ Offered(q, st.heap, i) = st.heap
    BY <1>2 DEF Offered
  <2> HIDE DEF pruned
  <2> QED
    BY <1>1, <2>1
<1>3. CASE i # Excluded(q)
  <2>1. /\ new = old \cup {i} /\ Offered(q, st.heap, i) = Nearest(q, st.heap \cup {i})
        /\ st.heap = Nearest(q, old)
    BY <1>3 DEF Offered
  <2>2. old \in SUBSET Ids /\ old \cup {i} \in SUBSET Ids
    OBVIOUS
  <2>3. st.heap \in SUBSET Ids /\ st.heap \cup {i} \in SUBSET Ids
    BY <2>1, <2>2 DEF Nearest
  <2> HIDE DEF old, new
  <2>4. /\ Rankable(g, old \cup {i}) /\ arg \in Nat /\ arg # 0
        /\ st.heap = TopOf(g, old, arg)
        /\ Nearest(q, old \cup {i}) = TopOf(g, old \cup {i}, arg)
        /\ Nearest(q, st.heap \cup {i}) = TopOf(g, st.heap \cup {i}, arg)
    <3>1. arg \in Nat /\ arg # 0
      BY DEF CallOK
    <3> QED
      BY <2>1, <2>2, <2>3, <3>1, NearestIsTop
  <2>5. \A j \in Ids : g[j] = Gap(q, j) /\ Gap(q, j) \in Nat /\ j \in Int
    BY CallFacts DEF GapsOf
  <2>6. IsFiniteSet(st.heap)
    BY <2>3, CallFacts, FS_Subset
  <2> HIDE DEF g
  <2>7. Nearest(q, st.heap \cup {i}) = Nearest(q, old \cup {i})
    <3> DEFINE all == old \cup {i}
               held == TopOf(g, old, arg) \cup {i}
    <3>a. /\ Rankable(g, all) /\ arg \in Nat
          /\ WithOne(all, old, i) /\ WithOne(held, TopOf(g, old, arg), i)
      BY <2>4 DEF WithOne
    <3> HIDE DEF all, held
    <3>b. TopOf(g, held, arg) = TopOf(g, all, arg)
      BY ONLY <3>a, TopOfOneMore
    <3>1. TopOf(g, TopOf(g, old, arg) \cup {i}, arg) = TopOf(g, old \cup {i}, arg)
      BY <3>b DEF all, held
    <3> QED
      BY <2>4, <3>1
  <2>8. ASSUME pruned PROVE st.heap = Nearest(q, old \cup {i})
    <3>1. Cardinality(st.heap) = arg /\ RuledOut(q, i, Max(gaps))
      BY <2>8
    <3>2. st.heap # {}
      BY <2>4, <3>1, FS_EmptySet
    <3>3. IsFiniteSet(gaps) /\ gaps # {} /\ \A x \in gaps : x \in Int
      <4> DEFINE f == [j \in st.heap |-> Gap(q, j)]
      <4>1. f \in Surjection(st.heap, gaps)
        BY DEF Surjection
      <4>2. gaps # {} /\ \A x \in gaps : x \in Int
        BY <2>3, <2>5, <3>2
      <4> HIDE DEF f, gaps
      <4>3. IsFiniteSet(gaps)
        BY <2>6, <4>1, FS_Surjection
      <4> QED
        BY <4>2, <4>3
    <3>4. \A j \in st.heap : Gap(q, j) \in gaps
      OBVIOUS
    <3> DEFINE bar == Max(gaps)
    <3> HIDE DEF gaps
    <3>5. bar \in Int /\ \A x \in gaps : bar >= x
      BY <3>3, Extremes
    <3>6. RuledOut(q, i, bar)
      BY <3>1
    <3> HIDE DEF bar
    <3>7. Gap(q, i) > bar
      BY <3>5, <3>6, RuledOutIsFarther
    <3>8. \A j \in TopOf(g, old, arg) : Closer(g, j, i)
      <4> SUFFICES ASSUME NEW j \in st.heap PROVE Closer(g, j, i)
        BY <2>4
      <4>1. Gap(q, j) < Gap(q, i)
        BY <2>3, <2>5, <3>4, <3>5, <3>7
      <4> QED
        BY <2>3, <2>5, <4>1 DEF Closer
    <3>9. Cardinality(TopOf(g, old, arg)) = arg
      BY <2>4, <3>1
    <3>10. TopOf(g, old \cup {i}, arg) = TopOf(g, old, arg)
      BY <2>4, <3>8, <3>9, TopOfFull
    <3> QED
      BY <2>4, <3>10
  <2> HIDE DEF pruned
  <2> QED
    BY <1>1, <2>1, <2>7, <2>8 DEF new
<1> QED
  BY <1>2, <1>3

\* So does a whole bucket.
LEMMA BucketScored ==
    ASSUME CallOK, kind = "knn", NEW q \in Slots, NEW ids \in SUBSET Ids,
           heaps[q] = Nearest(q, ids \ {Excluded(q)}),
           NEW bucket \in Seq(Ids)
    PROVE  KnnScore(q, bucket).heap = Nearest(q, (ids \cup Range(bucket)) \ {Excluded(q)})
<1> DEFINE N == Len(bucket)
           start == [heap |-> heaps[q], tested |-> 0, survived |-> 0]
           D == [heap : SUBSET Ids, tested : Int, survived : Int]
           step == [i \in 1..N |-> [v \in D |-> Score(q, v, bucket[i])]]
           after == CHOOSE after :
              after = [n \in 0..N |-> IF n = 0 THEN start ELSE Score(q, after[n - 1], bucket[n])]
<1>1. N \in Nat /\ DOMAIN bucket = 1..N /\ \A i \in 1..N : bucket[i] \in Ids
  BY LenProperties, ElementOfSeq
<1>2. start \in D
  BY DEF Nearest
<1>3. ASSUME NEW v \in D, NEW i \in Ids PROVE Score(q, v, i) \in D
  <2> DEFINE judged == filter.on /\ Cardinality(v.heap) = arg
             pruned == judged /\ RuledOut(q, i, Max({Gap(q, j) : j \in v.heap}))
             h == IF pruned THEN v.heap ELSE Offered(q, v.heap, i)
             a == v.tested + (IF judged THEN 1 ELSE 0)
             b == v.survived + (IF judged /\ ~pruned THEN 1 ELSE 0)
  <2>1. Score(q, v, i) = [heap |-> h, tested |-> a, survived |-> b]
    BY DEF Score
  <2> HIDE DEF judged, pruned
  <2>2. h \in SUBSET Ids
    BY DEF Offered, Nearest
  <2>3. a \in Int /\ b \in Int
    OBVIOUS
  <2> QED
    BY <2>1, <2>2, <2>3
<1> HIDE DEF D, start
<1>4. step \in [1..N -> [D -> D]]
  BY <1>1, <1>3
<1>5. \A i \in 1..N, v \in D : step[i][v] = Score(q, v, bucket[i])
  OBVIOUS
<1> HIDE DEF step
<1>6. PICK s : Loops(s, D, N, start, step)
  BY <1>1, <1>2, <1>4, Iterates
<1>7. /\ s \in [0..N -> D] /\ s[0] = start
      /\ \A i \in 1..N : s[i] = step[i][s[i - 1]]
  BY <1>6 DEF Loops
<1>8. s = [n \in 0..N |-> IF n = 0 THEN start ELSE Score(q, s[n - 1], bucket[n])]
  <2>1. \A n \in 0..N : s[n] = IF n = 0 THEN start ELSE Score(q, s[n - 1], bucket[n])
    <3> SUFFICES ASSUME NEW n \in 0..N, n # 0 PROVE s[n] = Score(q, s[n - 1], bucket[n])
      BY <1>7
    <3>1. n \in 1..N /\ n - 1 \in 0..N
      BY <1>1
    <3>2. s[n - 1] \in D
      BY <1>7, <3>1
    <3> QED
      BY <1>5, <1>7, <3>1, <3>2
  <2>2. s = [n \in 0..N |-> s[n]]
    BY ONLY <1>7
  <2> QED
    BY ONLY <2>1, <2>2
<1>9. after = [n \in 0..N |-> IF n = 0 THEN start ELSE Score(q, after[n - 1], bucket[n])]
  BY <1>8
<1>10. KnnScore(q, bucket) = after[N]
  BY DEF KnnScore, start
<1> HIDE DEF after
<1>11. \A n \in 0..N : after[n] = IF n = 0 THEN start ELSE Score(q, after[n - 1], bucket[n])
  BY <1>9
<1> DEFINE upTo(n) == ids \cup {bucket[m] : m \in 1..n}
           Good(n) == after[n].heap = Nearest(q, upTo(n) \ {Excluded(q)})
           Bad == {n \in 0..N : ~Good(n)}
<1>12. Bad = {}
  <2> SUFFICES ASSUME Bad # {} PROVE FALSE
    OBVIOUS
  <2>1. PICK n \in Bad : \A x \in Bad : n <= x
    <3>1. Bad \in SUBSET Nat
      BY <1>1
    <3> HIDE DEF Bad
    <3> QED
      BY <3>1, LeastNatural
  <2>2. n \in 0..N /\ ~Good(n)
    OBVIOUS
  <2>3. n # 0
    <3>1. upTo(0) = ids
      OBVIOUS
    <3>2. after[0] = start
      BY <1>1, <1>11
    <3>3. start.heap = heaps[q]
      BY DEF start
    <3>4. Good(0)
      BY <3>1, <3>2, <3>3
    <3> QED
      BY <2>2, <3>4
  <2>4. n - 1 \in 0..N /\ ~(n <= n - 1) /\ n \in 1..N
    BY <1>1, <2>2, <2>3
  <2>5. Good(n - 1)
    BY <2>1, <2>4
  <2>6. upTo(n - 1) \in SUBSET Ids /\ upTo(n) = upTo(n - 1) \cup {bucket[n]} /\ bucket[n] \in Ids
    <3>1. 1..n = (1..(n - 1)) \cup {n}
      BY <1>1, <2>4
    <3>2. \A m \in 1..(n - 1) : m \in 1..N
      BY <1>1, <2>4
    <3> QED
      BY <1>1, <2>4, <3>1, <3>2
  <2>7. after[n] = Score(q, after[n - 1], bucket[n])
    BY <1>11, <2>2, <2>3
  <2> DEFINE st == after[n - 1]
             u == upTo(n - 1)
             i == bucket[n]
  <2>8. st.heap = Nearest(q, u \ {Excluded(q)})
    BY <2>5
  <2>9. u \in SUBSET Ids /\ i \in Ids
    BY <2>6
  <2> HIDE DEF st, u, i
  <2>10. Score(q, st, i).heap = Nearest(q, (u \cup {i}) \ {Excluded(q)})
    BY ONLY CallOK, kind = "knn", q \in Slots, <2>8, <2>9, ScoreKeeps
  <2>11. Good(n)
    BY <2>6, <2>7, <2>10 DEF st, u, i
  <2> QED
    BY <2>2, <2>11
<1>13. Good(N)
  <2>1. N \in 0..N
    BY <1>1
  <2> HIDE DEF Good
  <2> QED
    BY <1>12, <2>1
<1>14. upTo(N) = ids \cup Range(bucket)
  BY <1>1 DEF Range
<1> QED
  BY <1>10, <1>13, <1>14

-----------------------------------------------------------------------------
\* A bucket in some order: all its ids, each once.
LEMMA ListingFacts ==
    ASSUME CallOK, NEW ids \in SUBSET Ids, NEW bucket \in Listings(ids)
    PROVE  /\ bucket \in Seq(Ids) /\ Range(bucket) = ids
           /\ Len(bucket) \in Nat /\ DOMAIN bucket = 1..Len(bucket)
           /\ \A n \in 1..Len(bucket) : bucket[n] \in ids
           /\ \A m, n \in 1..Len(bucket) : bucket[m] = bucket[n] => m = n
<1> DEFINE N == Cardinality(ids)
<1>1. N \in Nat
  <2>1. IsFiniteSet(ids)
    BY CallFacts, FS_Subset
  <2> QED
    BY <2>1, FS_CardinalityType
<1>2. /\ bucket \in [1..N -> ids]
      /\ \A m, n \in 1..N : bucket[m] = bucket[n] => m = n
      /\ \A i \in ids : \E n \in 1..N : bucket[n] = i
  BY DEF Listings, Bijection, Injection, IsInjective, Surjection
<1> HIDE DEF N
<1>3. bucket \in [1..N -> Ids]
  BY <1>2
<1>4. bucket \in Seq(Ids)
  BY <1>1, <1>3, SeqDef
<1>5. Len(bucket) \in Nat /\ DOMAIN bucket = 1..Len(bucket) /\ DOMAIN bucket = 1..N
  BY <1>2, <1>4, LenProperties
<1>6. Len(bucket) = N
  <2>1. 1..Len(bucket) = 1..N /\ Len(bucket) \in Nat
    BY <1>5
  <2> QED
    BY ONLY <1>1, <2>1
<1>7. Range(bucket) = {bucket[n] : n \in 1..N}
  BY <1>5 DEF Range
<1>8. Range(bucket) = ids
  BY ONLY <1>2, <1>7
<1> QED
  BY <1>2, <1>4, <1>5, <1>6, <1>8

\* A list with the ids at some places of a bucket pushed on it.
Pushes(new, list, bucket, near) ==
    /\ new \in Seq(Ids) /\ Len(new) \in Nat /\ Len(list) \in Nat /\ Cardinality(near) \in Nat
    /\ Len(new) = Len(list) + Cardinality(near)
    /\ Range(new) = Range(list) \cup {bucket[n] : n \in near}
    /\ \A n \in 1..Len(list) : new[n] = list[n]
    /\ \A n \in (Len(list) + 1)..Len(new) : \E p \in near : new[n] = bucket[p]
    /\ \A m, n \in (Len(list) + 1)..Len(new) : new[m] = new[n] => m = n

\* What push_hit leaves in a list: what it held, then the hits in bucket order.
LEMMA PushedFacts ==
    ASSUME NEW list \in Seq(Ids), NEW bucket \in Seq(Ids), NEW near \in SUBSET (1..Len(bucket)),
           \A m, n \in 1..Len(bucket) : bucket[m] = bucket[n] => m = n
    PROVE  Pushes(list \o Picked(bucket, near), list, bucket, near)
<1> DEFINE more == Picked(bucket, near)
           new == list \o more
           k == Cardinality(near)
           l == Len(list)
<1>1. /\ k \in Nat /\ more \in Seq(Ids) /\ Len(more) = k
      /\ \E place : Lists(place, near, k) /\ \A i \in 1..k : more[i] = bucket[place[i]]
  BY PickedFacts
<1> HIDE DEF more, k
<1>2. PICK place : Lists(place, near, k) /\ \A i \in 1..k : more[i] = bucket[place[i]]
  BY <1>1
<1>3. /\ place \in [1..k -> near]
      /\ \A p \in near : \E i \in 1..k : place[i] = p
      /\ \A i, j \in 1..k : place[i] < place[j] <=> i < j
  BY <1>2 DEF Lists
<1>4. l \in Nat /\ DOMAIN list = 1..l
  BY LenProperties
<1>5. new \in Seq(Ids) /\ Len(new) = l + k
      /\ \A i \in 1..(l + k) : new[i] = IF i <= l THEN list[i] ELSE more[i - l]
  <2>1. more \in Seq(Ids) /\ list \in Seq(Ids) /\ Len(more) = k
    BY <1>1
  <2>2. /\ list \o more \in Seq(Ids)
        /\ Len(list \o more) = Len(list) + Len(more)
        /\ \A i \in 1..(Len(list) + Len(more)) :
             (list \o more)[i] = IF i <= Len(list) THEN list[i] ELSE more[i - Len(list)]
    BY ONLY <2>1, ConcatProperties
  <2> QED
    BY <2>1, <2>2
<1>6. DOMAIN new = 1..(l + k) /\ Len(new) \in Nat
  BY <1>1, <1>4, <1>5, LenProperties
<1> HIDE DEF new, l
<1>7. \A n \in 1..l : new[n] = list[n]
  BY <1>1, <1>4, <1>5
<1>8. ASSUME NEW n \in (l + 1)..(l + k)
      PROVE  n - l \in 1..k /\ place[n - l] \in near /\ new[n] = bucket[place[n - l]]
  <2>1. n - l \in 1..k /\ n \in 1..(l + k) /\ ~(n <= l)
    BY <1>1, <1>4
  <2> QED
    BY <1>2, <1>3, <1>5, <2>1
<1>9. \A n \in (l + 1)..(l + k) : \E p \in near : new[n] = bucket[p]
  BY <1>8
<1>10. ASSUME NEW m \in (l + 1)..(l + k), NEW n \in (l + 1)..(l + k), new[m] = new[n]
       PROVE  m = n
  <2> DEFINE i == m - l
             j == n - l
  <2>1. /\ i \in 1..k /\ j \in 1..k /\ place[i] \in near /\ place[j] \in near
        /\ bucket[place[i]] = bucket[place[j]]
    BY <1>8, <1>10
  <2>2. i = j => m = n
    BY <1>1, <1>4
  <2> HIDE DEF i, j
  <2>3. place[i] = place[j] /\ place[i] \in 1..Len(bucket)
    BY <2>1
  <2>4. i = j
    <3>1. Len(bucket) \in Nat
      BY LenProperties
    <3>2. ~(place[i] < place[j]) /\ ~(place[j] < place[i])
      BY <2>3, <3>1
    <3>3. ~(i < j) /\ ~(j < i)
      BY <1>3, <2>1, <3>2
    <3> QED
      BY <1>1, <2>1, <3>3
  <2> QED
    BY <2>2, <2>4
<1>11. Range(new) = Range(list) \cup {bucket[n] : n \in near}
  <2>1. Range(new) = {new[n] : n \in 1..(l + k)} /\ Range(list) = {list[n] : n \in 1..l}
    BY <1>4, <1>6 DEF Range
  <2>2. ASSUME NEW n \in 1..(l + k)
        PROVE  new[n] \in {list[m] : m \in 1..l} \cup {bucket[p] : p \in near}
    <3>1. CASE n <= l
      <4>1. n \in 1..l
        BY <1>1, <1>4, <3>1
      <4>2. new[n] = list[n]
        BY <1>7, <4>1
      <4> QED
        BY <4>1, <4>2
    <3>2. CASE ~(n <= l)
      <4>1. n \in (l + 1)..(l + k)
        BY <1>1, <1>4, <3>2
      <4>2. PICK p \in near : new[n] = bucket[p]
        BY <1>9, <4>1
      <4> QED
        BY <4>2
    <3> QED
      BY <3>1, <3>2
  <2>3. ASSUME NEW m \in 1..l PROVE list[m] \in {new[n] : n \in 1..(l + k)}
    <3>1. m \in 1..(l + k) /\ new[m] = list[m]
      BY <1>1, <1>4, <1>7
    <3> QED
      BY <3>1
  <2>4. ASSUME NEW p \in near PROVE bucket[p] \in {new[n] : n \in 1..(l + k)}
    <3>1. PICK i \in 1..k : place[i] = p
      BY <1>3
    <3> DEFINE n == i + l
    <3>2. n \in (l + 1)..(l + k) /\ n \in 1..(l + k) /\ n - l = i
      BY <1>1, <1>4
    <3>3. new[n] = bucket[p]
      BY <1>8, <3>1, <3>2
    <3> HIDE DEF n
    <3> QED
      BY <3>2, <3>3
  <2> QED
    BY ONLY <2>1, <2>2, <2>3, <2>4
<1>12. Pushes(new, list, bucket, near)
  BY <1>1, <1>4, <1>5, <1>6, <1>7, <1>9, <1>10, <1>11 DEF Pushes, k, l
<1> QED
  BY <1>12 DEF new, more

\* What is listed is finitely many ids.
LEMMA RangeFinite ==
    ASSUME CallOK, NEW list \in Seq(Ids)
    PROVE  /\ Range(list) \subseteq Ids /\ IsFiniteSet(Range(list))
           /\ Cardinality(Range(list)) \in Nat
           /\ Len(list) \in Nat /\ DOMAIN list = 1..Len(list)
<1>1. Len(list) \in Nat /\ DOMAIN list = 1..Len(list) /\ \A n \in 1..Len(list) : list[n] \in Ids
  BY LenProperties, ElementOfSeq
<1>2. Range(list) \subseteq Ids
  BY <1>1 DEF Range
<1>3. IsFiniteSet(Range(list))
  BY <1>2, CallFacts, FS_Subset
<1> QED
  BY <1>1, <1>2, <1>3, FS_CardinalityType

\* A list whose ids are distinct after place b holds at most b more than its
\* distinct ids; with b below the trigger that is 9/4 of them and the slack.
LEMMA LengthBounded ==
    ASSUME CallOK, NEW list \in Seq(Ids), NEW b \in 0..Len(list),
           \A m, n \in (b + 1)..Len(list) : list[m] = list[n] => m = n,
           NEW c \in Nat, c <= Cardinality(Range(list)), b <= Trigger(c)
    PROVE  Len(list) <= Most(list) /\ Most(list) \in Nat
<1> DEFINE N == Len(list)
           D == Range(list)
           d == Cardinality(D)
           f == [n \in 1..(N - b) |-> list[n + b]]
<1>1. IsFiniteSet(D) /\ d \in Nat /\ N \in Nat /\ DOMAIN list = 1..N
  BY RangeFinite
<1>2. f \in Injection(1..(N - b), D)
  <2>1. ASSUME NEW n \in 1..(N - b) PROVE n + b \in (b + 1)..N /\ list[n + b] \in D
    <3>1. n + b \in (b + 1)..N /\ n + b \in 1..N
      BY <1>1
    <3> QED
      BY <1>1, <3>1 DEF Range
  <2>2. ASSUME NEW m \in 1..(N - b), NEW n \in 1..(N - b), list[m + b] = list[n + b] PROVE m = n
    <3>1. m + b = n + b
      BY <2>1, <2>2
    <3> QED
      BY <1>1, <3>1
  <2> HIDE DEF D
  <2>3. f \in [1..(N - b) -> D]
    BY <2>1
  <2>4. \A m, n \in 1..(N - b) : f[m] = f[n] => m = n
    BY <2>2
  <2> QED
    BY <2>3, <2>4 DEF Injection, IsInjective
<1>3. Cardinality(1..(N - b)) = N - b
  BY <1>1, FS_Interval
<1> HIDE DEF f, D
<1>4. N - b <= d
  BY <1>1, <1>2, <1>3, FS_Injection
<1>5. Slack \in Nat
  BY JoinAssumption
<1>6. N <= (9 * d) \div 4 + Slack /\ (9 * d) \div 4 + Slack \in Nat
  <2>1. c <= d /\ b <= c + c \div 4 + Slack
    BY DEF Trigger, D
  <2>2. b \in Int
    BY <1>1
  <2> HIDE DEF N, d
  <2> QED
    BY ONLY <1>1, <1>4, <1>5, <2>1, <2>2, c \in Nat
<1> QED
  BY <1>6 DEF Most, D

\* A larger list may be longer.
LEMMA MostGrows ==
    ASSUME CallOK, NEW list \in Seq(Ids), NEW new \in Seq(Ids), Range(list) \subseteq Range(new)
    PROVE  /\ Cardinality(Range(list)) <= Cardinality(Range(new))
           /\ Most(list) <= Most(new) /\ Most(list) \in Nat /\ Most(new) \in Nat
<1> DEFINE a == Cardinality(Range(list))
           b == Cardinality(Range(new))
<1>1. a \in Nat /\ b \in Nat /\ IsFiniteSet(Range(new))
  BY RangeFinite
<1>2. a <= b
  BY <1>1, FS_Subset
<1>3. Slack \in Nat
  BY JoinAssumption
<1> HIDE DEF a, b
<1>4. /\ (9 * a) \div 4 + Slack <= (9 * b) \div 4 + Slack
      /\ (9 * a) \div 4 + Slack \in Nat /\ (9 * b) \div 4 + Slack \in Nat
  BY <1>1, <1>2, <1>3
<1> QED
  BY <1>2, <1>4 DEF Most, a, b

\* Pushing hits keeps the capacity within its bound: it is raised only when
\* the list is full, to half as much again.
LEMMA GrownBounded ==
    ASSUME NEW q, NEW len \in Nat, len = Len(hits[q]), slots[q] \in Nat, NEW more \in Nat,
           NEW most \in Nat, len + more <= most, 2 * slots[q] <= 3 * most + 2 * Slack
    PROVE  Grown(q, more) \in Nat /\ 2 * Grown(q, more) <= 3 * most + 2 * Slack
<1> DEFINE start == slots[q]
           step == [n \in 1..more |-> [c \in Nat |-> Pushed(c, len + n - 1)]]
           cap == CHOOSE cap : cap = [n \in 0..more |->
                    IF n = 0 THEN slots[q] ELSE Pushed(cap[n - 1], Len(hits[q]) + n - 1)]
<1>1. Slack \in Nat
  BY JoinAssumption
<1>2. ASSUME NEW c \in Nat, NEW n \in 1..more, 2 * c <= 3 * most + 2 * Slack
      PROVE  Pushed(c, len + n - 1) \in Nat /\ 2 * Pushed(c, len + n - 1) <= 3 * most + 2 * Slack
  <2> DEFINE l == len + n - 1
  <2>1. l \in Nat /\ l <= most
    OBVIOUS
  <2> HIDE DEF l
  <2>2. l \div 2 \in Nat /\ 2 * (l \div 2) <= l
    BY <2>1
  <2>3. Pushed(c, l) = IF l = c THEN c + l \div 2 + Slack ELSE c
    BY DEF Pushed
  <2>4. CASE l = c
    <3>1. Pushed(c, l) = l + l \div 2 + Slack
      BY <2>3, <2>4
    <3> DEFINE half == l \div 2
    <3> HIDE DEF half
    <3>2. Pushed(c, l) = l + half + Slack /\ half \in Nat /\ 2 * half <= l
      BY <2>2, <3>1 DEF half
    <3>3. Pushed(c, l) \in Nat /\ 2 * Pushed(c, l) <= 3 * most + 2 * Slack
      BY <1>1, <2>1, <3>2
    <3> QED
      BY <3>3 DEF l
  <2>5. CASE l # c
    <3>1. Pushed(c, l) = c
      BY <2>3, <2>5
    <3> QED
      BY <1>2, <3>1 DEF l
  <2> QED
    BY <2>4, <2>5
<1>3. ASSUME NEW c \in Nat, NEW n \in 1..more PROVE Pushed(c, len + n - 1) \in Nat
  <2> DEFINE l == len + n - 1
  <2>1. l \in Nat
    OBVIOUS
  <2> HIDE DEF l
  <2>2. l \div 2 \in Nat
    BY <2>1
  <2>3. Pushed(c, l) \in Nat
    BY <1>1, <2>1, <2>2 DEF Pushed
  <2> QED
    BY <2>3 DEF l
<1>4. step \in [1..more -> [Nat -> Nat]]
  BY <1>3
<1>5. \A n \in 1..more, c \in Nat : step[n][c] = Pushed(c, len + n - 1)
  OBVIOUS
<1>6. start \in Nat
  OBVIOUS
<1> HIDE DEF step
<1>7. PICK s : Loops(s, Nat, more, start, step)
  <2> HIDE DEF start
  <2> QED
    BY <1>4, <1>6, Iterates
<1>8. /\ s \in [0..more -> Nat] /\ s[0] = start
      /\ \A n \in 1..more : s[n] = step[n][s[n - 1]]
  BY <1>7 DEF Loops
<1>9. s = [n \in 0..more |-> IF n = 0 THEN slots[q] ELSE Pushed(s[n - 1], Len(hits[q]) + n - 1)]
  <2>1. ASSUME NEW n \in 0..more
        PROVE  s[n] = IF n = 0 THEN slots[q] ELSE Pushed(s[n - 1], Len(hits[q]) + n - 1)
    <3>1. CASE n = 0
      BY <1>8, <3>1
    <3>2. CASE n # 0
      <4>1. n \in 1..more /\ n - 1 \in 0..more
        BY <3>2
      <4>2. s[n - 1] \in Nat
        BY <1>8, <4>1
      <4>3. s[n] = Pushed(s[n - 1], len + n - 1)
        BY <1>5, <1>8, <4>1, <4>2
      <4> QED
        BY <3>2, <4>3
    <3> QED
      BY <3>1, <3>2
  <2>2. s = [n \in 0..more |-> s[n]]
    BY ONLY <1>8
  <2> QED
    BY ONLY <2>1, <2>2
<1>10. cap = [n \in 0..more |->
                IF n = 0 THEN slots[q] ELSE Pushed(cap[n - 1], Len(hits[q]) + n - 1)]
  BY <1>9
<1>11. Grown(q, more) = cap[more]
  BY DEF Grown
<1> HIDE DEF cap
<1>12. /\ cap[0] = slots[q]
       /\ \A n \in 1..more : cap[n] = Pushed(cap[n - 1], len + n - 1)
  <2>1. \A n \in 0..more :
           cap[n] = IF n = 0 THEN slots[q] ELSE Pushed(cap[n - 1], Len(hits[q]) + n - 1)
    BY <1>10
  <2>2. 0 \in 0..more /\ \A n \in 1..more : n \in 0..more /\ n # 0
    OBVIOUS
  <2> QED
    BY <2>1, <2>2
<1> DEFINE Good(n) == cap[n] \in Nat /\ 2 * cap[n] <= 3 * most + 2 * Slack
           Bad == {n \in 0..more : ~Good(n)}
<1>13. Bad = {}
  <2> SUFFICES ASSUME Bad # {} PROVE FALSE
    OBVIOUS
  <2>1. PICK n \in Bad : \A x \in Bad : n <= x
    <3>1. Bad \in SUBSET Nat
      OBVIOUS
    <3> HIDE DEF Bad
    <3> QED
      BY <3>1, LeastNatural
  <2>2. n \in 0..more /\ ~Good(n)
    OBVIOUS
  <2>3. n # 0
    <3>1. Good(0)
      BY <1>12
    <3> QED
      BY <2>2, <3>1
  <2>4. n - 1 \in 0..more /\ ~(n <= n - 1) /\ n \in 1..more
    BY <2>2, <2>3
  <2>5. Good(n - 1)
    BY <2>1, <2>4
  <2> DEFINE c == cap[n - 1]
  <2>6. c \in Nat /\ 2 * c <= 3 * most + 2 * Slack /\ cap[n] = Pushed(c, len + n - 1)
    BY <1>12, <2>4, <2>5
  <2> HIDE DEF c
  <2>7. Good(n)
    BY <1>2, <2>4, <2>6
  <2> QED
    BY <2>2, <2>7
<1>14. Good(more)
  <2>1. more \in 0..more
    OBVIOUS
  <2> HIDE DEF Good
  <2> QED
    BY <1>13, <2>1
<1> QED
  BY <1>11, <1>14

-----------------------------------------------------------------------------
(***************************************************************************)
(* The steps.                                                              *)
(***************************************************************************)

\* What depends on the arguments alone stays while they do.
LEMMA CallStays ==
    ASSUME CallOK, UNCHANGED call
    PROVE  /\ CallOK' /\ Ids' = Ids /\ Slots' = Slots /\ kind' = kind /\ arg' = arg
           /\ points' = points
           /\ QueriesPerBlock' = QueriesPerBlock /\ Batch' = Batch
           /\ \A q : Excluded(q)' = Excluded(q) /\ Joined(q)' = Joined(q)
           /\ \A q, t : ProbedKeys(q, t)' = ProbedKeys(q, t) /\ BlockKeys(q, t)' = BlockKeys(q, t)
           /\ \A t, key : Bucket(t, key)' = Bucket(t, key)
           /\ \A q, i : Gap(q, i)' = Gap(q, i)
           /\ \A q, ids : Nearest(q, ids)' = Nearest(q, ids) /\ Ranked(q, ids)' = Ranked(q, ids)
           /\ \A q : Scanned(q)' = Scanned(q) /\ ScannedShort(q)' = ScannedShort(q)
           /\ \A n : Short(n)' = Short(n)
<1>1. /\ points' = points /\ queries' = queries /\ selfJoin' = selfJoin
      /\ kind' = kind /\ arg' = arg /\ blockSize' = blockSize
  BY DEF call
<1>2. CallOK'
  BY <1>1 DEF CallOK
<1>3. Ids' = Ids /\ Slots' = Slots /\ Batch' = Batch
  BY <1>1 DEF Ids, Slots, Batch
<1>4. QueriesPerBlock' = QueriesPerBlock
  BY <1>1, <1>3 DEF QueriesPerBlock
<1>5. \A q : Excluded(q)' = Excluded(q) /\ Joined(q)' = Joined(q)
  BY <1>1, <1>3, <1>4 DEF Excluded, Joined
<1>6. \A q, t : ProbedKeys(q, t)' = ProbedKeys(q, t)
  BY <1>1 DEF ProbedKeys
<1>7. \A q, t : BlockKeys(q, t)' = BlockKeys(q, t)
  BY <1>5, <1>6 DEF BlockKeys
<1>8. \A t, key : Bucket(t, key)' = Bucket(t, key)
  BY <1>1, <1>3 DEF Bucket
<1>9. \A q, i : Gap(q, i)' = Gap(q, i)
  BY <1>1 DEF Gap
<1>10. \A q, ids, i : Ahead(q, ids, i)' = Ahead(q, ids, i)
  BY <1>9 DEF Ahead, Nearer
<1>11. \A q, ids : Nearest(q, ids)' = Nearest(q, ids) /\ Ranked(q, ids)' = Ranked(q, ids)
  BY <1>1, <1>10 DEF Nearest, Ranked
<1>12. \A q : Gathered(q)' = Gathered(q)
  BY <1>6, <1>8 DEF Gathered
<1>13. \A n : Short(n)' = Short(n)
  BY <1>1 DEF Short, Reachable
<1>14. \A q : ScannedKnn(q)' = ScannedKnn(q)
  BY <1>5, <1>11, <1>12 DEF ScannedKnn
<1>15. \A q : ScannedRadius(q)' = ScannedRadius(q)
  BY <1>1, <1>5, <1>9, <1>11, <1>12 DEF ScannedRadius
<1>16. \A q : Scanned(q)' = Scanned(q) /\ ScannedShort(q)' = ScannedShort(q)
  BY <1>1, <1>13, <1>14, <1>15 DEF Scanned, ScannedShort
<1> QED
  BY <1>1, <1>2, <1>3, <1>4, <1>5, <1>6, <1>7, <1>8, <1>9, <1>11, <1>13, <1>16

-----------------------------------------------------------------------------
\* Loading the least of the buckets left makes its ids seen by those who probe it.
LEMMA BucketSeen ==
    ASSUME CallOK, Place, phase = "score", left # {},
           UNCHANGED <<call, phase, first, table>>, left' = left \ {Min(left)}
    PROVE  /\ Min(left) \in left /\ table \in Tables /\ table \in Int
           /\ \A q \in Slots : Seen(q)' =
                IF Min(left) \in ProbedKeys(q, table)
                THEN Seen(q) \cup Bucket(table, Min(left)) ELSE Seen(q)
<1> DEFINE m == Min(left)
<1>1. table \in Tables /\ first \in Slots /\ left \subseteq BlockKeys(first, table)
  BY DEF Place, Open
<1>2. table \in Int
  <2>1. L \in Nat
    BY HashTypes
  <2> QED
    BY <1>1, <2>1 DEF Tables
<1>3. m \in left
  <2>1. IsFiniteSet(BlockKeys(first, table)) /\ \A key \in BlockKeys(first, table) : key \in Int
    BY <1>1, ProbedFacts
  <2>2. IsFiniteSet(left) /\ \A key \in left : key \in Int
    BY <1>1, <2>1, FS_Subset
  <2> QED
    BY <2>2, Extremes
<1> HIDE DEF m
<1>4. UNCHANGED call /\ table' = table /\ left' = left \ {m}
  BY DEF m
<1>5. /\ Ids' = Ids /\ points' = points
      /\ \A q, t : ProbedKeys(q, t)' = ProbedKeys(q, t)
  BY <1>4, CallStays
<1>6. ASSUME NEW q \in Slots
      PROVE  Seen(q)' = IF m \in ProbedKeys(q, table) THEN Seen(q) \cup Bucket(table, m) ELSE Seen(q)
  <2>1. Seen(q)' = {i \in Ids : \E t \in Tables :
                      /\ Key(points[i + 1], t) \in ProbedKeys(q, t)
                      /\ t < table \/ (t = table /\ Key(points[i + 1], t) \notin left \ {m})}
    BY <1>4, <1>5 DEF Seen, Read
  <2>2. Seen(q) = {i \in Ids : \E t \in Tables :
                      /\ Key(points[i + 1], t) \in ProbedKeys(q, t)
                      /\ t < table \/ (t = table /\ Key(points[i + 1], t) \notin left)}
    BY DEF Seen, Read
  <2>3. Bucket(table, m) = {i \in Ids : Key(points[i + 1], table) = m}
    BY DEF Bucket
  <2>4. CASE m \in ProbedKeys(q, table)
    <3>1. \A i \in Ids : i \in Seen(q)' <=> (i \in Seen(q) \/ Key(points[i + 1], table) = m)
      BY <1>1, <1>3, <2>1, <2>2, <2>4
    <3>2. Seen(q)' = Seen(q) \cup Bucket(table, m)
      BY <2>1, <2>2, <2>3, <3>1
    <3> QED
      BY <2>4, <3>2
  <2>5. CASE m \notin ProbedKeys(q, table)
    <3>1. \A i \in Ids : i \in Seen(q)' <=> i \in Seen(q)
      BY <2>1, <2>2, <2>5
    <3> QED
      BY <2>1, <2>2, <2>5, <3>1
  <2> QED
    BY <2>4, <2>5
<1> QED
  BY <1>1, <1>2, <1>3, <1>6 DEF m

\* A list that a step leaves alone stays good while buckets are only loaded.
LEMMA ListStays ==
    ASSUME NEW q, ListOK(q), points' = points, table' = table, left' \subseteq left,
           hits'[q] = hits[q], clean'[q] = clean[q], slots'[q] = slots[q]
    PROVE  ListOK(q)'
<1>1. PICK b \in 0..Len(hits[q]) : b <= Trigger(clean[q]) /\ Fresh(hits[q], b)
  BY DEF ListOK
<1>2. Fresh(hits[q], b)'
  BY <1>1 DEF Fresh
<1>3. Trigger(clean[q])' = Trigger(clean[q]) /\ Most(hits[q])' = Most(hits[q])
  BY DEF Trigger, Most, Range
<1>4. Range(hits[q])' = Range(hits[q])
  BY DEF Range
<1> QED
  BY <1>1, <1>2, <1>3, <1>4 DEF ListOK

\* A list on which hits of a bucket just loaded are pushed stays good.
LEMMA ListGrows ==
    ASSUME CallOK, NEW q, hits[q] \in Seq(Ids), clean[q] \in Nat, slots[q] \in Nat, ListOK(q),
           table \in Tables, NEW m \in left, left' = left \ {m}, points' = points, table' = table,
           NEW bucket \in Listings(Bucket(table, m)), NEW near \in SUBSET (1..Len(bucket)),
           hits'[q] = hits[q] \o Picked(bucket, near),
           slots'[q] = Grown(q, Cardinality(near)), clean'[q] = clean[q]
    PROVE  /\ ListOK(q)' /\ hits'[q] \in Seq(Ids) /\ slots'[q] \in Nat
           /\ Range(hits'[q]) = Range(hits[q]) \cup {bucket[n] : n \in near}
<1> DEFINE list == hits[q]
           new == hits'[q]
           l == Len(list)
           k == Cardinality(near)
<1>1. Bucket(table, m) \subseteq Ids /\ \A i \in Bucket(table, m) : Key(points[i + 1], table) = m
  BY DEF Bucket
<1>2. /\ bucket \in Seq(Ids)
      /\ \A n \in 1..Len(bucket) : bucket[n] \in Bucket(table, m)
      /\ \A a, b \in 1..Len(bucket) : bucket[a] = bucket[b] => a = b
  BY <1>1, ListingFacts
<1>3. Pushes(new, list, bucket, near)
  <2>1. list \in Seq(Ids)
    OBVIOUS
  <2>2. Pushes(list \o Picked(bucket, near), list, bucket, near)
    BY ONLY <1>2, <2>1, near \in SUBSET (1..Len(bucket)), PushedFacts
  <2> QED
    BY <2>2
<1>4. /\ new \in Seq(Ids) /\ Len(new) \in Nat /\ l \in Nat /\ k \in Nat /\ Len(new) = l + k
      /\ Range(new) = Range(list) \cup {bucket[n] : n \in near}
      /\ \A n \in 1..l : new[n] = list[n]
      /\ \A n \in (l + 1)..Len(new) : \E p \in near : new[n] = bucket[p]
      /\ \A a, n \in (l + 1)..Len(new) : new[a] = new[n] => a = n
  BY <1>3 DEF Pushes
<1>5. PICK b \in 0..l : b <= Trigger(clean[q]) /\ Fresh(list, b)
  BY DEF ListOK
<1>6. /\ \A a, n \in (b + 1)..l : list[a] = list[n] => a = n
      /\ \A n \in (b + 1)..l : Key(points[list[n] + 1], table) \notin left
  BY <1>5 DEF Fresh
<1>7. /\ clean[q] \in Nat /\ slots[q] \in Nat /\ clean[q] <= Cardinality(Range(list))
      /\ 2 * slots[q] <= 3 * Most(list) + 2 * Slack
  BY DEF ListOK
<1>8. /\ slots'[q] = Grown(q, k) /\ clean'[q] = clean[q]
      /\ left' = left \ {m} /\ points' = points /\ table' = table
  OBVIOUS
<1> DEFINE keyOf(i) == Key(points[i + 1], table)
<1>9. \A n \in (l + 1)..Len(new) : keyOf(new[n]) = m
  BY <1>1, <1>2, <1>4
<1> HIDE DEF list, new, l, k, keyOf
<1>10. ASSUME NEW a \in (b + 1)..Len(new), NEW n \in (b + 1)..Len(new), new[a] = new[n]
       PROVE  a = n
  <2>1. CASE a <= l /\ n <= l
    <3>1. a \in 1..l /\ n \in 1..l /\ a \in (b + 1)..l /\ n \in (b + 1)..l
      BY <1>4, <1>5, <2>1
    <3> QED
      BY <1>4, <1>6, <1>10, <3>1
  <2>2. CASE ~(a <= l) /\ ~(n <= l)
    <3>1. a \in (l + 1)..Len(new) /\ n \in (l + 1)..Len(new)
      BY <1>4, <1>5, <2>2
    <3> QED
      BY <1>4, <1>10, <3>1
  <2>3. ASSUME NEW x \in (b + 1)..Len(new), NEW y \in (b + 1)..Len(new), x <= l, ~(y <= l)
        PROVE  new[x] # new[y]
    <3>1. x \in 1..l /\ x \in (b + 1)..l /\ y \in (l + 1)..Len(new)
      BY <1>4, <1>5, <2>3
    <3>2. new[x] = list[x]
      BY <1>4, <3>1
    <3>3. keyOf(list[x]) \notin left
      BY <1>6, <3>1 DEF keyOf
    <3>4. keyOf(new[y]) = m
      BY <1>9, <3>1
    <3> QED
      BY <3>2, <3>3, <3>4
  <2> QED
    BY <1>10, <2>1, <2>2, <2>3
<1>11. ASSUME NEW n \in (b + 1)..Len(new) PROVE keyOf(new[n]) \notin left'
  <2>1. CASE n <= l
    <3>1. n \in 1..l /\ n \in (b + 1)..l
      BY <1>4, <1>5, <2>1
    <3>2. new[n] = list[n] /\ keyOf(list[n]) \notin left
      BY <1>4, <1>6, <3>1 DEF keyOf
    <3> QED
      BY <1>8, <3>2
  <2>2. CASE ~(n <= l)
    <3>1. n \in (l + 1)..Len(new)
      BY <1>4, <1>5, <2>2
    <3> QED
      BY <1>8, <1>9, <3>1
  <2> QED
    BY <2>1, <2>2
<1>12. b \in 0..Len(new)
  BY <1>4, <1>5
<1>13. Fresh(hits[q], b)'
  BY <1>8, <1>10, <1>11 DEF Fresh, keyOf, new
<1>14. /\ Cardinality(Range(list)) <= Cardinality(Range(new)) /\ Most(list) <= Most(new)
       /\ Most(list) \in Nat /\ Most(new) \in Nat
  <2>1. list \in Seq(Ids) /\ new \in Seq(Ids) /\ Range(list) \subseteq Range(new)
    BY <1>4 DEF list
  <2> QED
    BY <2>1, MostGrows
<1>15. clean[q] <= Cardinality(Range(new))
  <2>1. Cardinality(Range(list)) \in Nat /\ Cardinality(Range(new)) \in Nat
    BY <1>4, RangeFinite DEF list
  <2> QED
    BY <1>7, <1>14, <2>1
<1>16. Len(new) <= Most(new)
  <2> DEFINE c == clean[q]
  <2>1. CallOK /\ new \in Seq(Ids) /\ b \in 0..Len(new) /\ c \in Nat
    BY <1>4, <1>7, <1>12
  <2>2. c <= Cardinality(Range(new)) /\ b <= Trigger(c)
    BY <1>5, <1>15
  <2>3. \A a, n \in (b + 1)..Len(new) : new[a] = new[n] => a = n
    BY <1>10
  <2> HIDE DEF c
  <2> QED
    BY ONLY <2>1, <2>2, <2>3, LengthBounded
<1>17. slots'[q] \in Nat /\ 2 * slots'[q] <= 3 * Most(new) + 2 * Slack
  <2> DEFINE most == Most(new)
  <2>1. Slack \in Nat
    BY JoinAssumption
  <2>2. most \in Nat /\ l + k <= most /\ 2 * slots[q] <= 3 * most + 2 * Slack
    BY <1>4, <1>7, <1>14, <1>16, <2>1
  <2>3. l \in Nat /\ l = Len(hits[q]) /\ slots[q] \in Nat /\ k \in Nat
    BY <1>4, <1>7 DEF l, list
  <2> HIDE DEF most
  <2>4. Grown(q, k) \in Nat /\ 2 * Grown(q, k) <= 3 * most + 2 * Slack
    BY ONLY <2>2, <2>3, GrownBounded
  <2> QED
    BY <1>8, <2>4 DEF most
<1>18. ListOK(q)'
  <2>1. Range(hits[q])' = Range(new) /\ Most(hits[q])' = Most(new)
    BY DEF Range, Most, new
  <2>2. Trigger(clean[q])' = Trigger(clean[q]) /\ Len(hits[q])' = Len(new)
    BY <1>8 DEF Trigger, new
  <2> QED
    BY <1>5, <1>8, <1>12, <1>13, <1>15, <1>17, <2>1, <2>2 DEF ListOK
<1> QED
  BY <1>4, <1>17, <1>18 DEF list, new

-----------------------------------------------------------------------------
\* Answers stay as right as they were while no block is closed.
LEMMA AnswersStay ==
    ASSUME CallOK, AnswersOK, UNCHANGED <<call, answer>>, \A q \in Slots : Closed(q)' <=> Closed(q)
    PROVE  AnswersOK'
<1>1. rows' = rows /\ relaxed' = relaxed /\ UNCHANGED call
  BY DEF answer
<1>2. /\ Slots' = Slots
      /\ \A q : Scanned(q)' = Scanned(q) /\ ScannedShort(q)' = ScannedShort(q)
  BY <1>1, CallStays
<1>3. \A q \in Slots : Closed(q)' => rows'[q] = Scanned(q)
  BY <1>1 DEF AnswersOK
<1>4. relaxed' = {q \in Slots : Closed(q)' /\ ScannedShort(q)}
  BY <1>1 DEF AnswersOK
<1> QED
  BY <1>2, <1>3, <1>4 DEF AnswersOK

\* The hits of a bucket for one query: what the prefilter rules out is none.
LEMMA NearInBucket ==
    ASSUME CallOK, NEW q \in Slots, NEW bucket \in Seq(Ids)
    PROVE  {n \in {n \in DOMAIN bucket : ~RuledOut(q, bucket[n], arg)} :
               Gap(q, bucket[n]) <= arg /\ bucket[n] # Excluded(q)}
           = {n \in 1..Len(bucket) : Gap(q, bucket[n]) <= arg /\ bucket[n] # Excluded(q)}
<1>1. DOMAIN bucket = 1..Len(bucket) /\ \A n \in 1..Len(bucket) : bucket[n] \in Ids
  BY LenProperties, ElementOfSeq
<1>2. arg \in Int
  BY DEF CallOK
<1>3. \A n \in 1..Len(bucket) : RuledOut(q, bucket[n], arg) => ~(Gap(q, bucket[n]) <= arg)
  <2> SUFFICES ASSUME NEW n \in 1..Len(bucket), RuledOut(q, bucket[n], arg)
               PROVE  ~(Gap(q, bucket[n]) <= arg)
    OBVIOUS
  <2> DEFINE i == bucket[n]
             d == Gap(q, i)
  <2>1. i \in Ids /\ RuledOut(q, i, arg)
    BY <1>1
  <2> HIDE DEF i
  <2>2. d \in Nat
    BY <2>1, CallFacts
  <2>3. d > arg
    BY <1>2, <2>1, RuledOutIsFarther
  <2> HIDE DEF d
  <2>4. ~(d <= arg)
    BY <1>2, <2>2, <2>3
  <2> QED
    BY <2>4 DEF d, i
<1> QED
  BY <1>1, <1>3

\* A bucket scored for k nearest.
LEMMA KnnLoaded ==
    ASSUME JoinInv, phase = "score", left # {}, kind = "knn",
           UNCHANGED <<call, phase, first, table>>, left' = left \ {Min(left)},
           NEW bucket \in Listings(Bucket(table, Min(left))),
           LoadKnn({q \in Joined(first) : Min(left) \in ProbedKeys(q, table)}, bucket)
    PROVE  Buffers' /\ Held' /\ ListsOK'
<1> DEFINE m == Min(left)
           ids == Bucket(table, m)
           group == {q \in Joined(first) : m \in ProbedKeys(q, table)}
<1>1. CallOK /\ Buffers /\ Place /\ Held /\ ListsOK
  BY DEF JoinInv
<1>2. /\ m \in left /\ table \in Tables
      /\ \A q \in Slots : Seen(q)' = IF m \in ProbedKeys(q, table) THEN Seen(q) \cup ids ELSE Seen(q)
  BY <1>1, BucketSeen
<1>3. /\ Slots' = Slots /\ Ids' = Ids /\ kind' = kind /\ points' = points
      /\ \A q : Excluded(q)' = Excluded(q) /\ Joined(q)' = Joined(q)
      /\ \A q, some : Nearest(q, some)' = Nearest(q, some)
  BY <1>1, CallStays
<1>4. first \in Slots /\ Joined(first) \subseteq Slots
  <2>1. first \in Slots
    BY <1>1 DEF Place
  <2> QED
    BY <1>1, <2>1, BlockFacts
<1>5. bucket \in Seq(Ids) /\ Range(bucket) = ids
  <2>1. ids \subseteq Ids /\ bucket \in Listings(ids)
    BY DEF Bucket
  <2> HIDE DEF ids
  <2> QED
    BY <1>1, <2>1, ListingFacts
<1>6. /\ heaps' = [q \in Slots |-> IF q \in group THEN KnnScore(q, bucket).heap ELSE heaps[q]]
      /\ hits' = hits /\ clean' = clean /\ slots' = slots
  BY DEF LoadKnn
<1>7. UNCHANGED call /\ phase' = phase /\ first' = first /\ table' = table /\ left' = left \ {m}
  OBVIOUS
<1> HIDE DEF m, ids
<1>8. ASSUME NEW q \in Joined(first)
      PROVE  heaps'[q] = Nearest(q, Seen(q)' \ {Excluded(q)})
  <2>1. q \in Slots
    BY <1>4
  <2>2. heaps[q] = Nearest(q, Seen(q) \ {Excluded(q)})
    BY <1>1 DEF Held, Open, Wanted
  <2>3. Seen(q) \subseteq Ids
    BY DEF Seen
  <2>4. CASE m \in ProbedKeys(q, table)
    <3>1. heaps'[q] = KnnScore(q, bucket).heap /\ Seen(q)' = Seen(q) \cup Range(bucket)
      BY <1>2, <1>5, <1>6, <2>1, <2>4
    <3>2. KnnScore(q, bucket).heap = Nearest(q, (Seen(q) \cup Range(bucket)) \ {Excluded(q)})
      <4> DEFINE some == Seen(q)
      <4>1. some \in SUBSET Ids /\ heaps[q] = Nearest(q, some \ {Excluded(q)})
        BY <2>2, <2>3
      <4> HIDE DEF some
      <4>2. KnnScore(q, bucket).heap = Nearest(q, (some \cup Range(bucket)) \ {Excluded(q)})
        BY ONLY <1>1, <1>5, <2>1, <4>1, kind = "knn", BucketScored
      <4> QED
        BY <4>2 DEF some
    <3> QED
      BY <3>1, <3>2
  <2>5. CASE m \notin ProbedKeys(q, table)
    BY <1>2, <1>6, <2>1, <2>2, <2>5
  <2> QED
    BY <2>4, <2>5
<1>9. Held'
  BY <1>3, <1>7, <1>8 DEF Held, Wanted
<1>10. Buffers'
  <2>1. \A q \in Slots : heaps'[q] \in SUBSET Ids
    <3> SUFFICES ASSUME NEW q \in Slots PROVE heaps'[q] \in SUBSET Ids
      OBVIOUS
    <3>1. CASE q \in group
      <4>1. q \in Joined(first)
        BY <3>1
      <4>2. heaps'[q] = Nearest(q, Seen(q)' \ {Excluded(q)})
        BY <1>8, <4>1
      <4>3. Seen(q)' \subseteq Ids
        BY <1>3 DEF Seen
      <4> QED
        BY <4>2, <4>3 DEF Nearest
    <3>2. CASE q \notin group
      BY <1>1, <1>6, <3>2 DEF Buffers
    <3> QED
      BY <3>1, <3>2
  <2>2. heaps' \in [Slots -> SUBSET Ids]
    BY <1>6, <2>1
  <2> QED
    BY <1>1, <1>3, <1>6, <2>2 DEF Buffers
<1>11. ListsOK'
  <2>1. ASSUME NEW q \in Slots PROVE ListOK(q)'
    <3>1. ListOK(q) /\ left' \subseteq left
      BY <1>1, <1>7 DEF ListsOK
    <3>2. points' = points /\ table' = table /\ hits'[q] = hits[q] /\ clean'[q] = clean[q] /\ slots'[q] = slots[q]
      BY <1>3, <1>6, <1>7
    <3> QED
      BY ONLY <3>1, <3>2, ListStays
  <2> QED
    BY <1>3, <2>1 DEF ListsOK
<1> QED
  BY <1>9, <1>10, <1>11

\* A bucket scored within a radius.
LEMMA RadiusLoaded ==
    ASSUME JoinInv, phase = "score", left # {}, kind = "radius",
           UNCHANGED <<call, phase, first, table>>, left' = left \ {Min(left)},
           NEW bucket \in Listings(Bucket(table, Min(left))),
           LoadRadius({q \in Joined(first) : Min(left) \in ProbedKeys(q, table)}, bucket)
    PROVE  Buffers' /\ Held' /\ ListsOK'
<1> DEFINE m == Min(left)
           ids == Bucket(table, m)
           group == {q \in Joined(first) : m \in ProbedKeys(q, table)}
           near(q) == {n \in 1..Len(bucket) : Gap(q, bucket[n]) <= arg /\ bucket[n] # Excluded(q)}
           found(q) == {n \in {n \in DOMAIN bucket : ~RuledOut(q, bucket[n], arg)} :
                          Gap(q, bucket[n]) <= arg /\ bucket[n] # Excluded(q)}
<1>1. CallOK /\ Buffers /\ Place /\ Held /\ ListsOK
  BY DEF JoinInv
<1>2. /\ m \in left /\ table \in Tables
      /\ \A q \in Slots : Seen(q)' = IF m \in ProbedKeys(q, table) THEN Seen(q) \cup ids ELSE Seen(q)
  BY <1>1, BucketSeen
<1>3. /\ Slots' = Slots /\ Ids' = Ids /\ kind' = kind /\ points' = points /\ arg' = arg
      /\ \A q : Excluded(q)' = Excluded(q) /\ Joined(q)' = Joined(q)
      /\ \A q, i : Gap(q, i)' = Gap(q, i)
  BY <1>1, CallStays
<1>4. first \in Slots /\ Joined(first) \subseteq Slots
  <2>1. first \in Slots
    BY <1>1 DEF Place
  <2> QED
    BY <1>1, <2>1, BlockFacts
<1>5. /\ bucket \in Seq(Ids) /\ bucket \in Listings(ids)
      /\ {bucket[n] : n \in 1..Len(bucket)} = ids
      /\ \A n \in 1..Len(bucket) : bucket[n] \in Ids
  <2>1. ids \subseteq Ids /\ bucket \in Listings(ids)
    BY DEF Bucket
  <2> HIDE DEF ids
  <2>2. bucket \in Seq(Ids) /\ Range(bucket) = ids /\ DOMAIN bucket = 1..Len(bucket)
        /\ \A n \in 1..Len(bucket) : bucket[n] \in ids
    BY <1>1, <2>1, ListingFacts
  <2> QED
    BY <2>1, <2>2 DEF Range
<1>6. \A q \in Slots : found(q) = near(q)
  BY <1>1, <1>5, NearInBucket
<1>7. /\ hits' = [q \in Slots |->
              IF q \in group THEN hits[q] \o Picked(bucket, found(q)) ELSE hits[q]]
      /\ slots' = [q \in Slots |->
              IF q \in group THEN Grown(q, Cardinality(found(q))) ELSE slots[q]]
      /\ heaps' = heaps /\ clean' = clean
  BY DEF LoadRadius
<1>8. /\ UNCHANGED call /\ phase' = phase /\ first' = first /\ table' = table
      /\ left' = left \ {m}
  OBVIOUS
<1>9. \A q \in Slots : near(q) \in SUBSET (1..Len(bucket))
  OBVIOUS
<1>10. \A q \in Joined(first) :
          {bucket[n] : n \in near(q)} = {i \in ids \ {Excluded(q)} : Gap(q, i) <= arg}
  BY <1>5
<1> HIDE DEF m, ids, near, found
<1>11. ASSUME NEW q \in group
       PROVE  /\ ListOK(q)' /\ hits'[q] \in Seq(Ids) /\ slots'[q] \in Nat
              /\ Range(hits'[q]) = Range(hits[q]) \cup {bucket[n] : n \in near(q)}
  <2>1. q \in Slots
    BY <1>4
  <2> DEFINE places == near(q)
  <2>2. places \in SUBSET (1..Len(bucket))
    BY <1>9, <2>1
  <2>3. hits[q] \in Seq(Ids) /\ clean[q] \in Nat /\ slots[q] \in Nat /\ ListOK(q)
    BY <1>1, <2>1 DEF Buffers, ListsOK
  <2>4. found(q) = places
    BY <1>6, <2>1
  <2>5. hits'[q] = hits[q] \o Picked(bucket, places) /\ slots'[q] = Grown(q, Cardinality(places))
    BY <1>7, <2>1, <2>4
  <2>6. clean'[q] = clean[q] /\ points' = points /\ table' = table /\ left' = left \ {m}
    BY <1>3, <1>7, <1>8
  <2>7. bucket \in Listings(Bucket(table, m))
    BY <1>5 DEF ids
  <2> HIDE DEF places
  <2>8. /\ ListOK(q)' /\ hits'[q] \in Seq(Ids) /\ slots'[q] \in Nat
        /\ Range(hits'[q]) = Range(hits[q]) \cup {bucket[n] : n \in places}
    BY ONLY <1>1, <1>2, <2>2, <2>3, <2>5, <2>6, <2>7, ListGrows
  <2> QED
    BY <2>8 DEF places
<1>12. ASSUME NEW q \in Slots, q \notin group
       PROVE  ListOK(q)' /\ hits'[q] = hits[q] /\ slots'[q] = slots[q]
  <2>1. ListOK(q) /\ left' \subseteq left
    BY <1>1, <1>8 DEF ListsOK
  <2>2. hits'[q] = hits[q] /\ slots'[q] = slots[q]
    BY <1>7, <1>12
  <2>3. points' = points /\ table' = table /\ clean'[q] = clean[q]
    BY <1>3, <1>7, <1>8
  <2>4. ListOK(q)'
    BY ONLY <2>1, <2>2, <2>3, ListStays
  <2> QED
    BY <2>2, <2>4
<1>13. ListsOK'
  BY <1>3, <1>11, <1>12 DEF ListsOK
<1>14. Buffers'
  <2>1. \A q \in Slots : hits'[q] \in Seq(Ids) /\ slots'[q] \in Nat
    BY <1>1, <1>11, <1>12 DEF Buffers
  <2>2. hits' = [q \in Slots |-> hits'[q]] /\ slots' = [q \in Slots |-> slots'[q]]
    BY <1>7
  <2>3. hits' \in [Slots -> Seq(Ids)] /\ slots' \in [Slots -> Nat]
    BY ONLY <2>1, <2>2
  <2> QED
    BY <1>1, <1>3, <1>7, <2>3 DEF Buffers
<1>15. ASSUME NEW q \in Joined(first)
       PROVE  Range(hits'[q]) = {i \in Seen(q)' \ {Excluded(q)} : Gap(q, i) <= arg}
  <2>1. q \in Slots
    BY <1>4
  <2>2. Range(hits[q]) = {i \in Seen(q) \ {Excluded(q)} : Gap(q, i) <= arg}
    BY <1>1 DEF Held, Open, Wanted
  <2>3. CASE m \in ProbedKeys(q, table)
    <3>1. q \in group
      BY <2>3
    <3>2. Range(hits'[q]) = Range(hits[q]) \cup {i \in ids \ {Excluded(q)} : Gap(q, i) <= arg}
      BY <1>10, <1>11, <3>1
    <3>3. Seen(q)' = Seen(q) \cup ids
      BY <1>2, <2>1, <2>3
    <3> QED
      BY ONLY <2>2, <3>2, <3>3
  <2>4. CASE m \notin ProbedKeys(q, table)
    <3>1. q \notin group
      BY <2>4
    <3>2. hits'[q] = hits[q] /\ Seen(q)' = Seen(q)
      BY <1>2, <1>12, <2>1, <2>4, <3>1
    <3> QED
      BY <2>2, <3>2
  <2> QED
    BY <2>3, <2>4
<1>16. Held'
  <2>1. \A q \in Joined(first) : Range(hits[q])' = Range(hits'[q])
    BY DEF Range
  <2> QED
    BY <1>3, <1>8, <1>15, <2>1 DEF Held, Wanted
<1> QED
  BY <1>13, <1>14, <1>16

-----------------------------------------------------------------------------
\* The empty list is good, with nothing reserved.
LEMMA EmptyFacts ==
    /\ <<>> \in Seq(Ids) /\ Len(<<>>) = 0 /\ Range(<<>>) = {} /\ Cardinality(Range(<<>>)) = 0
    /\ Most(<<>>) \in Nat /\ Slack \in Nat /\ Trigger(0) \in Nat
<1>1. <<>> \in Seq(Ids) /\ Len(<<>>) = 0
  BY EmptySeq
<1>2. Range(<<>>) = {}
  BY DEF Range
<1>3. Cardinality({}) = 0
  BY FS_EmptySet
<1>4. Slack \in Nat
  BY JoinAssumption
<1>5. Most(<<>>) \in Nat /\ Trigger(0) \in Nat
  <2>1. Most(<<>>) = (9 * 0) \div 4 + Slack
    BY <1>2, <1>3 DEF Most
  <2>2. Trigger(0) = 0 + 0 \div 4 + Slack
    BY DEF Trigger
  <2> QED
    BY <1>4, <2>1, <2>2
<1> QED
  BY <1>1, <1>2, <1>3, <1>4, <1>5

\* A call starts with nothing answered and no list begun.
LEMMA InitHolds ==
    ASSUME Init
    PROVE  JoinInv
<1>1. CallOK
  <2>1. points \in Seq(Positions) /\ points # <<>>
    BY JoinAssumption DEF Init
  <2>2. queries \in Seq(Positions) /\ queries # <<>>
    <3>1. CASE selfJoin
      BY <2>1, <3>1 DEF Init
    <3>2. CASE ~selfJoin
      BY <3>2, JoinAssumption DEF Init
    <3> QED
      BY <3>1, <3>2
  <2>3. arg \in Nat /\ (kind = "knn" => arg # 0)
    BY JoinAssumption DEF Init
  <2> QED
    BY <2>1, <2>2, <2>3, JoinAssumption DEF Init, CallOK
<1>2. Buffers
  BY EmptyFacts DEF Init, Buffers
<1>3. Place
  <2>1. 1 \in Slots
    BY <1>1, CallFacts
  <2> QED
    BY <2>1 DEF Init, Place, Open
<1>4. Held
  BY DEF Init, Held, Open
<1>5. AnswersOK
  BY DEF Init, AnswersOK, Closed, Open
<1>6. ListsOK
  <2>1. ASSUME NEW q \in Slots PROVE ListOK(q)
    <3>1. hits[q] = <<>> /\ clean[q] = 0 /\ slots[q] = 0
      BY DEF Init
    <3>2. 0 \in 0..Len(<<>>) /\ Fresh(<<>>, 0) /\ 0 <= Trigger(0)
      BY EmptyFacts DEF Fresh
    <3>3. 2 * 0 <= 3 * Most(<<>>) + 2 * Slack
      BY EmptyFacts
    <3> QED
      BY <3>1, <3>2, <3>3, EmptyFacts DEF ListOK
  <2> QED
    BY <2>1 DEF ListsOK
<1> QED
  BY <1>1, <1>2, <1>3, <1>4, <1>5, <1>6 DEF JoinInv

\* A block opens with all its probed buckets of the first table to read.
LEMMA BlockOpens ==
    ASSUME CallOK, UNCHANGED call, NEW q \in Slots, OpenBlock(q)
    PROVE  Buffers' /\ Place' /\ Held' /\ ListsOK' /\ phase' = "score" /\ first' = q
<1>1. /\ Slots' = Slots /\ Ids' = Ids /\ kind' = kind /\ arg' = arg
      /\ \A i : Excluded(i)' = Excluded(i) /\ Joined(i)' = Joined(i)
      /\ \A i, t : ProbedKeys(i, t)' = ProbedKeys(i, t) /\ BlockKeys(i, t)' = BlockKeys(i, t)
      /\ \A i, some : Nearest(i, some)' = Nearest(i, some)
  BY CallStays
<1>2. /\ first' = q /\ table' = 1 /\ left' = BlockKeys(q, 1) /\ phase' = "score"
      /\ heaps' = [i \in Slots |-> {}]
      /\ hits' = [i \in Slots |-> <<>>]
      /\ clean' = [i \in Slots |-> 0]
      /\ slots' = [i \in Slots |-> 0]
  BY DEF OpenBlock
<1>3. 1 \in Tables /\ \A t \in Tables : ~(t < 1)
  <2>1. L \in Nat /\ L >= 1
    BY HashTypes
  <2> QED
    BY <2>1 DEF Tables
<1>4. Buffers'
  BY <1>1, <1>2, EmptyFacts DEF Buffers
<1>5. Place'
  BY <1>1, <1>2, <1>3 DEF Place, Open
<1>6. ASSUME NEW i \in Joined(q) PROVE Seen(i)' = {}
  <2>1. ProbedKeys(i, 1) \subseteq BlockKeys(q, 1)
    BY <1>3, ProbedFacts
  <2>2. \A j, t : t \in Tables => ~Read(i, j, t)'
    BY <1>1, <1>2, <1>3, <2>1 DEF Read
  <2> QED
    BY <2>2 DEF Seen
<1>7. Held'
  <2>1. ASSUME NEW i \in Joined(q)
        PROVE  heaps'[i] = Nearest(i, {}) /\ Range(hits'[i]) = {}
    <3>1. i \in Slots
      BY BlockFacts
    <3>2. Nearest(i, {}) = {}
      BY DEF Nearest
    <3> QED
      BY <1>2, <3>1, <3>2, EmptyFacts
  <2>2. \A i \in Joined(q) : Range(hits[i])' = Range(hits'[i])
    BY DEF Range
  <2>3. \A i \in Joined(q) : Wanted(i)' = {}
    BY <1>6 DEF Wanted
  <2> QED
    BY <1>1, <1>2, <2>1, <2>2, <2>3 DEF Held
<1>8. ListsOK'
  <2>1. ASSUME NEW i \in Slots PROVE ListOK(i)'
    <3>1. hits'[i] = <<>> /\ clean'[i] = 0 /\ slots'[i] = 0
      BY <1>2
    <3>2. Fresh(hits[i], 0)'
      BY <3>1, EmptyFacts DEF Fresh
    <3>3. 0 \in 0..Len(<<>>) /\ 0 <= Trigger(0) /\ 2 * 0 <= 3 * Most(<<>>) + 2 * Slack
      BY EmptyFacts
    <3>4. /\ Range(hits[i])' = Range(<<>>) /\ Most(hits[i])' = Most(<<>>)
          /\ Trigger(clean[i])' = Trigger(0) /\ Len(hits[i])' = Len(<<>>)
      BY <3>1 DEF Range, Most, Trigger
    <3> QED
      BY <3>1, <3>2, <3>3, <3>4, EmptyFacts DEF ListOK
  <2> QED
    BY <1>1, <2>1 DEF ListsOK
<1> QED
  BY <1>2, <1>4, <1>5, <1>7, <1>8

\* The step that loads a bucket.
LEMMA LoadKeeps ==
    ASSUME JoinInv, Load
    PROVE  JoinInv'
<1> DEFINE m == Min(left)
           ids == Bucket(table, m)
           group == {q \in Joined(first) : m \in ProbedKeys(q, table)}
<1>1. CallOK /\ Buffers /\ Place /\ Held /\ AnswersOK /\ ListsOK
  BY DEF JoinInv
<1>2. /\ phase = "score" /\ left # {} /\ left' = left \ {m}
      /\ UNCHANGED <<call, phase, first, table>> /\ UNCHANGED answer
      /\ \E bucket \in Listings(ids) :
            IF bucket = <<>> THEN UNCHANGED block
            ELSE IF kind = "knn" THEN LoadKnn(group, bucket) ELSE LoadRadius(group, bucket)
  BY DEF Load
<1>3. PICK bucket \in Listings(ids) :
            IF bucket = <<>> THEN UNCHANGED block
            ELSE IF kind = "knn" THEN LoadKnn(group, bucket) ELSE LoadRadius(group, bucket)
  BY <1>2
<1>4. /\ CallOK' /\ Slots' = Slots /\ Ids' = Ids /\ kind' = kind /\ arg' = arg /\ points' = points
      /\ \A q : Excluded(q)' = Excluded(q) /\ Joined(q)' = Joined(q)
      /\ \A q, t : BlockKeys(q, t)' = BlockKeys(q, t)
      /\ \A q, some : Nearest(q, some)' = Nearest(q, some)
      /\ \A q, i : Gap(q, i)' = Gap(q, i)
  BY <1>1, <1>2, CallStays
<1>5. /\ m \in left
      /\ \A q \in Slots : Seen(q)' = IF m \in ProbedKeys(q, table) THEN Seen(q) \cup ids ELSE Seen(q)
  BY <1>1, <1>2, BucketSeen
<1>6. Place'
  BY <1>1, <1>2, <1>4 DEF Place, Open
<1>7. AnswersOK'
  <2>1. \A q \in Slots : Closed(q)' <=> Closed(q)
    BY <1>2 DEF Closed, Open
  <2> QED
    BY <1>1, <1>2, <2>1, AnswersStay
<1>8. Buffers' /\ Held' /\ ListsOK'
  <2>1. CASE bucket = <<>>
    <3>1. heaps' = heaps /\ hits' = hits /\ clean' = clean /\ slots' = slots
      BY <1>3, <2>1 DEF block
    <3>2. ids = {}
      <4>1. ids \subseteq Ids
        BY DEF Bucket
      <4> HIDE DEF ids
      <4>2. Range(bucket) = ids
        BY <1>1, <1>3, <4>1, ListingFacts
      <4> QED
        BY <2>1, <4>2, EmptyFacts
    <3> HIDE DEF m, ids
    <3>3. \A q \in Slots : Seen(q)' = Seen(q)
      BY <1>5, <3>2
    <3>4. Buffers'
      BY <1>1, <1>4, <3>1 DEF Buffers
    <3>5. Held'
      <4>1. first \in Slots
        BY <1>1 DEF Place
      <4>2. \A q \in Joined(first) : q \in Slots
        BY <1>1, <4>1, BlockFacts
      <4>3. \A q \in Joined(first) : Wanted(q)' = Wanted(q) /\ Range(hits[q])' = Range(hits[q])
        BY <1>4, <3>1, <3>3, <4>2 DEF Wanted, Range
      <4> QED
        BY <1>1, <1>2, <1>4, <3>1, <4>3 DEF Held, Open
    <3>6. ListsOK'
      <4>1. ASSUME NEW q \in Slots PROVE ListOK(q)'
        <5>1. ListOK(q) /\ left' \subseteq left /\ points' = points /\ table' = table
              /\ hits'[q] = hits[q] /\ clean'[q] = clean[q] /\ slots'[q] = slots[q]
          BY <1>1, <1>2, <1>4, <3>1 DEF ListsOK
        <5> QED
          BY ONLY <5>1, ListStays
      <4> QED
        BY <1>4, <4>1 DEF ListsOK
    <3> QED
      BY <3>4, <3>5, <3>6
  <2>2. CASE bucket # <<>> /\ kind = "knn"
    BY <1>2, <1>3, <2>2, KnnLoaded
  <2>3. CASE bucket # <<>> /\ kind # "knn"
    <3>1. kind = "radius"
      BY <1>1, <2>3 DEF CallOK
    <3> QED
      BY <1>2, <1>3, <2>3, <3>1, RadiusLoaded
  <2> QED
    BY <2>1, <2>2, <2>3
<1> QED
  BY <1>4, <1>6, <1>7, <1>8 DEF JoinInv

-----------------------------------------------------------------------------
\* All of a table is seen once none of its buckets is left: then the next table
\* begins with nothing of it seen, and after the last one q has seen what a
\* scan gathers.
LEMMA TableSeen ==
    ASSUME CallOK, Place, Open, left = {}, NEW q \in Joined(first)
    PROVE  /\ q \in Slots /\ table \in Tables /\ table \in Int
           /\ Seen(q) = {i \in Ids : \E t \in Tables :
                            Key(points[i + 1], t) \in ProbedKeys(q, t) /\ t <= table}
           /\ table = L => Seen(q) = Gathered(q)
<1>1. table \in Tables /\ first \in Slots
  BY DEF Place
<1>2. L \in Nat /\ Tables = 1..L
  BY HashTypes DEF Tables
<1>3. q \in Slots
  BY <1>1, BlockFacts
<1>4. Seen(q) = {i \in Ids : \E t \in Tables :
                    Key(points[i + 1], t) \in ProbedKeys(q, t) /\ t <= table}
  <2>1. \A t \in Tables : t <= table <=> t < table \/ t = table
    BY <1>1, <1>2
  <2> QED
    BY <2>1 DEF Seen, Read
<1>5. Gathered(q) = {i \in Ids : \E t \in Tables : Key(points[i + 1], t) \in ProbedKeys(q, t)}
  BY DEF Gathered, Bucket
<1>6. table = L => Seen(q) = Gathered(q)
  <2>1. table = L => \A t \in Tables : t <= table
    BY <1>2
  <2> QED
    BY <1>4, <1>5, <2>1
<1> QED
  BY <1>1, <1>2, <1>3, <1>4, <1>6

\* A compacted list is good, and so is one too short to compact.
LEMMA ListCompacted ==
    ASSUME CallOK, Buffers, ListsOK, NEW q \in Slots, slots'[q] = slots[q],
           hits'[q] = IF Overgrown(q) THEN Distinct(q) ELSE hits[q],
           clean'[q] = IF Overgrown(q) THEN Len(Distinct(q)) ELSE clean[q]
    PROVE  /\ ListOK(q)' /\ Range(hits'[q]) = Range(hits[q])
           /\ hits'[q] \in Seq(Ids) /\ clean'[q] \in Nat
<1> DEFINE list == hits[q]
           new == hits'[q]
           ids == Range(hits[q])
<1>1. list \in Seq(Ids) /\ clean[q] \in Nat /\ slots[q] \in Nat
  BY DEF Buffers
<1>2. /\ ids \subseteq Ids /\ Cardinality(ids) \in Nat
      /\ Len(list) \in Nat /\ DOMAIN list = 1..Len(list)
  BY <1>1, RangeFinite
<1>3. clean[q] <= Cardinality(ids) /\ 2 * slots[q] <= 3 * Most(list) + 2 * Slack
  BY DEF ListsOK, ListOK
<1>4. Slack \in Nat
  BY JoinAssumption
<1>5. Distinct(q) = Ranked(q, ids)
  BY DEF Distinct
<1> HIDE DEF ids
<1>6. Ranked(q, ids) \in Seq(Ids) /\ Len(Ranked(q, ids)) = Cardinality(ids) /\ Range(Ranked(q, ids)) = ids
  <2>1. ids \in SUBSET Ids
    BY <1>2
  <2> QED
    BY ONLY <2>1, CallOK, q \in Slots, RankedRow
<1>7. /\ new \in Seq(Ids) /\ Range(new) = ids /\ clean'[q] \in Nat
      /\ Len(new) \in Nat /\ clean'[q] <= Cardinality(ids) /\ Len(new) <= Trigger(clean'[q])
  <2>1. CASE Overgrown(q)
    <3> DEFINE n == Cardinality(ids)
    <3>1. new \in Seq(Ids) /\ Range(new) = ids /\ Len(new) = n /\ clean'[q] = n /\ n \in Nat
      BY <1>2, <1>5, <1>6, <2>1
    <3> HIDE DEF n
    <3>2. n <= n + n \div 4 + Slack
      BY <1>4, <3>1
    <3>3. Len(new) <= Trigger(clean'[q])
      BY <3>1, <3>2 DEF Trigger
    <3>4. clean'[q] <= n
      BY <3>1
    <3> QED
      BY <3>1, <3>3, <3>4 DEF n
  <2>2. CASE ~Overgrown(q)
    <3>1. new = list /\ clean'[q] = clean[q]
      BY <2>2
    <3>2. ~(Len(list) > clean[q] + clean[q] \div 4 + Slack)
      BY <2>2 DEF Overgrown
    <3> DEFINE n == Len(list)
               c == clean[q]
               trigger == c + c \div 4 + Slack
    <3>3. n \in Nat /\ c \in Nat /\ ~(n > trigger)
      BY <1>1, <1>2, <3>2
    <3> HIDE DEF n, c
    <3>4. trigger \in Nat
      BY <1>4, <3>3
    <3> HIDE DEF trigger
    <3>5. n <= trigger
      BY <3>3, <3>4
    <3>6. Len(list) <= Trigger(clean[q])
      BY <3>5 DEF n, c, trigger, Trigger
    <3> QED
      BY <1>1, <1>2, <1>3, <3>1, <3>6 DEF ids
  <2> QED
    BY <2>1, <2>2
<1> DEFINE b == Len(new)
<1>8. Fresh(hits[q], Len(hits[q]))'
  <2>1. (Len(new) + 1)..Len(new) = {}
    BY <1>7
  <2> QED
    BY <2>1 DEF Fresh
<1>9. Most(new) = Most(list)
  BY <1>7 DEF Most, ids
<1>10. ListOK(q)'
  <2>1. /\ Range(hits[q])' = Range(new) /\ Most(hits[q])' = Most(new)
        /\ Trigger(clean[q])' = Trigger(clean'[q]) /\ Len(hits[q])' = Len(new)
    BY DEF Range, Most, Trigger
  <2>2. Len(new) \in 0..Len(new)
    BY <1>7
  <2>3. 2 * slots'[q] <= 3 * Most(new) + 2 * Slack
    BY <1>3, <1>9
  <2> HIDE DEF new
  <2> QED
    BY <1>7, <1>8, <2>1, <2>2, <2>3 DEF ListOK, new
<1> QED
  BY <1>7, <1>10 DEF ids

\* The step that closes a table.
LEMMA CloseKeeps ==
    ASSUME JoinInv, CloseTable
    PROVE  JoinInv'
<1>1. CallOK /\ Buffers /\ Place /\ Held /\ AnswersOK /\ ListsOK
  BY DEF JoinInv
<1>2. /\ phase = "score" /\ left = {} /\ UNCHANGED <<call, first, heaps, slots, answer>>
      /\ hits' = [q \in Slots |-> IF Overgrown(q) THEN Distinct(q) ELSE hits[q]]
      /\ clean' = [q \in Slots |-> IF Overgrown(q) THEN Len(Distinct(q)) ELSE clean[q]]
      /\ IF table < L THEN /\ table' = table + 1
                           /\ left' = BlockKeys(first, table + 1)
                           /\ UNCHANGED phase
                      ELSE phase' = "emit" /\ UNCHANGED <<table, left>>
  BY DEF CloseTable
<1>3. /\ CallOK' /\ Slots' = Slots /\ Ids' = Ids /\ kind' = kind /\ arg' = arg /\ points' = points
      /\ \A q : Excluded(q)' = Excluded(q) /\ Joined(q)' = Joined(q)
      /\ \A q, t : ProbedKeys(q, t)' = ProbedKeys(q, t) /\ BlockKeys(q, t)' = BlockKeys(q, t)
      /\ \A q, some : Nearest(q, some)' = Nearest(q, some)
      /\ \A q, i : Gap(q, i)' = Gap(q, i)
  BY <1>1, <1>2, CallStays
<1>4. /\ table \in Tables /\ first \in Slots /\ Open
      /\ L \in Nat /\ L >= 1 /\ Tables = 1..L
  BY <1>1, <1>2, HashTypes DEF Place, Open, Tables
<1>5. ASSUME NEW q \in Slots
      PROVE  /\ ListOK(q)' /\ Range(hits'[q]) = Range(hits[q])
             /\ hits'[q] \in Seq(Ids) /\ clean'[q] \in Nat
  <2>1. /\ hits'[q] = IF Overgrown(q) THEN Distinct(q) ELSE hits[q]
        /\ clean'[q] = IF Overgrown(q) THEN Len(Distinct(q)) ELSE clean[q]
        /\ slots'[q] = slots[q]
    BY <1>2
  <2> QED
    BY ONLY <1>1, <1>5, <2>1, ListCompacted
<1>6. ListsOK'
  BY <1>3, <1>5 DEF ListsOK
<1>7. Buffers'
  <2>1. \A q \in Slots : hits'[q] \in Seq(Ids) /\ clean'[q] \in Nat
    BY <1>5
  <2>2. hits' = [q \in Slots |-> hits'[q]] /\ clean' = [q \in Slots |-> clean'[q]]
    BY <1>2
  <2>3. hits' \in [Slots -> Seq(Ids)] /\ clean' \in [Slots -> Nat]
    BY ONLY <2>1, <2>2
  <2> QED
    BY <1>1, <1>2, <1>3, <2>3 DEF Buffers
<1>8. Place'
  <2>1. CASE table < L
    <3>1. table + 1 \in Tables
      BY <1>4, <2>1
    <3> QED
      BY <1>2, <1>3, <1>4, <2>1, <3>1 DEF Place, Open
  <2>2. CASE ~(table < L)
    <3>1. table = L
      BY <1>4, <2>2
    <3> QED
      BY <1>2, <1>3, <1>4, <2>2, <3>1 DEF Place, Open
  <2> QED
    BY <2>1, <2>2
<1>9. AnswersOK'
  <2>1. \A q \in Slots : Closed(q)' <=> Closed(q)
    BY <1>2 DEF Closed, Open
  <2> QED
    BY <1>1, <1>2, <2>1, AnswersStay
<1>10. ASSUME NEW q \in Joined(first)
       PROVE  q \in Slots /\ Seen(q)' = Seen(q)
  <2>1. /\ q \in Slots
        /\ Seen(q) = {i \in Ids : \E t \in Tables :
                         Key(points[i + 1], t) \in ProbedKeys(q, t) /\ t <= table}
    BY <1>1, <1>2, <1>4, TableSeen
  <2>2. CASE table < L
    <3>1. table + 1 \in Tables
      BY <1>4, <2>2
    <3>2. ProbedKeys(q, table + 1) \subseteq BlockKeys(first, table + 1)
      BY <1>1, <1>4, <3>1, ProbedFacts
    <3>3. Seen(q)' = {i \in Ids : \E t \in Tables :
                         /\ Key(points[i + 1], t) \in ProbedKeys(q, t)
                         /\ \/ t < table + 1
                            \/ t = table + 1 /\ Key(points[i + 1], t) \notin BlockKeys(first, table + 1)}
      BY <1>2, <1>3, <2>2 DEF Seen, Read
    <3>4. \A t \in Tables : t < table + 1 <=> t <= table
      BY <1>4
    <3>5. \A i \in Ids, t \in Tables :
             Key(points[i + 1], t) \in ProbedKeys(q, t) =>
                ((t < table + 1 \/ (t = table + 1 /\ Key(points[i + 1], t) \notin BlockKeys(first, table + 1)))
                 <=> t <= table)
      BY <3>2, <3>4
    <3> QED
      BY ONLY <2>1, <3>3, <3>5
  <2>3. CASE ~(table < L)
    <3>1. table' = table /\ left' = left
      BY <1>2, <2>3
    <3>2. Seen(q)' = Seen(q)
      BY <1>3, <3>1 DEF Seen, Read
    <3> QED
      BY <2>1, <3>2
  <2> QED
    BY <2>2, <2>3
<1>11. Held'
  <2>1. \A q \in Joined(first) : Wanted(q)' = Wanted(q) /\ Range(hits[q])' = Range(hits[q])
    <3>1. \A q \in Joined(first) : Range(hits[q])' = Range(hits'[q])
      BY DEF Range
    <3> QED
      BY <1>3, <1>5, <1>10, <3>1 DEF Wanted
  <2> QED
    BY <1>1, <1>2, <1>3, <1>4, <2>1 DEF Held
<1> QED
  BY <1>3, <1>6, <1>7, <1>8, <1>9, <1>11 DEF JoinInv

-----------------------------------------------------------------------------
\* What a block that is read to its end answers is what the scan answers.
LEMMA BlockAnswers ==
    ASSUME JoinInv, phase = "emit", NEW q \in Joined(first)
    PROVE  /\ (IF kind = "knn" THEN Ranked(q, heaps[q]) ELSE RadiusRow(q)) = Scanned(q)
           /\ (kind = "knn" /\ Short(Cardinality(heaps[q]))) <=> ScannedShort(q)
<1>1. CallOK /\ Buffers /\ Place /\ Held
  BY DEF JoinInv
<1>2. Open /\ left = {} /\ table = L
  BY <1>1 DEF Open, Place
<1>3. q \in Slots /\ Seen(q) = Gathered(q)
  BY <1>1, <1>2, TableSeen
<1>4. Wanted(q) = Gathered(q) \ {Excluded(q)}
  BY <1>3 DEF Wanted
<1>5. CASE kind = "knn"
  <2>1. heaps[q] = Nearest(q, Gathered(q) \ {Excluded(q)})
    BY <1>1, <1>2, <1>4, <1>5 DEF Held
  <2>2. Ranked(q, heaps[q]) = ScannedKnn(q)
    BY <2>1 DEF ScannedKnn
  <2>3. Len(Ranked(q, heaps[q])) = Cardinality(heaps[q])
    BY <1>1, <1>3, RankedRow DEF Buffers
  <2> QED
    BY <1>5, <2>2, <2>3 DEF Scanned, ScannedShort
<1>6. CASE kind # "knn"
  <2>1. kind = "radius"
    BY <1>1, <1>6 DEF CallOK
  <2>2. Range(hits[q]) = {i \in Gathered(q) \ {Excluded(q)} : Gap(q, i) <= arg}
    BY <1>1, <1>2, <1>4, <2>1 DEF Held
  <2>3. RadiusRow(q) = ScannedRadius(q)
    BY <2>2 DEF RadiusRow, Distinct, ScannedRadius
  <2> QED
    BY <1>6, <2>3 DEF Scanned, ScannedShort
<1> QED
  BY <1>5, <1>6

\* The step that answers a block and opens the next one, or ends the call.
LEMMA EmitKeeps ==
    ASSUME JoinInv, Emit
    PROVE  JoinInv'
<1> DEFINE next == first + QueriesPerBlock
           row(q) == IF kind = "knn" THEN Ranked(q, heaps[q]) ELSE RadiusRow(q)
<1>1. CallOK /\ Buffers /\ Place /\ Held /\ AnswersOK /\ ListsOK
  BY DEF JoinInv
<1>2. /\ phase = "emit" /\ UNCHANGED call
      /\ rows' = [q \in Slots |-> IF q \notin Joined(first) THEN rows[q] ELSE row(q)]
      /\ relaxed' = relaxed \cup {q \in Joined(first) : kind = "knn" /\ Short(Cardinality(heaps[q]))}
      /\ IF next <= Batch THEN OpenBlock(next)
                          ELSE phase' = "done" /\ UNCHANGED <<first, table, left, block>>
  BY DEF Emit
<1>3. /\ CallOK' /\ Slots' = Slots /\ Ids' = Ids /\ points' = points
      /\ \A q : Scanned(q)' = Scanned(q) /\ ScannedShort(q)' = ScannedShort(q)
  BY <1>1, <1>2, CallStays
<1>4. /\ first \in Slots /\ Slots = 1..Batch /\ Batch \in Nat
      /\ QueriesPerBlock \in Nat /\ QueriesPerBlock >= 1
      /\ \A i : i \in Joined(first) <=> i \in Slots /\ first <= i /\ i < first + QueriesPerBlock
  <2>1. first \in Slots
    BY <1>1 DEF Place
  <2> QED
    BY <1>1, <2>1, CallFacts, BlockFacts
<1>5. \A q \in Slots : Closed(q) <=> q < first
  BY <1>2 DEF Closed, Open
<1>6. \A q \in Joined(first) : row(q) = Scanned(q)
  BY <1>2, BlockAnswers
<1>7. \A q \in Joined(first) : (kind = "knn" /\ Short(Cardinality(heaps[q]))) <=> ScannedShort(q)
  BY <1>2, BlockAnswers
<1> HIDE DEF next, row
<1>8. ASSUME \A q \in Slots : Closed(q)' <=> (Closed(q) \/ q \in Joined(first))
      PROVE  AnswersOK'
  <2>1. \A q \in Slots : Closed(q)' => rows'[q] = Scanned(q)
    BY <1>1, <1>2, <1>6, <1>8 DEF AnswersOK
  <2>2. relaxed' = {q \in Slots : Closed(q)' /\ ScannedShort(q)}
    <3>1. relaxed = {q \in Slots : Closed(q) /\ ScannedShort(q)}
      BY <1>1 DEF AnswersOK
    <3>2. {q \in Joined(first) : kind = "knn" /\ Short(Cardinality(heaps[q]))}
          = {q \in Joined(first) : ScannedShort(q)}
      BY <1>7
    <3>3. Joined(first) \subseteq Slots
      BY <1>4
    <3> QED
      BY ONLY <1>2, <1>8, <3>1, <3>2, <3>3
  <2> QED
    BY <1>3, <2>1, <2>2 DEF AnswersOK
<1>9. CASE next <= Batch
  <2>1. next \in Slots /\ OpenBlock(next)
    BY <1>2, <1>4, <1>9 DEF next
  <2>2. Buffers' /\ Place' /\ Held' /\ ListsOK' /\ phase' = "score" /\ first' = next
    BY <1>1, <1>2, <2>1, BlockOpens
  <2>3. \A q \in Slots : Closed(q)' <=> q < next
    BY <2>2 DEF Closed, Open
  <2>4. \A q \in Slots : q < next <=> (q < first \/ q \in Joined(first))
    BY <1>4 DEF next
  <2>5. AnswersOK'
    BY <1>5, <1>8, <2>3, <2>4
  <2> QED
    BY <1>3, <2>2, <2>5 DEF JoinInv
<1>10. CASE ~(next <= Batch)
  <2>1. /\ phase' = "done" /\ first' = first /\ table' = table /\ left' = left
        /\ heaps' = heaps /\ hits' = hits /\ clean' = clean /\ slots' = slots
    BY <1>2, <1>10 DEF block
  <2>2. \A q \in Slots : Closed(q)'
    BY <2>1 DEF Closed
  <2>3. \A q \in Slots : q < first \/ q \in Joined(first)
    BY <1>4, <1>10 DEF next
  <2>4. AnswersOK'
    BY <1>5, <1>8, <2>2, <2>3
  <2>5. Buffers' /\ Place' /\ Held'
    BY <1>1, <1>3, <2>1 DEF Buffers, Place, Held, Open
  <2>6. ListsOK'
    <3>1. ASSUME NEW q \in Slots PROVE ListOK(q)'
      <4>1. ListOK(q) /\ left' \subseteq left /\ points' = points /\ table' = table
            /\ hits'[q] = hits[q] /\ clean'[q] = clean[q] /\ slots'[q] = slots[q]
        BY <1>1, <1>3, <2>1 DEF ListsOK
      <4> QED
        BY ONLY <4>1, ListStays
    <3> QED
      BY <1>3, <3>1 DEF ListsOK
  <2> QED
    BY <1>3, <2>4, <2>5, <2>6 DEF JoinInv
<1> QED
  BY <1>9, <1>10

\* A batch too small to join is scanned, and the step that begins to join one.
LEMMA CallKeeps ==
    ASSUME JoinInv, Scan \/ Join
    PROVE  JoinInv'
<1>1. CallOK /\ Buffers /\ Place /\ Held /\ AnswersOK /\ ListsOK
  BY DEF JoinInv
<1>2. phase = "call" /\ UNCHANGED call
  BY DEF Scan, Join
<1>3. /\ CallOK' /\ Slots' = Slots /\ Ids' = Ids /\ points' = points
      /\ \A q : Scanned(q)' = Scanned(q) /\ ScannedShort(q)' = ScannedShort(q)
  BY <1>1, <1>2, CallStays
<1>4. \A q \in Slots : ~Closed(q)
  BY <1>2 DEF Closed, Open
<1>5. CASE Scan
  <2>1. /\ rows' = [q \in Slots |-> IF kind = "knn" THEN ScannedKnn(q) ELSE ScannedRadius(q)]
        /\ relaxed' = {q \in Slots : kind = "knn" /\ Short(Len(rows'[q]))}
        /\ phase' = "done" /\ first' = first /\ table' = table /\ left' = left
        /\ heaps' = heaps /\ hits' = hits /\ clean' = clean /\ slots' = slots
    BY <1>5 DEF Scan, block
  <2>2. \A q \in Slots : rows'[q] = Scanned(q)
    BY <2>1 DEF Scanned
  <2>3. \A q \in Slots : (kind = "knn" /\ Short(Len(rows'[q]))) <=> ScannedShort(q)
    BY <2>2 DEF Scanned, ScannedShort
  <2>4. AnswersOK'
    <3>1. \A q \in Slots : Closed(q)'
      BY <2>1 DEF Closed
    <3> QED
      BY <1>3, <2>1, <2>2, <2>3, <3>1 DEF AnswersOK
  <2>5. Buffers' /\ Place' /\ Held'
    BY <1>1, <1>3, <2>1 DEF Buffers, Place, Held, Open
  <2>6. ListsOK'
    <3>1. ASSUME NEW q \in Slots PROVE ListOK(q)'
      <4>1. ListOK(q) /\ left' \subseteq left /\ points' = points /\ table' = table
            /\ hits'[q] = hits[q] /\ clean'[q] = clean[q] /\ slots'[q] = slots[q]
        BY <1>1, <1>3, <2>1 DEF ListsOK
      <4> QED
        BY ONLY <4>1, ListStays
    <3> QED
      BY <1>3, <3>1 DEF ListsOK
  <2> QED
    BY <1>3, <2>4, <2>5, <2>6 DEF JoinInv
<1>6. CASE Join
  <2>1. OpenBlock(1) /\ UNCHANGED <<call, answer>>
    BY <1>6 DEF Join
  <2>2. 1 \in Slots
    BY <1>1, CallFacts
  <2>3. Buffers' /\ Place' /\ Held' /\ ListsOK' /\ phase' = "score" /\ first' = 1
    BY <1>1, <1>2, <2>1, <2>2, BlockOpens
  <2>4. \A q \in Slots : Closed(q)' <=> Closed(q)
    <3>1. \A q \in Slots : ~(q < 1)
      BY <1>1, CallFacts
    <3> QED
      BY <1>4, <2>3, <3>1 DEF Closed, Open
  <2>5. AnswersOK'
    BY <1>1, <2>1, <2>4, AnswersStay
  <2> QED
    BY <1>3, <2>3, <2>5 DEF JoinInv
<1> QED
  BY <1>5, <1>6

\* A step that changes nothing.
LEMMA StutterKeeps ==
    ASSUME JoinInv, UNCHANGED vars
    PROVE  JoinInv'
<1>1. /\ UNCHANGED <<call, answer>> /\ phase' = phase /\ first' = first /\ table' = table
      /\ left' = left /\ heaps' = heaps /\ hits' = hits /\ clean' = clean /\ slots' = slots
  BY DEF vars, block
<1>2. CallOK /\ Buffers /\ Place /\ Held /\ AnswersOK /\ ListsOK
  BY DEF JoinInv
<1>3. /\ CallOK' /\ Slots' = Slots /\ Ids' = Ids /\ kind' = kind /\ arg' = arg /\ points' = points
      /\ \A q : Excluded(q)' = Excluded(q) /\ Joined(q)' = Joined(q)
      /\ \A q, t : ProbedKeys(q, t)' = ProbedKeys(q, t) /\ BlockKeys(q, t)' = BlockKeys(q, t)
      /\ \A q, some : Nearest(q, some)' = Nearest(q, some)
      /\ \A q, i : Gap(q, i)' = Gap(q, i)
  BY <1>1, <1>2, CallStays
<1>4. Buffers' /\ Place'
  BY <1>1, <1>2, <1>3 DEF Buffers, Place, Open
<1>5. Held'
  <2>1. \A q : Wanted(q)' = Wanted(q)
    BY <1>1, <1>3 DEF Wanted, Seen, Read
  <2>2. \A q : Range(hits[q])' = Range(hits[q])
    BY <1>1 DEF Range
  <2> QED
    BY <1>1, <1>2, <1>3, <2>1, <2>2 DEF Held, Open
<1>6. AnswersOK'
  <2>1. \A q \in Slots : Closed(q)' <=> Closed(q)
    BY <1>1 DEF Closed, Open
  <2> QED
    BY <1>1, <1>2, <2>1, AnswersStay
<1>7. ListsOK'
  <2>1. ASSUME NEW q \in Slots PROVE ListOK(q)'
    <3>1. ListOK(q) /\ left' \subseteq left /\ points' = points /\ table' = table
          /\ hits'[q] = hits[q] /\ clean'[q] = clean[q] /\ slots'[q] = slots[q]
      BY <1>1, <1>2, <1>3 DEF ListsOK
    <3> QED
      BY ONLY <3>1, ListStays
  <2> QED
    BY <1>3, <2>1 DEF ListsOK
<1> QED
  BY <1>3, <1>4, <1>5, <1>6, <1>7 DEF JoinInv

\* The invariant: what the heaps and lists of the open block hold of what was
\* read, what is answered for the blocks closed, and what a list holds twice.
THEOREM JoinHolds == Spec => []JoinInv
<1>1. Init => JoinInv
  BY InitHolds
<1>2. JoinInv /\ [Next]_vars => JoinInv'
  <2> SUFFICES ASSUME JoinInv, [Next]_vars PROVE JoinInv'
    OBVIOUS
  <2>1. CASE Scan \/ Join
    BY <2>1, CallKeeps
  <2>2. CASE Load
    BY <2>2, LoadKeeps
  <2>3. CASE CloseTable
    BY <2>3, CloseKeeps
  <2>4. CASE Emit
    BY <2>4, EmitKeeps
  <2>5. CASE UNCHANGED vars
    BY <2>5, StutterKeeps
  <2> QED
    BY <2>1, <2>2, <2>3, <2>4, <2>5 DEF Next
<1> QED
  BY <1>1, <1>2, PTL DEF Spec

\* A k-NN batch is answered as one query at a time would be, for every set of
\* points, batch, k, block size, number of tables and course of the prefilter.
THEOREM KnnJoinSame == Spec => []KnnJoinAgrees
<1>1. JoinInv => KnnJoinAgrees
  <2> SUFFICES ASSUME JoinInv, phase = "done", kind = "knn"
               PROVE  /\ \A q \in Slots : rows[q] = ScannedKnn(q)
                      /\ relaxed = {q \in Slots : Short(Len(ScannedKnn(q)))}
    BY DEF KnnJoinAgrees
  <2>1. AnswersOK /\ \A q \in Slots : Closed(q)
    BY DEF JoinInv, Closed
  <2>2. \A q \in Slots : rows[q] = Scanned(q)
    BY <2>1 DEF AnswersOK
  <2>3. relaxed = {q \in Slots : ScannedShort(q)}
    BY <2>1 DEF AnswersOK
  <2> QED
    BY <2>2, <2>3 DEF Scanned, ScannedShort
<1> QED
  BY <1>1, JoinHolds, PTL

\* So is a radius batch.
THEOREM RadiusJoinSame == Spec => []RadiusJoinAgrees
<1>1. JoinInv => RadiusJoinAgrees
  <2> SUFFICES ASSUME JoinInv, phase = "done", kind = "radius"
               PROVE  \A q \in Slots : rows[q] = ScannedRadius(q)
    BY DEF RadiusJoinAgrees
  <2>1. AnswersOK /\ \A q \in Slots : Closed(q)
    BY DEF JoinInv, Closed
  <2>2. \A q \in Slots : rows[q] = Scanned(q)
    BY <2>1 DEF AnswersOK
  <2> QED
    BY <2>2 DEF Scanned
<1> QED
  BY <1>1, JoinHolds, PTL

\* The radius join's lists stay within their bound whatever the number of tables.
THEOREM ListsBounded == Spec => []HitListsBounded
<1>1. JoinInv => HitListsBounded
  <2> SUFFICES ASSUME JoinInv, NEW q \in Slots
               PROVE  Len(hits[q]) <= Most(hits[q]) /\ 2 * slots[q] <= 3 * Most(hits[q]) + 2 * Slack
    BY DEF HitListsBounded, Most
  <2>1. CallOK /\ Buffers /\ ListOK(q)
    BY DEF JoinInv, ListsOK
  <2> DEFINE list == hits[q]
             c == clean[q]
  <2>2. list \in Seq(Ids) /\ c \in Nat
    BY <2>1 DEF Buffers
  <2>3. c <= Cardinality(Range(list)) /\ 2 * slots[q] <= 3 * Most(list) + 2 * Slack
    BY <2>1 DEF ListOK
  <2>4. PICK b \in 0..Len(list) : b <= Trigger(c) /\ Fresh(list, b)
    BY <2>1 DEF ListOK
  <2>5. \A m, n \in (b + 1)..Len(list) : list[m] = list[n] => m = n
    BY <2>4 DEF Fresh
  <2> HIDE DEF list, c
  <2>6. Len(list) <= Most(list)
    BY ONLY <2>1, <2>2, <2>3, <2>4, <2>5, LengthBounded
  <2> QED
    BY <2>3, <2>6 DEF list
<1> QED
  BY <1>1, JoinHolds, PTL
=============================================================================
