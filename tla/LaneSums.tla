------------------------------ MODULE LaneSums ------------------------------
(***************************************************************************)
(* The order in which pairwise_l1 and pairwise_lp of brute.py add up the   *)
(* axes of a distance.  They sum column by column to avoid the (m, n, d)   *)
(* block, and promise the bits NumPy's own reduction of that block gives,  *)
(* which depend on the order alone.  A float sum is kept as its tree: a    *)
(* term is <<j>>, a sum the pair of its operands.                          *)
(***************************************************************************)
EXTENDS Integers, FiniteSetsExt

CONSTANT PairwiseMax   \* _PAIRWISE_MAX: from here on NumPy's block form serves

ASSUME LaneAssumption == PairwiseMax \in Nat /\ PairwiseMax >= 8

LaneIds == 0..7
Sum2(l, r) == <<l, r>>
TreeOf(r) == Sum2(Sum2(Sum2(r[0], r[1]), Sum2(r[2], r[3])), Sum2(Sum2(r[4], r[5]), Sum2(r[6], r[7])))

\* acc += column[j] for j from `from` up to `to`.
Straight(acc, column, from, to) ==
    LET sum[j \in (from - 1)..to] == IF j = from - 1 THEN acc ELSE Sum2(sum[j - 1], column[j])
    IN  sum[to]

\* Mutant: the last full round is left to the tail.
LoopEnd_Strict(d) == Min({j \in 8..d : j % 8 = 0 /\ j + 8 >= d})

\* The j at which `while j + 8 <= d` is left.
LoopEnd(d) == Min({j \in 8..d : j % 8 = 0 /\ j + 8 > d})

\* What lane l holds when the loop is left: a round at every j before.
Lane(column, l, end) ==
    LET sum[j \in {i \in 8..end : i % 8 = 0}] ==
            IF j = 8 THEN column[l] ELSE Sum2(sum[j - 8], column[j - 8 + l])
    IN  sum[end]

\* The accumulation both kernels share, over whatever fold puts in a column.
Accumulated(d, column) ==
    IF d < 8 THEN Straight(column[0], column, 1, d - 1)
    ELSE Straight(TreeOf([l \in LaneIds |-> Lane(column, l, LoopEnd(d))]), column, LoopEnd(d), d - 1)

\* NumPy's pairwise sum of n elements: straight below eight, eight accumulators up
\* to a block of 128, halves at a multiple of eight above (here: unknown).
NumpyLane(column, l, rounds) ==
    LET sum[i \in 0..rounds] == IF i = 0 THEN column[l] ELSE Sum2(sum[i - 1], column[8 * i + l])
    IN  sum[rounds]
NumpySum(n, column) ==
    IF n < 8 THEN Straight(column[0], column, 1, n - 1)
    ELSE IF n > PairwiseMax THEN <<"recursive", n>>
    ELSE LET whole == n - (n % 8)
             lanes == [l \in LaneIds |-> NumpyLane(column, l, whole \div 8 - 1)]
         IN  Straight(TreeOf(lanes), column, whole, n - 1)

\* The column of axis j: a gap, or its power, by square roots where p allows.
GapColumns(d) == [j \in 0..(d - 1) |-> <<j>>]
PowerColumns(d, p) == [j \in 0..(d - 1) |-> <<j, "power", p>>]
RootColumns(d, p) ==
    [j \in 0..(d - 1) |-> CASE p = "1/2" -> <<j, "sqrt", 1>>
                            [] p = "1/4" -> <<j, "sqrt", 2>>
                            [] OTHER -> <<j, "power", p>>]

\* pairwise_l1 and pairwise_lp: the block form past the limit, else column by column.
PairwiseL1(d) ==
    IF d > PairwiseMax THEN NumpySum(d, GapColumns(d)) ELSE Accumulated(d, GapColumns(d))
PairwiseLp(d, p) ==
    IF p = "1" THEN PairwiseL1(d)
    ELSE IF d > PairwiseMax THEN NumpySum(d, PowerColumns(d, p))
    ELSE Accumulated(d, RootColumns(d, p))

-----------------------------------------------------------------------------
\* brute.py, pairwise_l1: "the accumulation follows NumPy's own pairwise order for
\* d <= 128 (verified bit-for-bit)".  The same additions in the same order at every
\* number of axes, the last full round and an empty tail included, in either metric.
SumsInNumpyOrder(d, p) ==
    d <= PairwiseMax =>
        PairwiseLp(d, p) = NumpySum(d, IF p = "1" THEN GapColumns(d) ELSE RootColumns(d, p))
=============================================================================
