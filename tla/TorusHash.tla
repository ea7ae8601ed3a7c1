------------------------------ MODULE TorusHash ------------------------------
(***************************************************************************)
(* The L1 hash both LSH implementations share, on a grid.  A coordinate is *)
(* a multiple of 1/Grid of the unit torus, so codes, in-cell fractions and *)
(* distances are exact integers.  Table t samples K axes, with repetition, *)
(* shifts each by a random offset and cuts it into B cells; the K cell     *)
(* numbers are the digits of the point's key in base B, the first digit    *)
(* least significant.                                                      *)
(***************************************************************************)
EXTENDS Integers, Sequences, FiniteSetsExt, SequencesExt

CONSTANTS Grid,      \* positions per axis
          Dims,      \* d
          B, K, L,   \* cells per axis, digits per key, tables
          Probes,    \* neighbour buckets probed per table
          S, U       \* S[t][j] the axis, U[t][j] the offset of digit j of table t

Tables == 1..L
Digits == 1..K
Axes == 1..Dims
Positions == [Axes -> 0..(Grid - 1)]

ASSUME HashAssumption ==
    /\ {Grid, Dims, K, L} \subseteq Nat \ {0}
    /\ B \in Nat /\ B >= 2
    /\ Probes \in Nat
    /\ S \in [Tables -> [Digits -> Axes]]
    /\ U \in [Tables -> [Digits -> 0..(Grid - 1)]]

\* _table_codes / query_codes: the shifted coordinate in cells, times Grid.
Scaled(x, t, j) == ((x[S[t][j]] + U[t][j]) % Grid) * B
Code(x, t, j) == Scaled(x, t, j) \div Grid
Frac(x, t, j) == Scaled(x, t, j) % Grid

\* f[1] + ... + f[n], added from the left.
SumTo(f, n) ==
    LET sum[i \in 0..n] == IF i = 0 THEN 0 ELSE sum[i - 1] + f[i] IN sum[n]

\* The powers of b: pw[j] = pw[j - 1] * b.
Pw[j \in 0..K] == IF j = 0 THEN 1 ELSE Pw[j - 1] * B

\* point_key / _tier_keys.
Key(x, t) == SumTo([j \in Digits |-> Code(x, t, j) * Pw[j - 1]], K)

\* How near the coordinate is to a wall of its cell.
Closeness(x, t, j) == LET f == Frac(x, t, j) IN Min({f, Grid - f})

\* The digits that may be stepped: the ones nearest a wall, as many as there are
\* probes.  On a tie NumPy's argpartition may keep any, Rust keeps the lowest.
ProbeDigits(x, t) ==
    {ds \in kSubset(Min({Probes, K}), Digits) :
        \A i \in ds, j \in Digits \ ds : Closeness(x, t, i) <= Closeness(x, t, j)}

\* The key after digit j steps to the cell behind its nearest wall, cyclically.
ProbeKey(x, t, j) ==
    LET code == Code(x, t, j)
        dir == IF 2 * Frac(x, t, j) >= Grid THEN 1 ELSE -1
    IN  Key(x, t) + (((code + dir) % B) - code) * Pw[j - 1]

\* Toroidal L1 distance.
AxisGap(a, b) == LET d == IF a >= b THEN a - b ELSE b - a IN Min({d, Grid - d})
Dist(x, y) == SumTo([a \in Axes |-> AxisGap(x[a], y[a])], Dims)
=============================================================================
