------------------------------ MODULE HitModel ------------------------------
(***************************************************************************)
(* _wall_profile and _hit_rate of wrapper.py: the chance that one table    *)
(* finds a pair of points, from the pair's per-axis gaps, by an integral   *)
(* over the distance w of the query from its nearest cell wall.  The code  *)
(* sums Walls midpoints of w; here the same sum is kept in whole numbers,  *)
(* and held against a count over the hash and its probe rule themselves.   *)
(*                                                                         *)
(* Lengths are in units of a 4 * Walls-th of a cell: midpoints are odd and *)
(* gaps, times B, even, so no point ever stands on a wall.  Sums over the  *)
(* wall are in units of 1 / Whole(gaps), and a table of k digits has       *)
(* Whole(gaps)^k equally likely cases.                                     *)
(***************************************************************************)
EXTENDS Integers, Sequences, FiniteSetsExt, Combinatorics

CONSTANT Walls   \* _WALL_GRID

ASSUME WallsAssumption == Walls \in Nat \ {0}

Cell == 4 * Walls
Midpoints == 1..Walls
Wall(i) == 2 * i - 1

\* How many of the pair's gaps exceed t: G(t) times the number of axes.
Beyond(gaps, t) == Cardinality({j \in DOMAIN gaps : gaps[j] > t})

\* Twice the axes times s(w): the neighbour is in the query's cell.
Same(gaps, i) == 2 * Len(gaps) - Beyond(gaps, Wall(i)) - Beyond(gaps, Cell - Wall(i))

\* Mutant: two cells a side treated like more.
Adjacent_NoWrap(gaps, cells, i) == Beyond(gaps, Wall(i)) - Beyond(gaps, Cell + Wall(i))

\* ... and times a(w): it is one step across the nearest wall.
Adjacent(gaps, cells, i) ==
    IF cells = 2 THEN 2 * Len(gaps) - Same(gaps, i)
                 ELSE Beyond(gaps, Wall(i)) - Beyond(gaps, Cell + Wall(i))

Whole(gaps) == 4 * Len(gaps) * Walls

\* A(w) with half of its own midpoint, and the mass over all of them.
CloserMass(gaps, i) == 2 * MapThenSumSet(LAMBDA j : Same(gaps, j), 1..i) - Same(gaps, i)
Mass(gaps) == 2 * MapThenSumSet(LAMBDA j : Same(gaps, j), Midpoints)

\* NumPy's 0 ** 0 is 1.
Power(x, n) == IF n = 0 THEN 1 ELSE x^n

\* The other digits agree, fewer than m of them on a closer wall.
Ways(gaps, i, depth, m) ==
    MapThenSumSet(LAMBDA j : choose(depth - 1, j) * Power(CloserMass(gaps, i), j)
                             * Power(Mass(gaps) - CloserMass(gaps, i), depth - 1 - j), 0..(m - 1))

\* _hit_rate of a table of `depth` digits, times Whole(gaps)^depth.
HitRate(gaps, cells, depth, m) ==
    Mass(gaps)^depth
    + depth * MapThenSumSet(LAMBDA i : 2 * Adjacent(gaps, cells, i)
                                       * Ways(gaps, i, depth, Min({m, depth})), Midpoints)

-----------------------------------------------------------------------------
\* One axis of one draw: a gap, the query's place in its cell, the side it lies on.
Draws(gaps) == (DOMAIN gaps) \X {Wall(i) : i \in 1..(2 * Walls)} \X {-1, 1}

\* Cells between the query's and its neighbour's, and the probe's direction.
Crossed(gaps, draw) == (draw[2] + draw[3] * gaps[draw[1]]) \div Cell
ToWall(draw) == Min({draw[2], Cell - draw[2]})
Towards(draw) == IF 2 * draw[2] >= Cell THEN 1 ELSE -1

Equal(gaps, cells, draw) == Crossed(gaps, draw) % cells = 0
AcrossNearest(gaps, cells, draw) == (Crossed(gaps, draw) - Towards(draw)) % cells = 0

\* Twice the chance that a table of two digits finds the pair with m probes: in
\* its own bucket, or with one digit off that is among the m nearest to a wall,
\* equal distances being decided either way.
Found(gaps, cells, one, two, m) ==
    LET off(x, y) == /\ Equal(gaps, cells, y) /\ ~Equal(gaps, cells, x)
                     /\ AcrossNearest(gaps, cells, x)
        rank(x, y) == IF m >= 2 \/ (m = 1 /\ ToWall(x) < ToWall(y)) THEN 2
                      ELSE IF m = 1 /\ ToWall(x) = ToWall(y) THEN 1 ELSE 0
    IN  IF Equal(gaps, cells, one) /\ Equal(gaps, cells, two) THEN 2
        ELSE IF off(one, two) THEN rank(one, two)
        ELSE IF off(two, one) THEN rank(two, one) ELSE 0

Counted(gaps, cells, m) ==
    LET found(score) == {xy \in Draws(gaps) \X Draws(gaps) :
                            Found(gaps, cells, xy[1], xy[2], m) = score}
    IN  2 * Cardinality(found(2)) + Cardinality(found(1))

-----------------------------------------------------------------------------
\* The closed form that sizes the tables is the chance the hash and the probe rule
\* of _table_codes and _gather give, and it stays a chance, grows with the probes
\* and stops growing once every digit is probed.
HitRateSound(gaps, cells) ==
    /\ \A m \in 0..2 : 2 * HitRate(gaps, cells, 2, m) = Counted(gaps, cells, m)
    /\ \A depth \in 1..3 :
          /\ \A m \in 0..depth :
                HitRate(gaps, cells, depth, m) <= HitRate(gaps, cells, depth, m + 1)
          /\ HitRate(gaps, cells, depth, depth) = HitRate(gaps, cells, depth, depth + 1)
          /\ HitRate(gaps, cells, depth, depth) <= Whole(gaps)^depth
=============================================================================
