---------------------------- MODULE MCBlockJoin ----------------------------
EXTENDS BlockJoin

\* One axis, sampled by every digit at an offset of its own.
LineAxes == [t \in Tables |-> [j \in Digits |-> 1]]
LineOffsets == [t \in Tables |-> [j \in Digits |-> (2 * t + 3 * j) % Grid]]

At(x) == [a \in Axes |-> x]
\* Three points, the first one in a fixed cell.
ThreePoints == {cloud \in [1..3 -> Positions] : cloud[1] \in {At(0), At(1)}}
TwoQueries == {<<At(0), At(7)>>, <<At(3), At(3), At(10)>>}
=============================================================================
