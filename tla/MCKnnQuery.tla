----------------------------- MODULE MCKnnQuery -----------------------------
EXTENDS KnnQuery

\* A circle: every table samples the one axis K times at different offsets.
Circle(n) == UNION {[1..m -> Positions] : m \in 1..n}
CircleAxes == [t \in Tables |-> [j \in Digits |-> 1]]
CircleOffsets == [t \in Tables |-> [j \in Digits |-> (t + j) % Grid]]

ThreeOnACircle == Circle(3)
TwoOnACircle == Circle(2)

AnyExclude == {NULL, -1, 0, 1, 2}
SelfExclude == {NULL, 0, 1}
NoneExclude == {NULL, -1}
=============================================================================
