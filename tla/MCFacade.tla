------------------------------ MODULE MCFacade ------------------------------
EXTENDS Facade

\* Both orders of the two thresholds, with the tables fully tuned, tuned but for
\* a pinned L, and fully pinned.
MCConfigs ==
    {[knn |-> th[1], radius |-> th[2], canRetune |-> pins[1], planned |-> pins[2]] :
        th \in {<<1, 2>>, <<2, 1>>, <<0, 3>>},
        pins \in {<<TRUE, TRUE>>, <<TRUE, FALSE>>, <<FALSE, FALSE>>}}

\* Every number of points, all at the origin or spread out; update then moves
\* the candidates anywhere.
MCFitInputs == {[i \in 1..n |-> c * (i % Circumference)] : n \in 1..MaxPoints, c \in {0, 1}}
=============================================================================
