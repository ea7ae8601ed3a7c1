------------------------------ MODULE Ranking ------------------------------
(***************************************************************************)
(* Sorting and masking, by what they return: no order in which elements    *)
(* are compared or moved shows in the program's results.                   *)
(***************************************************************************)
EXTENDS Integers, FiniteSets

\* A set in the order of a strict total order: the i-th has i - 1 before it.
Ordered(set, before(_, _)) ==
    [i \in 1..Cardinality(set) |->
        CHOOSE x \in set : Cardinality({y \in set : before(y, x)}) = i - 1]

Below(i, j) == i < j

\* seq[mask]: the elements at the given places, in the order they stand.
Picked(seq, places) ==
    LET place == Ordered(places, Below) IN [i \in DOMAIN place |-> seq[place[i]]]
=============================================================================
