-------------------------------- MODULE TopK --------------------------------
(***************************************************************************)
(* What a bounded candidate heap promises, whatever its layout: of all the *)
(* entries it was offered, it holds the K nearest.  Entries are ranked by  *)
(* (distance, id), so the promise does not depend on the order of offers.  *)
(***************************************************************************)
EXTENDS Integers, FiniteSets

CONSTANTS K,         \* capacity
          Entries,   \* what may be offered
          Less(_, _) \* the ranking of entries, a strict total order

VARIABLE best        \* the entries held

Init == best = {}

\* The entry is kept if there is room, or in place of the farthest one held.
Offer(e) ==
    LET all == best \cup {e}
        nearer(x) == {y \in all : Less(y, x)}
    IN  best' = {x \in all : Cardinality(nearer(x)) < K}

Next == \E e \in Entries : Offer(e)

Spec == Init /\ [][Next]_best
=============================================================================
