----------------------------- MODULE ExactScans -----------------------------
(***************************************************************************)
(* The exact path twice: exact_knn / exact_radius of brute.py, which mask  *)
(* the excluded id with an infinite distance in a row of the distance      *)
(* matrix, and brute_knn / brute_radius of lib.rs, which skip it.  Which   *)
(* of the two serves depends on what is installed, so they must agree.     *)
(* Distances are ranks 0..Farthest; Inf is the float infinity.             *)
(***************************************************************************)
EXTENDS Integers, Sequences, FiniteSetsExt, SequencesExt

CONSTANTS RowLength,  \* bound on the number of points
          Farthest,   \* bound on the distances told apart
          MostAsked   \* bound on k

ASSUME ScanAssumption == {RowLength, Farthest, MostAsked} \subseteq Nat \ {0}

Inf == Farthest + 1

VARIABLES row,            \* row[i] is the query's distance to id i - 1
          excluded,       \* the excluded id, -1 for none
          asked, cutoff,  \* the arguments: k and the radius
          answered,       \* the scans that have answered
          pyKnn, rsKnn,   \* rows of k: ids, nearest first, -1 after the last
          pyRadius, rsRadius   \* rows: ids, nearest first

scanVars == <<row, excluded, asked, cutoff, answered, pyKnn, rsKnn, pyRadius, rsRadius>>
scanInput == <<row, excluded, asked, cutoff>>

RowIds == 0..(Len(row) - 1)

\* _exclude: the row of the matrix with the excluded column overwritten.
Masked == [i \in RowIds |-> IF i = excluded THEN Inf ELSE row[i + 1]]
Raw == [i \in RowIds |-> row[i + 1]]

\* Ids in ascending order of a distance d, equal distances by ascending id.
Nearer(d, i, j) == d[i] < d[j] \/ (d[i] = d[j] /\ i < j)
Ahead(ids, d, i) == Cardinality({j \in ids : Nearer(d, j, i)})
Ranked(ids, d) == [n \in 1..Cardinality(ids) |-> CHOOSE i \in ids : Ahead(ids, d, i) = n - 1]

ScanInit ==
    /\ row \in UNION {[1..n -> 0..Farthest] : n \in 1..RowLength}
    /\ excluded \in -1..(Len(row) - 1)
    /\ asked \in 1..MostAsked
    /\ cutoff \in 0..Inf
    /\ answered = {}
    /\ pyKnn = <<>> /\ rsKnn = <<>> /\ pyRadius = <<>> /\ rsRadius = <<>>

-----------------------------------------------------------------------------
\* argmin, or argpartition: any kk columns none of which is above one left out.
Partitions(kk) ==
    IF kk = 1
    THEN {{i \in RowIds : \A j \in RowIds \ {i} : Nearer(Masked, i, j)}}
    ELSE {part \in kSubset(kk, RowIds) :
            \A i \in part, j \in RowIds \ part : Masked[i] <= Masked[j]}

\* Mutant: whatever argpartition kept of a tie is returned.
Reselected_Never(part, kk) == part

\* Rows tied at the kk-th distance are selected again: the first kk of every id
\* at or below it.
Reselected(part, kk) ==
    LET kth == Max({Masked[i] : i \in part})
        tied(ids) == Cardinality({i \in ids : Masked[i] = kth})
        pool == {i \in RowIds : Masked[i] <= kth}
    IN  IF kk > 1 /\ tied(RowIds) > tied(part)
        THEN {i \in pool : Ahead(pool, Masked, i) < kk}
        ELSE part

\* The selected columns in order; the excluded one, at infinity, is blanked out.
ExactKnn ==
    /\ "exact_knn" \notin answered
    /\ LET kk == Min({asked, Len(row)})
       IN  \E part \in Partitions(kk) :
             LET order == Ranked(Reselected(part, kk), Masked)
             IN  pyKnn' = [n \in 1..asked |->
                              IF n <= kk /\ Masked[order[n]] < Inf THEN order[n] ELSE -1]
    /\ answered' = answered \cup {"exact_knn"}
    /\ UNCHANGED <<scanInput, rsKnn, pyRadius, rsRadius>>

\* The heap of min(asked, n) slots, see CandidateHeap, in a row of -1.
BruteKnn ==
    /\ "brute_knn" \notin answered
    /\ LET ranked == Ranked(RowIds \ {excluded}, Raw)
       IN  rsKnn' = [n \in 1..asked |-> IF n <= Len(ranked) THEN ranked[n] ELSE -1]
    /\ answered' = answered \cup {"brute_knn"}
    /\ UNCHANGED <<scanInput, pyKnn, pyRadius, rsRadius>>

ExactRadius ==
    /\ "exact_radius" \notin answered
    /\ pyRadius' = Ranked({i \in RowIds : Masked[i] <= cutoff}, Masked)
    /\ answered' = answered \cup {"exact_radius"}
    /\ UNCHANGED <<scanInput, pyKnn, rsKnn, rsRadius>>

BruteRadius ==
    /\ "brute_radius" \notin answered
    /\ rsRadius' = Ranked({i \in RowIds \ {excluded} : Raw[i] <= cutoff}, Raw)
    /\ answered' = answered \cup {"brute_radius"}
    /\ UNCHANGED <<scanInput, pyKnn, rsKnn, pyRadius>>

ScanNext == ExactKnn \/ BruteKnn \/ ExactRadius \/ BruteRadius

ScanSpec == ScanInit /\ [][ScanNext]_scanVars

-----------------------------------------------------------------------------
\* Which backend is installed cannot be told from an exact answer: the two k-NN scans
\* return the same row, ties at the k-th place included, although one partitions
\* a masked row and repairs its ties and the other keeps a heap; so do the two
\* range scans, at every finite cutoff.
ScansAgree ==
    /\ {"exact_knn", "brute_knn"} \subseteq answered => pyKnn = rsKnn
    /\ {"exact_radius", "brute_radius"} \subseteq answered /\ cutoff < Inf
          => pyRadius = rsRadius

\* wrapper.py, query_radius: "The querying candidate itself is excluded for the
\* default self-join", with inf among the radii it accepts.
SelfNeverReturned == excluded \notin Range(pyRadius)
=============================================================================
