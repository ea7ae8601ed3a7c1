---------------------------- MODULE MCMergeLoop ----------------------------
EXTENDS MergeLoop

CONSTANTS MaxKey, MaxLen

\* Every key-sorted tier of at most MaxLen entries; ids number the positions.
MCTiers ==
    UNION {{[i \in 1..n |-> Entry(ks[i], i)] :
               ks \in {f \in [1..n -> 0..MaxKey] :
                          \A i \in 1..(n - 1) : f[i] <= f[i + 1]}} : n \in 0..MaxLen}
=============================================================================
