------------------------------ MODULE TableOps ------------------------------
(***************************************************************************)
(* Sequence operators behind the hash tables.  A tier of one table is a    *)
(* sequence of entries sorted by key; torann keeps it as two parallel      *)
(* arrays, `skeys` and `sids`.  Ids are the program's 0-based row numbers, *)
(* sequence positions are 1-based.                                         *)
(***************************************************************************)
EXTENDS Ranking, Integers, Sequences, FiniteSetsExt, SequencesExt

Entry(k, i) == [key |-> k, id |-> i]
EntryType == [key : Int, id : Nat]

\* The (key, id) order of a freshly sorted tier.
KeyThenId(x, y) == x.key < y.key \/ (x.key = y.key /\ x.id < y.id)

\* A tier sorted from zero: the entries of ids `id0`, `id0 + 1`, ... whose keys
\* are given in row order.
SortTier(rowKeys, id0) ==
    Ordered({Entry(rowKeys[i], id0 + i - 1) : i \in DOMAIN rowKeys}, KeyThenId)

\* searchsorted(side="left"): how many entries stand before the first key >= v.
LowerBound(tier, v) ==
    Min({i - 1 : i \in {j \in DOMAIN tier : tier[j].key >= v}} \cup {Len(tier)})

\* The ids filed under keys [lo, lo + width) when the bounds are searched for.
SearchedRange(tier, lo, width) ==
    SubSeq(tier, LowerBound(tier, lo) + 1, LowerBound(tier, lo + width))

-----------------------------------------------------------------------------
(***************************************************************************)
(* Two programs for one merge.  NumPy searches every insertion point in    *)
(* the untouched array and opens the slots at once; Rust walks both arrays *)
(* with two indices.  Both put `fresh` before `kept` on equal keys.        *)
(***************************************************************************)

\* np.insert(kept, np.searchsorted(kept.keys, fresh.keys), fresh): the j-th
\* fresh entry lands j - 1 slots after its insertion point.
NumpyInsert(kept, fresh) ==
    LET slot == [j \in DOMAIN fresh |-> LowerBound(kept, fresh[j].key) + j]
        opened(i) == Cardinality({j \in DOMAIN fresh : slot[j] < i})
    IN  [i \in 1..(Len(kept) + Len(fresh)) |->
            IF \E j \in DOMAIN fresh : slot[j] = i
            THEN fresh[opened(i) + 1]
            ELSE kept[i - opened(i)]]

\* Mutant: the kept entry wins a tie.
TakesFresh_Strict(fresh, kept, a, b) ==
    /\ a < Len(fresh)
    /\ b < Len(kept) => fresh[a + 1].key < kept[b + 1].key

\* The next output of the Rust loop comes from `fresh` (a and b are consumed).
TakesFresh(fresh, kept, a, b) ==
    /\ a < Len(fresh)
    /\ b < Len(kept) => fresh[a + 1].key <= kept[b + 1].key

\* The loop `for i in 0..n { if takes fresh { .. a += 1 } else { .. b += 1 } }`;
\* taken[i] is the value of `a` after i outputs.
TwoPointerMerge(fresh, kept) ==
    LET n == Len(fresh) + Len(kept)
        taken[i \in 0..n] ==
            IF i = 0 THEN 0
            ELSE LET a == taken[i - 1]
                 IN  IF TakesFresh(fresh, kept, a, i - 1 - a) THEN a + 1 ELSE a
    IN  [i \in 1..n |-> IF taken[i] > taken[i - 1]
                        THEN fresh[taken[i]]
                        ELSE kept[i - taken[i]]]

-----------------------------------------------------------------------------
\* What a tier must be: sorted by key, each id exactly once.
KeySorted(tier) == \A i, j \in DOMAIN tier : i <= j => tier[i].key <= tier[j].key
FilesOnce(tier, ids) ==
    /\ Len(tier) = Cardinality(ids)
    /\ {tier[i].id : i \in DOMAIN tier} = ids
=============================================================================
