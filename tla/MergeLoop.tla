----------------------------- MODULE MergeLoop -----------------------------
(***************************************************************************)
(* The two-index merge loop of the compiled core, one output per step, as  *)
(* update runs it (moved entries into kept ones) and as promote runs it    *)
(* (candidates into anchors).  `fresh` wins ties.                          *)
(***************************************************************************)
EXTENDS TableOps

CONSTANT Tiers        \* the key-sorted tiers the loop may be given

ASSUME TiersAssumption ==
    \A T \in Tiers : T \in Seq(EntryType) /\ KeySorted(T)

VARIABLES fresh,      \* `moved` in update, the candidate tier in promote
          kept,       \* `kept` in update, the static tier in promote
          a, b,       \* entries consumed of each
          out         \* the merged arrays, as far as written

vars == <<fresh, kept, a, b, out>>

Init ==
    /\ fresh \in Tiers /\ kept \in Tiers
    /\ a = 0 /\ b = 0
    /\ out = <<>>

Running == Len(out) < Len(fresh) + Len(kept)

TakeFresh ==
    /\ Running
    /\ TakesFresh(fresh, kept, a, b)
    /\ out' = Append(out, fresh[a + 1])
    /\ a' = a + 1
    /\ UNCHANGED <<fresh, kept, b>>

TakeKept ==
    /\ Running
    /\ ~TakesFresh(fresh, kept, a, b)
    /\ out' = Append(out, kept[b + 1])
    /\ b' = b + 1
    /\ UNCHANGED <<fresh, kept, a>>

Next == TakeFresh \/ TakeKept

Spec == Init /\ [][Next]_vars

-----------------------------------------------------------------------------
\* Types, and one output for every entry consumed.
TypeOK ==
    /\ fresh \in Tiers /\ kept \in Tiers
    /\ a \in 0..Len(fresh) /\ b \in 0..Len(kept)
    /\ out \in Seq(EntryType)
    /\ Len(out) = a + b

\* p entries of the tier are below v and the others are not: what a binary
\* search for v returns.
IsLowerBound(tier, v, p) ==
    /\ p \in 0..Len(tier)
    /\ \A i \in 1..p : tier[i].key < v
    /\ \A i \in (p + 1)..Len(tier) : tier[i].key >= v

\* The dual search: p entries of the tier are at most v.
IsUpperBound(tier, v, p) ==
    /\ p \in 0..Len(tier)
    /\ \A i \in 1..p : tier[i].key <= v
    /\ \A i \in (p + 1)..Len(tier) : tier[i].key > v

\* Every consumed fresh entry stands where the reference's searchsorted and
\* insert puts it: at its own rank plus its lower bound in the untouched kept
\* tier.  The loop never searches; it must still agree for every tie.
FreshPlaced ==
    \A j \in 1..a : \E p \in 0..b :
        IsLowerBound(kept, fresh[j].key, p) /\ out[j + p] = fresh[j]

\* And every consumed kept entry is shifted by the fresh entries at or below it.
KeptPlaced ==
    \A j \in 1..b : \E p \in 0..a :
        IsUpperBound(fresh, kept[j].key, p) /\ out[j + p] = kept[j]

\* Both at every step of the loop.
EntriesPlaced == FreshPlaced /\ KeptPlaced

\* What has been written is sorted, and nothing still to come belongs before it.
OutSorted ==
    /\ KeySorted(out)
    /\ \A i \in DOMAIN out :
          /\ a < Len(fresh) => out[i].key <= fresh[a + 1].key
          /\ b < Len(kept) => out[i].key <= kept[b + 1].key

\* How far each index may be: what it has passed over is on the right side of
\* the other's head.  The strictness of the first half is the tie rule.
Heads ==
    /\ a < Len(fresh) => \A j \in 1..b : kept[j].key < fresh[a + 1].key
    /\ b < Len(kept) => \A j \in 1..a : fresh[j].key <= kept[b + 1].key

\* The finished array is the one NumPy builds, and the one RustTables uses.
MergeAgrees ==
    ~Running => /\ out = NumpyInsert(kept, fresh)
                /\ out = TwoPointerMerge(fresh, kept)
=============================================================================
