----------------------------- MODULE RustTables -----------------------------
(***************************************************************************)
(* The tables of the compiled core, RustLshIndex in src/lib.rs.  Same      *)
(* contract as PyTables, different program: entries are merged by a        *)
(* two-index loop, and each tier may carry a direct-address offset table   *)
(* that replaces the binary search of every lookup.                        *)
(***************************************************************************)
EXTENDS TableOps

CONSTANTS Tables,         \* 0..l-1 in the code, 1..L here
          KeySpace,       \* B^K: keys are 0..KeySpace - 1
          WithinBudget    \* whether B^K offsets for both tiers fit OFFS_BUDGET

VARIABLES pts, nPoints, nStatic, keysC, stat, cand,   \* as in PyTables
          offsS, offsC    \* per table, offset of every key value; <<>> when unused

rsVars == <<pts, nPoints, nStatic, keysC, stat, cand, offsS, offsC>>

\* compute_keys(row0, n): per table, the keys of rows row0 .. row0 + n - 1.
ComputeKeys(P, row0, n) ==
    [t \in Tables |-> [i \in 1..n |-> P[row0 + i][t]]]

\* key_space: 0 switches direct addressing off.
DirectSpace == IF WithinBudget THEN KeySpace ELSE 0

\* Mutant: counts up to and including v.
BuildOffsets_Inclusive(tiers, n) ==
    IF DirectSpace = 0 \/ n = 0 THEN <<>>
    ELSE [t \in Tables |-> [v \in 0..DirectSpace |-> LowerBound(tiers[t], v + 1)]]

\* build_offsets: for each v in 0..B^K, the first position whose key is >= v.
BuildOffsets(tiers, n) ==
    IF DirectSpace = 0 \/ n = 0 THEN <<>>
    ELSE [t \in Tables |-> [v \in 0..DirectSpace |-> LowerBound(tiers[t], v)]]

\* build_candidate_tier over P with n points, ns of them static.
BuildCandidateTier(P, n, ns) ==
    /\ keysC' = ComputeKeys(P, ns, n - ns)
    /\ cand' = [t \in Tables |-> SortTier(keysC'[t], ns)]
    /\ offsC' = BuildOffsets(cand', n - ns)

Init ==
    /\ pts = <<>> /\ nPoints = 0 /\ nStatic = 0
    /\ keysC = [t \in Tables |-> <<>>]
    /\ stat = [t \in Tables |-> <<>>]
    /\ cand = [t \in Tables |-> <<>>]
    /\ offsS = <<>> /\ offsC = <<>>

Build(P, ns) ==
    /\ nPoints' = Len(P)
    /\ nStatic' = ns
    /\ pts' = P
    /\ stat' = LET keys == ComputeKeys(P, 0, ns)
               IN  [t \in Tables |-> SortTier(keys[t], 0)]
    /\ offsS' = BuildOffsets(stat', ns)
    /\ BuildCandidateTier(P, Len(P), ns)

\* Mutant: only rows whose key grew are noticed.
MovedRows_Grown(newKeys, t) ==
    {i \in 1..(nPoints - nStatic) : newKeys[t][i] > keysC[t][i]}

MovedRows(newKeys, t) == {i \in 1..(nPoints - nStatic) : newKeys[t][i] # keysC[t][i]}

Moved(newKeys, t) ==
    Ordered({Entry(newKeys[t][i], nStatic + i - 1) : i \in MovedRows(newKeys, t)}, KeyThenId)

\* Mutant: the entries that stay are sorted again.
Kept_Resorted(newKeys, t) ==
    Ordered({e \in ToSet(cand[t]) : e.id - nStatic + 1 \notin MovedRows(newKeys, t)},
            KeyThenId)

Kept(newKeys, t) ==
    Picked(cand[t], {p \in DOMAIN cand[t] :
                        cand[t][p].id - nStatic + 1 \notin MovedRows(newKeys, t)})

Update(C) ==
    LET P == SubSeq(pts, 1, nStatic) \o C
        newKeys == ComputeKeys(P, nStatic, nPoints - nStatic)
    IN  /\ Len(C) = nPoints - nStatic
        /\ pts' = P
        /\ cand' = [t \in Tables |->
                       IF MovedRows(newKeys, t) = {} THEN cand[t]
                       ELSE TwoPointerMerge(Moved(newKeys, t), Kept(newKeys, t))]
        /\ keysC' = newKeys
        /\ offsC' = BuildOffsets(cand', nPoints - nStatic)
        /\ UNCHANGED <<nPoints, nStatic, stat, offsS>>

Promote(C) ==
    /\ stat' = IF nPoints > nStatic
               THEN [t \in Tables |-> TwoPointerMerge(cand[t], stat[t])]
               ELSE stat
    /\ nStatic' = nPoints
    /\ offsS' = BuildOffsets(stat', nPoints)
    /\ pts' = pts \o C
    /\ nPoints' = nPoints + Len(C)
    /\ BuildCandidateTier(pts \o C, nPoints + Len(C), nPoints)

-----------------------------------------------------------------------------
\* static_range / cand_range: the entries of `tier` under keys [lo, lo + width),
\* by two offset loads when the tier has an offset table, else by search.
TierRange(tier, offs, t, lo, width) ==
    IF offs # <<>>
    THEN SubSeq(tier[t], offs[t][lo] + 1, offs[t][lo + width])
    ELSE SearchedRange(tier[t], lo, width)

StaticRange(t, lo, width) == TierRange(stat, offsS, t, lo, width)
CandRange(t, lo, width) == TierRange(cand, offsC, t, lo, width)
=============================================================================
