------------------------------ MODULE PyTables ------------------------------
(***************************************************************************)
(* The tables of the reference implementation, torann/lsh.py.  A point is  *)
(* its hash signature: its key in each table.  The hash itself (_table_    *)
(* codes) is a pure function of the coordinates and is modelled in the     *)
(* query modules; here only which key a point has in which table matters.  *)
(***************************************************************************)
EXTENDS TableOps

CONSTANTS Tables      \* the hash tables, 1..L

VARIABLES pts,        \* _pts as signatures: pts[i][t] is the key of id i - 1
          nPoints,    \* n_points
          nStatic,    \* n_static
          candIds,    \* _cand_sids: the candidate ids in row order
          keysC,      \* _keys_c: per table, the candidates' keys in row order
          stat,       \* _skeys_s / _sids_s
          cand        \* _skeys_c / _sids_c

pyVars == <<pts, nPoints, nStatic, candIds, keysC, stat, cand>>

IdRange(from, to) == [i \in 1..(to - from) |-> from + i - 1]

\* _tier_keys(ids) over the point array P.
TierKeys(P, ids) ==
    [t \in Tables |-> [i \in DOMAIN ids |-> P[ids[i] + 1][t]]]

\* _build_candidates over the point array P with n points, ns of them static.
BuildCandidates(P, n, ns) ==
    /\ candIds' = IdRange(ns, n)
    /\ keysC' = TierKeys(P, IdRange(ns, n))
    /\ cand' = [t \in Tables |-> SortTier(keysC'[t], ns)]

Init ==
    /\ pts = <<>> /\ nPoints = 0 /\ nStatic = 0
    /\ candIds = <<>>
    /\ keysC = [t \in Tables |-> <<>>]
    /\ stat = [t \in Tables |-> <<>>]
    /\ cand = [t \in Tables |-> <<>>]

Build(P, ns) ==
    /\ pts' = P
    /\ nPoints' = Len(P)
    /\ nStatic' = ns
    /\ stat' = LET keys == TierKeys(P, IdRange(0, ns))
               IN  [t \in Tables |-> SortTier(keys[t], 0)]
    /\ BuildCandidates(P, Len(P), ns)

\* Rows of table t whose key changed, and the entries that stay and that move.
MovedRows(newKeys, t) == {i \in DOMAIN candIds : newKeys[t][i] # keysC[t][i]}

\* Mutant: moved entries are not taken out of the tier.
Kept_All(newKeys, t) == cand[t]

Kept(newKeys, t) ==
    Picked(cand[t], {p \in DOMAIN cand[t] :
                        cand[t][p].id - nStatic + 1 \notin MovedRows(newKeys, t)})

Fresh(newKeys, t) ==
    Ordered({Entry(newKeys[t][i], candIds[i]) : i \in MovedRows(newKeys, t)}, KeyThenId)

\* Selective update: per table, only the entries whose key changed are taken
\* out and merged back in.
Update(C) ==
    LET P == SubSeq(pts, 1, nStatic) \o C
        newKeys == TierKeys(P, candIds)
    IN  /\ Len(C) = nPoints - nStatic
        /\ pts' = P
        /\ cand' = [t \in Tables |->
                       IF MovedRows(newKeys, t) = {} THEN cand[t]
                       ELSE NumpyInsert(Kept(newKeys, t), Fresh(newKeys, t))]
        /\ keysC' = newKeys
        /\ UNCHANGED <<nPoints, nStatic, candIds, stat>>

\* The candidate tier is merged into the static one, candidates first on equal
\* keys; then the new batch becomes the candidate tier.
Promote(C) ==
    /\ stat' = IF nPoints > nStatic
               THEN [t \in Tables |-> NumpyInsert(stat[t], cand[t])]
               ELSE stat
    /\ nStatic' = nPoints
    /\ pts' = pts \o C
    /\ nPoints' = nPoints + Len(C)
    /\ BuildCandidates(pts \o C, nPoints + Len(C), nPoints)
=============================================================================
