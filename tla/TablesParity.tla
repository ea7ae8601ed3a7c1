---------------------------- MODULE TablesParity ----------------------------
(***************************************************************************)
(* Both LSH implementations driven by the same calls, the way ToroidalNN   *)
(* drives whichever one is installed: build first, then any sequence of    *)
(* update and promote.  The tables must come out entry for entry the same, *)
(* and each must implement the index contract IndexSpec.                   *)
(***************************************************************************)
EXTENDS TableOps

CONSTANTS Tables, KeySpace, WithinBudget,
          MaxPoints       \* bound on the number of indexed points

ASSUME ParityAssumption ==
    KeySpace \in Nat \ {0} /\ WithinBudget \in BOOLEAN /\ MaxPoints \in Nat

VARIABLES pyPts, pyPoints, pyStatic, pyIds, pyKeys, pyStat, pyCand,
          rsPts, rsPoints, rsStatic, rsKeys, rsStat, rsCand, rsOffsS, rsOffsC

Py == INSTANCE PyTables WITH
        pts <- pyPts, nPoints <- pyPoints, nStatic <- pyStatic,
        candIds <- pyIds, keysC <- pyKeys, stat <- pyStat, cand <- pyCand

Rs == INSTANCE RustTables WITH
        pts <- rsPts, nPoints <- rsPoints, nStatic <- rsStatic,
        keysC <- rsKeys, stat <- rsStat, cand <- rsCand,
        offsS <- rsOffsS, offsC <- rsOffsC

vars == <<pyPts, pyPoints, pyStatic, pyIds, pyKeys, pyStat, pyCand,
          rsPts, rsPoints, rsStatic, rsKeys, rsStat, rsCand, rsOffsS, rsOffsC>>

Keys == 0..(KeySpace - 1)
Signatures == [Tables -> Keys]
Batches(n) == UNION {[1..m -> Signatures] : m \in 0..n}

Init == Py!Init /\ Rs!Init

\* A rebuild (_make_lsh) constructs a new object, so build only ever runs on an
\* empty index.
Build(P, ns) ==
    /\ pyPoints = 0
    /\ Py!Build(P, ns) /\ Rs!Build(P, ns)

Update(C) ==
    /\ pyPoints > 0
    /\ Py!Update(C) /\ Rs!Update(C)

Promote(C) ==
    /\ pyPoints > 0
    /\ Len(C) <= MaxPoints - pyPoints
    /\ Py!Promote(C) /\ Rs!Promote(C)

Next ==
    \/ \E P \in Batches(MaxPoints) \ {<<>>} : \E ns \in 0..Len(P) : Build(P, ns)
    \/ \E C \in Batches(MaxPoints) : Update(C) \/ Promote(C)

Spec == Init /\ [][Next]_vars

-----------------------------------------------------------------------------
Ids(from, to) == from..(to - 1)

\* The two backends hold byte-identical tables after any history of calls:
\* what the conformance tests compare through tables().  The tie order of a
\* bucket depends on the whole history (moved entries before kept ones,
\* candidates before anchors), so searchsorted-and-insert and the two-index
\* loop must break every tie alike.
SameTables ==
    /\ pyStat = rsStat
    /\ pyCand = rsCand
    /\ pyKeys = rsKeys
    /\ pyStatic = rsStatic

\* The ids a lookup of bucket `v` must return in the tier of ids `S`.
Bucket(t, v, S) == {i \in S : rsPts[i + 1][t] = v}
IdsIn(range) == {range[i].id : i \in DOMAIN range}

\* A bucket or prefix lookup of the compiled core returns exactly the points
\* that hash there now, each once: no entry lost by a merge, none left under an
\* old key, and no offset table older than the tier it addresses.  The binary
\* search that serves a key space over the budget finds the same entries.
LookupsAreCurrent ==
    \A t \in Tables, lo \in Keys : \A width \in 1..(KeySpace - lo) :
        LET s == Rs!StaticRange(t, lo, width)
            c == Rs!CandRange(t, lo, width)
            expected(S) == UNION {Bucket(t, v, S) : v \in lo..(lo + width - 1)}
        IN  /\ FilesOnce(s, expected(Ids(0, rsStatic)))
            /\ FilesOnce(c, expected(Ids(rsStatic, rsPoints)))
            /\ s = SearchedRange(rsStat[t], lo, width)
            /\ c = SearchedRange(rsCand[t], lo, width)

\* The reference tables stay sorted and complete, and the row-order keys that
\* decide which entries the next update moves are those of the current points.
ReferenceTablesSound ==
    \A t \in Tables :
        /\ KeySorted(pyStat[t]) /\ FilesOnce(pyStat[t], Ids(0, pyStatic))
        /\ KeySorted(pyCand[t]) /\ FilesOnce(pyCand[t], Ids(pyStatic, pyPoints))
        /\ pyKeys[t] = [i \in 1..(pyPoints - pyStatic) |-> pyPts[pyStatic + i][t]]

\* Where an id is filed, read off the sorted tables alone.
FiledIn(s, c, n) ==
    [i \in 1..n |-> [t \in Tables |->
        (CHOOSE e \in ToSet(s[t] \o c[t]) : e.id = i - 1).key]]

PyIx == INSTANCE IndexSpec WITH
          nStatic <- pyStatic, filed <- FiledIn(pyStat, pyCand, pyPoints)
RsIx == INSTANCE IndexSpec WITH
          nStatic <- rsStatic, filed <- FiledIn(rsStat, rsCand, rsPoints)

\* Each implementation, seen through where its tables file every id, does what
\* BaseIndex promises of the call: update re-files exactly the candidates and
\* where the caller says, promote re-files nobody and freezes the candidates.
ImplementIndex ==
    /\ PyIx!Init /\ RsIx!Init
    /\ [][/\ \A P \in Batches(MaxPoints) : \A ns \in 0..Len(P) :
                Build(P, ns) => PyIx!Build(P, ns) /\ RsIx!Build(P, ns)
          /\ \A C \in Batches(MaxPoints) :
                /\ Update(C) => PyIx!Update(C) /\ RsIx!Update(C)
                /\ Promote(C) => PyIx!Promote(C) /\ RsIx!Promote(C)]_vars

\* Entries an update does not move keep their order in the tier, so an epoch
\* in which nothing leaves its cell leaves the tables untouched.  An update is the
\* call that changes neither count.
UpdateKeepsOrder ==
    [][UNCHANGED <<rsPoints, rsStatic>> => \A t \in Tables :
          LET stays(e) == rsKeys'[t][e.id - rsStatic + 1] = rsKeys[t][e.id - rsStatic + 1]
              staying(tier) == Picked(tier, {p \in DOMAIN tier : stays(tier[p])})
          IN  staying(rsCand'[t]) = staying(rsCand[t])]_vars
=============================================================================
