------------------------------- MODULE Facade -------------------------------
(***************************************************************************)
(* ToroidalNN (torann/wrapper.py): the object that decides which index     *)
(* serves, and keeps its own copy of the points (the arena) beside the     *)
(* index's.  It starts exact, builds the LSH index when a threshold is     *)
(* crossed, and rebuilds it when the candidates drift or the set grows.    *)
(*                                                                         *)
(* A point is a position on a circle of Circumference grid steps; tuning   *)
(* is the choice of a drift limit, which the code computes from a random   *)
(* sample.                                                                 *)
(***************************************************************************)
EXTENDS Integers, Sequences, FiniteSetsExt

CONSTANTS Circumference,   \* grid steps around the torus
          MaxPoints,       \* bound on the number of indexed points
          SnapshotCap,     \* _TUNE_QUERIES: candidates the drift snapshot keeps
          DriftLimits,     \* the limits tuning may settle on, in grid steps
          Radii,           \* radius arguments
          FitInputs,       \* bound on the point sets fit is called with
          Configs,         \* constructor arguments, see Config
          NULL             \* None

Config == [knn : Nat, radius : Nat,     \* the two thresholds
           canRetune : BOOLEAN,         \* not every LSH parameter is pinned
           planned : BOOLEAN]           \* num_tables is None: the planner sizes L

ASSUME CircumferenceAssumption == Circumference \in Nat \ {0}
ASSUME MaxPointsAssumption == MaxPoints \in Nat
ASSUME SnapshotCapAssumption == SnapshotCap \in Nat \ {0}
ASSUME DriftLimitsAssumption == DriftLimits # {} /\ DriftLimits \subseteq Nat \ {0}
ASSUME ConfigsAssumption ==
    Configs \subseteq Config /\ \A c \in Configs : c.planned => c.canRetune
ASSUME NullAssumption == NULL \notin Radii /\ NULL \notin Nat /\ NULL \notin Seq(Nat)

VARIABLES config,          \* fixed at construction
          arena,           \* _arena, both tiers
          nStatic,         \* _n_static
          radiusHint,      \* _radius_hint
          useLsh,          \* _use_lsh
          impl,            \* _impl: its kind, its copy of the points, its n_static
          candRef,         \* _cand_ref: the drift snapshot
          driftLimit,      \* _drift_limit
          tunedN,          \* _tuned_n
          expectedRecall   \* _expected_recall

index == <<useLsh, impl, candRef, driftLimit, tunedN, expectedRecall>>
vars == <<config, arena, nStatic, radiusHint, index>>

Coords == 0..(Circumference - 1)
Batches == UNION {[1..m -> Coords] : m \in 0..MaxPoints}

ASSUME FitInputsAssumption == FitInputs \subseteq Batches \ {<<>>}

-----------------------------------------------------------------------------
nPoints == Len(arena)
nCandidates == nPoints - nStatic
candidates == SubSeq(arena, nStatic + 1, nPoints)

\* _torus_gaps on one axis.
Gap(x, y) == LET d == IF x >= y THEN x - y ELSE y - x
             IN  IF 2 * d <= Circumference THEN d ELSE Circumference - d

\* Twice np.median: the lower plus the upper median.
TwiceMedian(s) ==
    LET atMost(v) == Cardinality({i \in DOMAIN s : s[i] <= v})
        values == {s[i] : i \in DOMAIN s}
    IN  Min({v \in values : 2 * atMost(v) >= Len(s)})
      + Min({v \in values : 2 * atMost(v) > Len(s)})

\* The drift test of update: the snapshot against its rows of the new tier.
Drifted(new, ref, limit) ==
    TwiceMedian([i \in 1..Len(ref) |-> Gap(new[i], ref[i])]) >= 2 * limit

\* _threshold of the mode the fit-time hints select.
FitThreshold(hint) == IF hint = NULL THEN config.knn ELSE config.radius

\* Mutant: the slice starts at the first point.
Snapshot_FromZero(A, ns) ==
    IF Len(A) > ns THEN SubSeq(A, 1, Min({Len(A), SnapshotCap})) ELSE NULL

\* _snapshot_candidates over arena A with ns anchors.
Snapshot(A, ns) ==
    IF Len(A) > ns THEN SubSeq(A, ns + 1, Min({Len(A), ns + SnapshotCap})) ELSE NULL

Impl(kind, P, ns) == [kind |-> kind, pts |-> P, nStatic |-> ns]

\* Mutant: the new index is built from the points as they were.
BuildLsh_OldArena(A, ns) ==
    /\ useLsh' = TRUE
    /\ tunedN' = Len(A)
    /\ driftLimit' \in DriftLimits
    /\ expectedRecall' = IF config.planned THEN "predicted" ELSE expectedRecall
    /\ impl' = Impl("lsh", arena, ns)
    /\ candRef' = Snapshot(A, ns)

\* Mutant: the new index takes every point for an anchor.
BuildLsh_AllStatic(A, ns) ==
    /\ useLsh' = TRUE
    /\ tunedN' = Len(A)
    /\ driftLimit' \in DriftLimits
    /\ expectedRecall' = IF config.planned THEN "predicted" ELSE expectedRecall
    /\ impl' = Impl("lsh", A, Len(A))
    /\ candRef' = Snapshot(A, ns)

\* Mutant: a retune keeps the snapshot it was triggered by.
BuildLsh_OldSnapshot(A, ns) ==
    /\ useLsh' = TRUE
    /\ tunedN' = Len(A)
    /\ driftLimit' \in DriftLimits
    /\ expectedRecall' = IF config.planned THEN "predicted" ELSE expectedRecall
    /\ impl' = Impl("lsh", A, ns)
    /\ candRef' = IF candRef = NULL THEN Snapshot(A, ns) ELSE candRef

\* _build_lsh: tune, make a new index object, build it, take the snapshot.
BuildLsh(A, ns) ==
    /\ useLsh' = TRUE
    /\ tunedN' = Len(A)
    /\ driftLimit' \in DriftLimits
    /\ expectedRecall' = IF config.planned THEN "predicted" ELSE expectedRecall
    /\ impl' = Impl("lsh", A, ns)
    /\ candRef' = Snapshot(A, ns)

BuildBrute(A, ns) ==
    /\ useLsh' = FALSE
    /\ candRef' = NULL
    /\ impl' = Impl("brute", A, ns)
    /\ UNCHANGED <<tunedN, driftLimit, expectedRecall>>

-----------------------------------------------------------------------------
Init ==
    /\ config \in Configs
    /\ arena = <<>> /\ nStatic = 0
    /\ radiusHint = NULL
    /\ useLsh = FALSE
    /\ impl = Impl("none", <<>>, 0)
    /\ candRef = NULL
    /\ driftLimit = 0
    /\ tunedN = 0
    /\ expectedRecall = NULL

\* P is the static points followed by the candidates, ns the number of the former.
Fit(P, ns, hint) ==
    /\ ns \in 0..Len(P)
    /\ arena' = P
    /\ nStatic' = ns
    /\ radiusHint' = hint
    /\ IF Len(P) > FitThreshold(hint) THEN BuildLsh(P, ns) ELSE BuildBrute(P, ns)
    /\ UNCHANGED config

\* _check_fitted.
Fitted == arena # <<>>

Update(new) ==
    LET A == SubSeq(arena, 1, nStatic) \o new
    IN  /\ Fitted
        /\ Len(new) = nCandidates
        /\ arena' = A
        /\ IF useLsh /\ config.canRetune /\ candRef # NULL
                /\ Drifted(new, candRef, driftLimit)
           THEN BuildLsh(A, nStatic)
           ELSE /\ impl' = [impl EXCEPT !.pts = SubSeq(@, 1, impl.nStatic) \o new]
                /\ UNCHANGED <<useLsh, candRef, driftLimit, tunedN, expectedRecall>>
        /\ UNCHANGED <<config, nStatic, radiusHint>>

\* Mutant: growth to exactly the factor is tolerated.
Outgrown_Strict(n) == tunedN > 0 /\ 2 * n > 3 * tunedN

\* Mutant: without the guard, zero is the size last tuned for.
Outgrown_Unguarded(n) == 2 * n >= 3 * tunedN

\* n_points >= _PROMOTE_GROWTH * _tuned_n, the growth factor being 3/2.
Outgrown(n) == tunedN > 0 /\ 2 * n >= 3 * tunedN

Promote(C) ==
    LET A == arena \o C
    IN  /\ Fitted
        /\ Len(A) <= MaxPoints
        /\ arena' = A
        /\ nStatic' = nPoints
        /\ IF IF useLsh THEN config.canRetune /\ Outgrown(Len(A))
                        ELSE Len(A) > FitThreshold(radiusHint)
           THEN BuildLsh(A, nPoints)
           ELSE /\ impl' = Impl(impl.kind, impl.pts \o C, Len(impl.pts))
                /\ candRef' = IF useLsh THEN Snapshot(A, nPoints) ELSE candRef
                /\ UNCHANGED <<useLsh, driftLimit, tunedN, expectedRecall>>
        /\ UNCHANGED <<config, radiusHint>>

\* Mutant: the first query always builds the index.
Query_Eager(threshold) ==
    /\ Fitted
    /\ IF ~useLsh THEN BuildLsh(arena, nStatic) ELSE UNCHANGED index
    /\ UNCHANGED <<config, arena, nStatic, radiusHint>>

\* What a query of either kind does to the object: nothing, unless the mode's
\* threshold asks for LSH and no LSH index exists yet.
Query(threshold) ==
    /\ Fitted
    /\ IF nPoints > threshold /\ ~useLsh
       THEN BuildLsh(arena, nStatic)
       ELSE UNCHANGED index
    /\ UNCHANGED <<config, arena, nStatic, radiusHint>>

QueryKnn == Query(config.knn)
QueryRadius == Query(config.radius)

Next ==
    \/ \E P \in FitInputs, ns \in 0..MaxPoints, hint \in Radii \cup {NULL} : Fit(P, ns, hint)
    \/ \E new \in Batches : Update(new)
    \/ \E C \in Batches : Promote(C)
    \/ QueryKnn
    \/ QueryRadius

Spec == Init /\ [][Next]_vars

-----------------------------------------------------------------------------
\* Types of the object's attributes.
TypeOK ==
    /\ config \in Configs
    /\ arena \in Batches
    /\ nStatic \in 0..Len(arena)
    /\ radiusHint \in Radii \cup {NULL}
    /\ useLsh \in BOOLEAN
    /\ impl \in [kind : {"none", "brute", "lsh"}, pts : Batches, nStatic : 0..MaxPoints]
    /\ candRef \in Batches \cup {NULL}
    /\ driftLimit \in DriftLimits \cup {0}
    /\ tunedN \in 0..MaxPoints
    /\ expectedRecall \in {NULL, "predicted"}

\* The index and the facade never disagree on the points: exact scans in the
\* crossover band read the arena, everything else reads the index, and the two
\* are updated by different statements in a different order in every operation.
ImplInSync ==
    /\ impl.pts = arena
    /\ impl.nStatic = nStatic
    /\ Fitted => impl.kind = IF useLsh THEN "lsh" ELSE "brute"

\* The drift snapshot is about the current candidate tier: as many rows as the
\* tier has, up to the cap, and none when there is no tier or no LSH index.  A
\* snapshot left over from before a promote would compare other points.
SnapshotFitsTier ==
    /\ candRef # NULL <=> useLsh /\ nCandidates > 0
    /\ candRef # NULL => Len(candRef) = Min({nCandidates, SnapshotCap})

\* No epoch ends with the candidates farther from the tuned snapshot than the
\* limit the tables were tuned for.
DriftWithinLimit ==
    useLsh /\ config.canRetune /\ candRef # NULL =>
        ~Drifted(candidates, candRef, driftLimit)

\* Nor does the index serve more than half again the points it was tuned on.
GrowthWithinLimit ==
    useLsh => /\ tunedN \in 1..nPoints
              /\ config.canRetune => 2 * nPoints < 3 * tunedN

\* Which index serves follows from the thresholds, whatever order of fits,
\* promotions and lazily building queries led here.
ModeFollowsThresholds ==
    /\ ~useLsh => nPoints <= FitThreshold(radiusHint)
    /\ useLsh => nPoints > Min({config.knn, config.radius})

\* Seen through the points its index holds, the facade is a BaseIndex: each call
\* is the index's call of the same name with the same points, and every retune and
\* every lazy build, which replaces the index object, is invisible.  The points an
\* update or a promote was called with are the candidates it leaves.
Ix == INSTANCE IndexSpec WITH filed <- impl.pts, nStatic <- impl.nStatic

ImplementsIndex ==
    /\ Ix!Init
    /\ [][/\ Fit(arena', nStatic', radiusHint') => Ix!Build(arena', nStatic')
          /\ Update(candidates') => Ix!Update(candidates')
          /\ Promote(candidates') => Ix!Promote(candidates')
          /\ QueryKnn \/ QueryRadius => UNCHANGED Ix!ixVars]_vars

\* wrapper.py documents expected_recall as "None while exact or with explicit
\* tables".
RecallOnlyWhenPlanned ==
    expectedRecall # NULL => useLsh /\ config.planned
=============================================================================
