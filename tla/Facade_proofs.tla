---------------------------- MODULE Facade_proofs ----------------------------
(***************************************************************************)
(* For any number of points, any thresholds, any drift limits and any      *)
(* history of calls: ToroidalNN keeps arena and index equal, its tables    *)
(* are never used beyond what they were tuned for, and seen from outside   *)
(* it is a BaseIndex whatever it rebuilds.  When calls of any number of    *)
(* threads are cut where the interpreter lock is released, or fail there,  *)
(* what the facade is left with is what FaultsLeave says, an index that    *)
(* was never tuned stays so until a fit or a drift, and a call nobody      *)
(* changed the facade under does what it does alone.                       *)
(***************************************************************************)
EXTENDS FacadeFaults, SequenceTheorems, FiniteSetTheorems, TLAPS

\* What is true between any two calls.  Each part but the last is a property of
\* its own; none but TypeOK is preserved without the others.
IInv ==
    /\ TypeOK
    /\ ImplInSync
    /\ SnapshotFitsTier
    /\ DriftWithinLimit
    /\ GrowthWithinLimit
    /\ ModeFollowsThresholds
    /\ useLsh => driftLimit \in DriftLimits

-----------------------------------------------------------------------------
\* Batches are the short sequences of coordinates.
LEMMA BatchFacts ==
    ASSUME NEW s
    PROVE  s \in Batches <=> s \in Seq(Coords) /\ Len(s) \in 0..MaxPoints
<1>1. ASSUME s \in Batches PROVE s \in Seq(Coords) /\ Len(s) \in 0..MaxPoints
  <2>1. PICK m \in 0..MaxPoints : s \in [1..m -> Coords]
    BY <1>1 DEF Batches
  <2>2. m \in Nat
    BY <2>1, MaxPointsAssumption
  <2>3. s \in Seq(Coords)
    BY <2>1, <2>2, SeqDef
  <2> QED
    BY <2>1, <2>2, <2>3, LenProperties
<1>2. ASSUME s \in Seq(Coords), Len(s) \in 0..MaxPoints PROVE s \in Batches
  BY <1>2, LenProperties DEF Batches
<1> QED
  BY <1>1, <1>2

\* A call may be given no rows.
LEMMA NoRows == <<>> \in Batches /\ Len(<<>>) = 0
<1>1. <<>> \in Seq(Coords) /\ Len(<<>>) = 0
  BY EmptySeq
<1>2. Len(<<>>) \in 0..MaxPoints
  BY <1>1, MaxPointsAssumption
<1> QED
  BY <1>1, <1>2, BatchFacts

\* The smaller of two numbers.
LEMMA MinOfTwo ==
    ASSUME NEW x \in Int, NEW y \in Int
    PROVE  Min({x, y}) = IF x <= y THEN x ELSE y
<1>1. PICK m \in {x, y} : m = IF x <= y THEN x ELSE y
  OBVIOUS
<1>2. \A z \in {x, y} : m <= z
  BY <1>1
<1>3. Min({x, y}) \in {x, y} /\ \A z \in {x, y} : Min({x, y}) <= z
  BY <1>1, <1>2 DEF Min
<1> QED
  BY <1>1, <1>2, <1>3

\* A gap from a point to itself is nothing.
LEMMA NoGap ==
    ASSUME NEW x \in Coords
    PROVE  Gap(x, x) = 0
<1>1. x \in Nat
  BY CircumferenceAssumption DEF Coords
<1> QED
  BY <1>1, CircumferenceAssumption DEF Gap

\* The median of zeros is zero.
LEMMA MedianOfZeros ==
    ASSUME NEW n \in Nat \ {0}
    PROVE  TwiceMedian([i \in 1..n |-> 0]) = 0
<1> DEFINE s == [i \in 1..n |-> 0]
           atMost(v) == Cardinality({i \in DOMAIN s : s[i] <= v})
<1>1. DOMAIN s = 1..n /\ Len(s) = n
  <2>1. s \in Seq({0})
    BY SeqDef
  <2> QED
    BY <2>1, LenProperties
<1>2. {s[i] : i \in DOMAIN s} = {0}
  BY <1>1
<1>3. {i \in DOMAIN s : s[i] <= 0} = 1..n
  BY <1>1
<1>4. Cardinality(1..n) = n
  BY FS_Interval
<1>5. atMost(0) = n
  BY <1>3, <1>4
<1>6. {v \in {0} : 2 * atMost(v) >= Len(s)} = {0}
  <2>1. 2 * atMost(0) >= Len(s)
    BY <1>1, <1>5
  <2> HIDE DEF s, atMost
  <2> QED
    BY <2>1
<1>7. {v \in {0} : 2 * atMost(v) > Len(s)} = {0}
  <2>1. 2 * atMost(0) > Len(s)
    BY <1>1, <1>5
  <2> HIDE DEF s, atMost
  <2> QED
    BY <2>1
<1>8. Min({0}) = 0
  BY MinOfTwo
<1> DEFINE values == {s[i] : i \in DOMAIN s}
<1>9. TwiceMedian(s) = Min({v \in values : 2 * atMost(v) >= Len(s)})
                     + Min({v \in values : 2 * atMost(v) > Len(s)})
  BY DEF TwiceMedian
<1>10. values = {0}
  BY <1>2
<1> HIDE DEF values, atMost
<1>11. TwiceMedian(s) = 0 + 0
  BY <1>6, <1>7, <1>8, <1>9, <1>10
<1> QED
  BY <1>11

-----------------------------------------------------------------------------
\* The tiers of an arena.
LEMMA TierFacts ==
    ASSUME NEW A \in Batches, NEW ns \in 0..Len(A)
    PROVE  /\ Len(A) \in Nat /\ ns \in Nat
           /\ SubSeq(A, 1, ns) \in Seq(Coords)
           /\ Len(SubSeq(A, 1, ns)) = ns
           /\ \A i \in 1..ns : SubSeq(A, 1, ns)[i] = A[i]
           /\ SubSeq(A, ns + 1, Len(A)) \in Seq(Coords)
           /\ Len(SubSeq(A, ns + 1, Len(A))) = Len(A) - ns
           /\ \A i \in 1..(Len(A) - ns) : SubSeq(A, ns + 1, Len(A))[i] = A[ns + i]
<1>1. A \in Seq(Coords) /\ Len(A) \in Nat /\ ns \in Nat
  BY BatchFacts, MaxPointsAssumption
<1>2. \A i \in 1..Len(A) : A[i] \in Coords
  BY <1>1, ElementOfSeq
<1>3. /\ SubSeq(A, 1, ns) \in Seq(Coords)
      /\ Len(SubSeq(A, 1, ns)) = IF 1 <= ns THEN ns - 1 + 1 ELSE 0
      /\ \A i \in 1..(ns - 1 + 1) : SubSeq(A, 1, ns)[i] = A[1 + i - 1]
  <2>1. \A i \in 1..ns : A[i] \in Coords
    BY <1>1, <1>2
  <2> QED
    BY <1>1, <2>1, SubSeqProperties
<1>4. /\ SubSeq(A, ns + 1, Len(A)) \in Seq(Coords)
      /\ Len(SubSeq(A, ns + 1, Len(A))) =
            IF ns + 1 <= Len(A) THEN Len(A) - (ns + 1) + 1 ELSE 0
      /\ \A i \in 1..(Len(A) - (ns + 1) + 1) :
            SubSeq(A, ns + 1, Len(A))[i] = A[(ns + 1) + i - 1]
  <2>1. \A i \in (ns + 1)..Len(A) : A[i] \in Coords
    BY <1>1, <1>2
  <2>2. ns + 1 \in Int /\ Len(A) \in Int
    BY <1>1
  <2> QED
    BY <2>1, <2>2, SubSeqProperties
<1> QED
  BY <1>1, <1>3, <1>4

\* The snapshot taken of an arena: when there is one, how long it is, and whose
\* rows it holds.
LEMMA SnapshotFacts ==
    ASSUME NEW A \in Batches, NEW ns \in 0..Len(A)
    PROVE  /\ Snapshot(A, ns) \in Batches \cup {NULL}
           /\ Snapshot(A, ns) # NULL <=> Len(A) - ns > 0
           /\ Snapshot(A, ns) # NULL =>
                /\ Len(Snapshot(A, ns)) = Min({Len(A) - ns, SnapshotCap})
                /\ Len(Snapshot(A, ns)) \in 1..(Len(A) - ns)
                /\ \A i \in 1..Len(Snapshot(A, ns)) :
                        Snapshot(A, ns)[i] = A[ns + i] /\ A[ns + i] \in Coords
<1> DEFINE last == Min({Len(A), ns + SnapshotCap})
           ref == SubSeq(A, ns + 1, last)
<1>1. A \in Seq(Coords) /\ Len(A) \in Nat /\ ns \in Nat /\ Len(A) <= MaxPoints
  BY BatchFacts, MaxPointsAssumption
<1>2. \A i \in 1..Len(A) : A[i] \in Coords
  BY <1>1, ElementOfSeq
<1>3. SnapshotCap \in Nat /\ SnapshotCap > 0
  BY SnapshotCapAssumption
<1>4. CASE ~(Len(A) > ns)
  BY <1>1, <1>4 DEF Snapshot
<1>5. CASE Len(A) > ns
  <2>1. last = IF Len(A) <= ns + SnapshotCap THEN Len(A) ELSE ns + SnapshotCap
    BY <1>1, <1>3, MinOfTwo
  <2>2. Min({Len(A) - ns, SnapshotCap}) =
            IF Len(A) - ns <= SnapshotCap THEN Len(A) - ns ELSE SnapshotCap
    BY <1>1, <1>3, MinOfTwo
  <2>3. last \in (ns + 1)..Len(A)
    BY <1>1, <1>3, <1>5, <2>1
  <2> HIDE DEF last
  <2>4. \A i \in (ns + 1)..last : A[i] \in Coords
    BY <1>1, <1>2, <2>3
  <2>5. /\ ref \in Seq(Coords)
        /\ Len(ref) = IF ns + 1 <= last THEN last - (ns + 1) + 1 ELSE 0
        /\ \A i \in 1..(last - (ns + 1) + 1) : ref[i] = A[(ns + 1) + i - 1]
    <3>1. ns + 1 \in Int /\ last \in Int
      BY <1>1, <2>3
    <3> QED
      BY <2>4, <3>1, SubSeqProperties
  <2> HIDE DEF ref
  <2>6. Len(ref) = last - ns
    BY <1>1, <2>3, <2>5
  <2>7. \A i \in 1..Len(ref) : ref[i] = A[ns + i] /\ A[ns + i] \in Coords
    BY <1>1, <1>2, <2>3, <2>5, <2>6
  <2>8. Len(ref) = Min({Len(A) - ns, SnapshotCap}) /\ Len(ref) \in 1..(Len(A) - ns)
    BY <1>1, <1>3, <1>5, <2>1, <2>2, <2>3, <2>6
  <2>9. ref \in Batches
    <3>1. Len(ref) \in 0..MaxPoints
      BY <1>1, <2>8, MaxPointsAssumption
    <3> QED
      BY <2>5, <3>1, BatchFacts
  <2>10. ref # NULL
    <3>1. ref \in Seq(Nat)
      <4>1. Coords \subseteq Nat
        BY DEF Coords
      <4> QED
        BY <2>5, <4>1, SeqMonotonic
    <3> QED
      BY <3>1, NullAssumption
  <2>11. Snapshot(A, ns) = ref
    BY <1>5 DEF Snapshot, ref, last
  <2>12. Len(A) - ns > 0
    BY <1>1, <1>5
  <2> QED
    BY <2>7, <2>8, <2>9, <2>10, <2>11, <2>12
<1> QED
  BY <1>1, <1>4, <1>5

\* Nothing has drifted from a snapshot just taken.
LEMMA FreshSnapshot ==
    ASSUME NEW A \in Batches, NEW ns \in 0..Len(A), NEW limit \in DriftLimits,
           Snapshot(A, ns) # NULL
    PROVE  ~Drifted(SubSeq(A, ns + 1, Len(A)), Snapshot(A, ns), limit)
<1> DEFINE new == SubSeq(A, ns + 1, Len(A))
           ref == Snapshot(A, ns)
           gaps == [i \in 1..Len(ref) |-> Gap(new[i], ref[i])]
<1>1. Len(ref) \in 1..(Len(A) - ns) /\ Len(A) \in Nat /\ ns \in Nat
  BY SnapshotFacts, TierFacts
<1>2. \A i \in 1..Len(ref) : ref[i] = A[ns + i] /\ A[ns + i] \in Coords
  BY SnapshotFacts
<1>3. \A i \in 1..Len(ref) : new[i] = A[ns + i]
  BY <1>1, TierFacts
<1> HIDE DEF new, ref
<1>4. \A i \in 1..Len(ref) : Gap(new[i], ref[i]) = 0
  BY <1>2, <1>3, NoGap
<1>5. gaps = [i \in 1..Len(ref) |-> 0]
  BY <1>4
<1>6. TwiceMedian(gaps) = 0
  <2>1. Len(ref) \in Nat \ {0}
    BY <1>1
  <2> QED
    BY <1>5, <2>1, MedianOfZeros
<1>7. limit \in Nat /\ limit > 0
  BY DriftLimitsAssumption
<1>8. ~Drifted(new, ref, limit)
  <2> HIDE DEF gaps
  <2>1. Drifted(new, ref, limit) <=> TwiceMedian(gaps) >= 2 * limit
    BY DEF Drifted, gaps
  <2> QED
    BY <1>6, <1>7, <2>1
<1> QED
  BY <1>8 DEF new, ref

-----------------------------------------------------------------------------
\* What is known of the configuration.
LEMMA ConfigFacts ==
    ASSUME TypeOK
    PROVE  /\ config \in Configs
           /\ config.knn \in Nat /\ config.radius \in Nat
           /\ \A hint : FitThreshold(hint) \in {config.knn, config.radius}
           /\ Min({config.knn, config.radius}) \in Nat
           /\ Min({config.knn, config.radius}) <= config.knn
           /\ Min({config.knn, config.radius}) <= config.radius
<1>1. config \in Config
  BY ConfigsAssumption DEF TypeOK
<1>2. config.knn \in Nat /\ config.radius \in Nat
  BY <1>1 DEF Config
<1>3. \A hint : FitThreshold(hint) \in {config.knn, config.radius}
  BY DEF FitThreshold
<1> QED
  BY <1>2, <1>3, MinOfTwo DEF TypeOK

\* A completed build, whatever the object was like before it: the index, the
\* snapshot and the tuning all are about the points it was built from.
LEMMA FreshIndex ==
    ASSUME NEW A \in Batches, NEW ns \in 0..Len(A), A # <<>>,
           BuildLsh(A, ns),
           arena' = A, nStatic' = ns
    PROVE  /\ ImplInSync'
           /\ SnapshotFitsTier'
           /\ DriftWithinLimit'
           /\ GrowthWithinLimit'
           /\ candRef' \in Batches \cup {NULL}
           /\ tunedN' \in 0..MaxPoints
<1>1. Len(A) \in 1..MaxPoints /\ Len(A) \in Nat /\ ns \in Nat
  BY BatchFacts, EmptySeq, MaxPointsAssumption
<1>2. ImplInSync'
  BY DEF ImplInSync, BuildLsh, Impl
<1>3. SnapshotFitsTier'
  BY SnapshotFacts DEF SnapshotFitsTier, BuildLsh, nPoints, nCandidates
<1>4. DriftWithinLimit'
  BY FreshSnapshot DEF DriftWithinLimit, BuildLsh, nPoints, candidates
<1>5. GrowthWithinLimit'
  BY <1>1 DEF GrowthWithinLimit, BuildLsh, nPoints
<1>6. candRef' \in Batches \cup {NULL}
  BY SnapshotFacts DEF BuildLsh
<1>7. tunedN' \in 0..MaxPoints
  BY <1>1 DEF BuildLsh
<1> QED
  BY <1>2, <1>3, <1>4, <1>5, <1>6, <1>7

\* However it came to a rebuild, the object is in order after it.
LEMMA Rebuilt ==
    ASSUME TypeOK,
           NEW A \in Batches, NEW ns \in 0..Len(A),
           Len(A) > Min({config.knn, config.radius}),
           BuildLsh(A, ns),
           arena' = A, nStatic' = ns,
           config' = config,
           radiusHint' \in Radii \cup {NULL}
    PROVE  IInv'
<1>1. Len(A) \in 1..MaxPoints /\ ns \in 0..MaxPoints /\ A # <<>>
  BY ConfigFacts, BatchFacts, EmptySeq, MaxPointsAssumption
<1>2. TypeOK'
  <2>1. impl' \in [kind : {"none", "brute", "lsh"}, pts : Batches, nStatic : 0..MaxPoints]
    BY <1>1 DEF BuildLsh, Impl
  <2>2. candRef' \in Batches \cup {NULL} /\ tunedN' \in 0..MaxPoints
    BY <1>1, FreshIndex
  <2>3. expectedRecall' \in {NULL, "predicted"}
    BY DEF BuildLsh, TypeOK
  <2> QED
    BY <2>1, <2>2, <2>3 DEF TypeOK, BuildLsh
<1>3. ModeFollowsThresholds'
  BY DEF ModeFollowsThresholds, BuildLsh, nPoints
<1> QED
  BY <1>1, <1>2, <1>3, FreshIndex DEF IInv, BuildLsh

\* fit starts from nothing it finds but the configuration.
LEMMA FitKeeps ==
    ASSUME IInv, NEW P \in FitInputs, NEW ns \in 0..MaxPoints,
           NEW hint \in Radii \cup {NULL}, Fit(P, ns, hint)
    PROVE  IInv'
<1>1. P \in Batches /\ P # <<>>
  BY FitInputsAssumption
<1>2. Len(P) \in Nat /\ Len(P) <= MaxPoints /\ ns \in 0..Len(P)
  BY <1>1, BatchFacts, MaxPointsAssumption DEF Fit
<1>3. TypeOK
  BY DEF IInv
<1>4. CASE Len(P) > FitThreshold(hint)
  <2>1. Len(P) > Min({config.knn, config.radius})
    BY <1>2, <1>3, <1>4, ConfigFacts
  <2> QED
    BY <1>1, <1>2, <1>3, <1>4, <2>1, Rebuilt DEF Fit
<1>5. CASE ~(Len(P) > FitThreshold(hint))
  <2>1. BuildBrute(P, ns)
    BY <1>5 DEF Fit
  <2>2. TypeOK'
    <3>1. impl' \in [kind : {"none", "brute", "lsh"}, pts : Batches, nStatic : 0..MaxPoints]
      BY <1>1, <2>1 DEF BuildBrute, Impl
    <3> QED
      BY <1>1, <1>2, <1>3, <2>1, <3>1 DEF TypeOK, Fit, BuildBrute
  <2>3. ImplInSync'
    BY <2>1 DEF ImplInSync, BuildBrute, Impl, Fit
  <2>4. ModeFollowsThresholds'
    <3>1. FitThreshold(hint) \in Nat
      BY <1>3, ConfigFacts
    <3>2. FitThreshold(radiusHint)' = FitThreshold(hint)
      BY DEF Fit, FitThreshold
    <3> QED
      BY <1>2, <1>5, <2>1, <3>1, <3>2 DEF ModeFollowsThresholds, BuildBrute, Fit, nPoints
  <2> QED
    BY <2>1, <2>2, <2>3, <2>4
    DEF IInv, BuildBrute, SnapshotFitsTier, DriftWithinLimit, GrowthWithinLimit
<1> QED
  BY <1>4, <1>5

\* A lazily building query is a rebuild over the points as they are.
LEMMA QueryKeeps ==
    ASSUME IInv, NEW threshold \in {config.knn, config.radius}, Query(threshold)
    PROVE  IInv'
<1>1. TypeOK
  BY DEF IInv
<1>2. CASE nPoints > threshold /\ ~useLsh
  <2>1. Len(arena) > Min({config.knn, config.radius})
    <3>1. Len(arena) \in Nat
      BY <1>1, BatchFacts, MaxPointsAssumption DEF TypeOK
    <3> QED
      BY <1>1, <1>2, <3>1, ConfigFacts DEF nPoints
  <2>2. arena \in Batches /\ nStatic \in 0..Len(arena) /\ radiusHint \in Radii \cup {NULL}
    BY <1>1 DEF TypeOK
  <2> QED
    BY <1>1, <1>2, <2>1, <2>2, Rebuilt DEF Query
<1>3. CASE ~(nPoints > threshold /\ ~useLsh)
  <2>1. UNCHANGED vars
    BY <1>3 DEF Query, vars
  <2> QED
    BY <2>1
    DEF IInv, vars, index, TypeOK, ImplInSync, Fitted, SnapshotFitsTier, nPoints,
        nCandidates, candidates, DriftWithinLimit, GrowthWithinLimit, ModeFollowsThresholds,
        FitThreshold
<1> QED
  BY <1>2, <1>3

\* The arena after an epoch: the anchors as they were, then the new candidates.
LEMMA UpdatedArena ==
    ASSUME arena \in Batches, nStatic \in 0..Len(arena),
           NEW new \in Batches, Len(new) = nCandidates
    PROVE  LET A == SubSeq(arena, 1, nStatic) \o new
           IN  /\ A \in Batches
               /\ Len(A) = nPoints
               /\ SubSeq(A, nStatic + 1, Len(A)) = new
<1> DEFINE old == SubSeq(arena, 1, nStatic)
           A == old \o new
           tier == SubSeq(A, nStatic + 1, Len(A))
<1>1. arena \in Batches /\ nStatic \in 0..Len(arena) /\ Len(arena) \in 0..MaxPoints
  BY BatchFacts
<1>2. old \in Seq(Coords) /\ Len(old) = nStatic
  BY <1>1, TierFacts
<1>3. new \in Seq(Coords) /\ Len(new) = Len(arena) - nStatic
  BY BatchFacts DEF nCandidates, nPoints
<1>4. Len(arena) \in Nat /\ nStatic \in Nat
  BY <1>1, MaxPointsAssumption
<1> HIDE DEF old
<1>5. /\ A \in Seq(Coords)
      /\ Len(A) = Len(old) + Len(new)
      /\ \A i \in 1..(Len(old) + Len(new)) :
            A[i] = IF i <= Len(old) THEN old[i] ELSE new[i - Len(old)]
  BY <1>2, <1>3, ConcatProperties
<1> HIDE DEF A
<1>6. Len(A) = Len(arena)
  BY <1>2, <1>3, <1>4, <1>5
<1>7. A \in Batches
  BY <1>1, <1>5, <1>6, BatchFacts
<1>8. /\ tier \in Seq(Coords)
      /\ Len(tier) = Len(A) - nStatic
      /\ \A i \in 1..(Len(A) - nStatic) : tier[i] = A[nStatic + i]
  <2>1. nStatic \in 0..Len(A)
    BY <1>1, <1>6
  <2> QED
    BY <1>7, <2>1, TierFacts
<1> HIDE DEF tier
<1>9. \A i \in 1..Len(tier) : tier[i] = new[i]
  <2> SUFFICES ASSUME NEW i \in 1..Len(tier) PROVE tier[i] = new[i]
    OBVIOUS
  <2>1. tier[i] = A[nStatic + i]
    BY <1>8
  <2>2. nStatic + i \in 1..(Len(old) + Len(new)) /\ ~(nStatic + i <= Len(old))
    BY <1>2, <1>3, <1>4, <1>6, <1>8
  <2>3. A[nStatic + i] = new[(nStatic + i) - Len(old)]
    BY <1>5, <2>2
  <2>4. (nStatic + i) - Len(old) = i
    BY <1>2, <1>4
  <2> QED
    BY <2>1, <2>3, <2>4
<1>10. tier = new
  <2>1. Len(tier) = Len(new)
    BY <1>3, <1>6, <1>8
  <2> QED
    BY <1>3, <1>8, <1>9, <2>1, SeqEqual
<1> QED
  BY <1>6, <1>7, <1>10 DEF A, old, tier, nPoints

\* update rebuilds when the snapshot has drifted; when it has not, that is what
\* DriftWithinLimit says.
LEMMA UpdateKeeps ==
    ASSUME IInv, NEW new \in Batches, Update(new)
    PROVE  IInv'
<1> DEFINE A == SubSeq(arena, 1, nStatic) \o new
<1>1. TypeOK /\ ImplInSync
  BY DEF IInv
<1>2. Len(new) = nCandidates /\ arena # <<>>
  BY DEF Update, Fitted
<1>3. A \in Batches /\ Len(A) = nPoints /\ SubSeq(A, nStatic + 1, Len(A)) = new
  BY <1>1, <1>2, UpdatedArena DEF TypeOK
<1>4. arena' = A /\ UNCHANGED <<config, nStatic, radiusHint>>
  BY DEF Update
<1> HIDE DEF A
<1>5. CASE useLsh /\ config.canRetune /\ candRef # NULL /\ Drifted(new, candRef, driftLimit)
  <2>1. BuildLsh(A, nStatic)
    BY <1>5 DEF Update, A
  <2>2. Len(A) > Min({config.knn, config.radius}) /\ nStatic \in 0..Len(A)
    BY <1>3, <1>5 DEF IInv, ModeFollowsThresholds, TypeOK, nPoints
  <2> QED
    BY <1>1, <1>3, <1>4, <2>1, <2>2, Rebuilt DEF TypeOK
<1>6. CASE ~(useLsh /\ config.canRetune /\ candRef # NULL
              /\ Drifted(new, candRef, driftLimit))
  <2>1. /\ impl' = [impl EXCEPT !.pts = SubSeq(@, 1, impl.nStatic) \o new]
        /\ UNCHANGED <<useLsh, candRef, driftLimit, tunedN, expectedRecall>>
    BY <1>6 DEF Update
  <2>2. impl' = [impl EXCEPT !.pts = A]
    BY <1>1, <2>1 DEF ImplInSync, A
  <2>3. nPoints' = nPoints /\ nCandidates' = nCandidates
    BY <1>3, <1>4 DEF nPoints, nCandidates
  <2>4. TypeOK'
    <3>1. nStatic \in 0..Len(A)
      BY <1>1, <1>3 DEF TypeOK, nPoints
    <3> QED
      BY <1>1, <1>3, <1>4, <2>1, <2>2, <3>1 DEF TypeOK
  <2>5. ImplInSync'
    BY <1>1, <1>2, <1>4, <2>1, <2>2 DEF ImplInSync, TypeOK, Fitted
  <2>6. SnapshotFitsTier'
    BY <2>1, <2>3 DEF IInv, SnapshotFitsTier
  <2>7. DriftWithinLimit'
    <3>1. candidates' = new
      BY <1>3, <1>4 DEF nPoints, candidates
    <3> QED
      BY <1>4, <1>6, <2>1, <3>1 DEF DriftWithinLimit, Drifted
  <2>8. GrowthWithinLimit'
    BY <1>4, <2>1, <2>3 DEF IInv, GrowthWithinLimit
  <2>9. ModeFollowsThresholds'
    BY <1>4, <2>1, <2>3 DEF IInv, ModeFollowsThresholds, FitThreshold
  <2> QED
    BY <2>1, <2>4, <2>5, <2>6, <2>7, <2>8, <2>9 DEF IInv
<1> QED
  BY <1>5, <1>6

\* promote rebuilds an exact index that outgrows its threshold and an LSH one
\* that outgrows its tables; otherwise it extends the index it has.
LEMMA PromoteKeeps ==
    ASSUME IInv, NEW C \in Batches, Promote(C)
    PROVE  IInv'
<1> DEFINE A == arena \o C
<1>1. TypeOK /\ ImplInSync
  BY DEF IInv
<1>2. arena # <<>> /\ Len(A) <= MaxPoints
  BY DEF Promote, Fitted
<1>3. arena \in Seq(Coords) /\ C \in Seq(Coords) /\ Len(arena) \in Nat /\ Len(C) \in Nat
  BY <1>1, BatchFacts, MaxPointsAssumption DEF TypeOK
<1>4. A \in Seq(Coords) /\ Len(A) = Len(arena) + Len(C)
  BY <1>3, ConcatProperties
<1>5. arena' = A /\ nStatic' = nPoints /\ UNCHANGED <<config, radiusHint>>
  BY DEF Promote
<1>6. Len(arena) > 0
  BY <1>2, <1>3, EmptySeq
<1> HIDE DEF A
<1>7. A \in Batches /\ A # <<>>
  <2>1. Len(A) \in 0..MaxPoints /\ Len(A) > 0
    BY <1>2, <1>3, <1>4, <1>6, MaxPointsAssumption
  <2> QED
    BY <1>4, <2>1, BatchFacts, EmptySeq
<1>8. nPoints \in 0..Len(A) /\ nPoints \in Nat
  BY <1>3, <1>4 DEF nPoints
<1> DEFINE rebuilds == IF useLsh THEN config.canRetune /\ Outgrown(Len(A))
                                 ELSE Len(A) > FitThreshold(radiusHint)
<1>9. CASE rebuilds
  <2>1. BuildLsh(A, nPoints)
    BY <1>9 DEF Promote, A
  <2>2. Len(A) > Min({config.knn, config.radius})
    BY <1>1, <1>3, <1>4, <1>9, ConfigFacts
    DEF IInv, ModeFollowsThresholds, nPoints
  <2> QED
    BY <1>1, <1>5, <1>7, <1>8, <2>1, <2>2, Rebuilt DEF TypeOK
<1>10. CASE ~rebuilds
  <2>1. /\ impl' = Impl(impl.kind, impl.pts \o C, Len(impl.pts))
        /\ candRef' = IF useLsh THEN Snapshot(A, nPoints) ELSE candRef
        /\ UNCHANGED <<useLsh, driftLimit, tunedN, expectedRecall>>
    BY <1>10 DEF Promote, A
  <2>2. impl' = Impl(impl.kind, A, nPoints)
    BY <1>1, <2>1 DEF ImplInSync, A, nPoints
  <2>3. nPoints' = Len(A) /\ nCandidates' = Len(A) - nPoints
    BY <1>5 DEF nPoints, nCandidates
  <2>4. TypeOK'
    <3>1. nPoints \in 0..MaxPoints
      BY <1>2, <1>3, <1>4, <1>8, MaxPointsAssumption
    <3>2. impl' \in [kind : {"none", "brute", "lsh"}, pts : Batches, nStatic : 0..MaxPoints]
      BY <1>1, <1>7, <2>2, <3>1 DEF TypeOK, Impl
    <3>3. candRef' \in Batches \cup {NULL}
      BY <1>1, <1>7, <1>8, <2>1, SnapshotFacts DEF TypeOK
    <3> QED
      BY <1>1, <1>5, <1>7, <1>8, <2>1, <3>2, <3>3 DEF TypeOK
  <2>5. ImplInSync'
    BY <1>1, <1>2, <1>5, <2>1, <2>2 DEF ImplInSync, Impl, Fitted
  <2>6. SnapshotFitsTier'
    BY <1>5, <1>7, <1>8, <2>1, <2>3, SnapshotFacts DEF IInv, SnapshotFitsTier
  <2>7. DriftWithinLimit'
    <3>1. ASSUME useLsh, candRef' # NULL
          PROVE  ~Drifted(SubSeq(A, nPoints + 1, Len(A)), candRef', driftLimit)
      BY <1>7, <1>8, <2>1, <3>1, FreshSnapshot DEF IInv
    <3>2. candidates' = SubSeq(A, nPoints + 1, Len(A))
      BY <1>5, <2>3 DEF candidates
    <3> QED
      BY <2>1, <3>1, <3>2 DEF DriftWithinLimit, Drifted
  <2>8. GrowthWithinLimit'
    <3>1. ASSUME useLsh
          PROVE  tunedN \in 1..Len(A) /\ (config.canRetune => 2 * Len(A) < 3 * tunedN)
      <4>1. tunedN \in 1..nPoints
        BY <3>1 DEF IInv, GrowthWithinLimit
      <4>2. tunedN \in 1..Len(A)
        BY <1>3, <1>4, <4>1 DEF nPoints
      <4>3. config.canRetune => ~Outgrown(Len(A))
        BY <1>10, <3>1
      <4> QED
        BY <1>3, <1>4, <4>2, <4>3 DEF Outgrown
    <3> QED
      BY <1>5, <2>1, <2>3, <3>1 DEF GrowthWithinLimit
  <2>9. ModeFollowsThresholds'
    <3>1. ASSUME ~useLsh PROVE Len(A) <= FitThreshold(radiusHint)
      BY <1>1, <1>3, <1>4, <1>10, <3>1, ConfigFacts
    <3>2. ASSUME useLsh PROVE Len(A) > Min({config.knn, config.radius})
      BY <1>1, <1>3, <1>4, <3>2, ConfigFacts DEF IInv, ModeFollowsThresholds, nPoints
    <3>3. FitThreshold(radiusHint)' = FitThreshold(radiusHint)
      BY <1>5 DEF FitThreshold
    <3> QED
      BY <1>5, <2>1, <2>3, <3>1, <3>2, <3>3 DEF ModeFollowsThresholds
  <2> QED
    BY <2>1, <2>4, <2>5, <2>6, <2>7, <2>8, <2>9 DEF IInv
<1> QED
  BY <1>9, <1>10

-----------------------------------------------------------------------------
\* A new object is in order, without points.
LEMMA InitOk ==
    ASSUME Init
    PROVE  IInv
<1>1. <<>> \in Batches /\ Len(<<>>) = 0
  BY NoRows
<1>2. config.knn \in Nat /\ config.radius \in Nat
  BY ConfigsAssumption DEF Init, Config
<1>3. TypeOK
  <2>1. impl \in [kind : {"none", "brute", "lsh"}, pts : Batches, nStatic : 0..MaxPoints]
    BY <1>1, MaxPointsAssumption DEF Init, Impl
  <2>2. nStatic \in 0..Len(arena) /\ tunedN \in 0..MaxPoints
    BY <1>1, MaxPointsAssumption DEF Init
  <2> QED
    BY <1>1, <2>1, <2>2 DEF Init, TypeOK
<1>4. ImplInSync
  BY DEF Init, ImplInSync, Impl, Fitted
<1>5. SnapshotFitsTier /\ DriftWithinLimit /\ GrowthWithinLimit
  BY DEF Init, SnapshotFitsTier, DriftWithinLimit, GrowthWithinLimit
<1>6. ModeFollowsThresholds
  BY <1>1, <1>2 DEF Init, ModeFollowsThresholds, FitThreshold, nPoints
<1> QED
  BY <1>3, <1>4, <1>5, <1>6 DEF Init, IInv

\* Every call leaves the object in order.
LEMMA NextKeeps ==
    ASSUME IInv, [Next]_vars
    PROVE  IInv'
<1>1. CASE \E P \in FitInputs, ns \in 0..MaxPoints, hint \in Radii \cup {NULL} :
              Fit(P, ns, hint)
  BY <1>1, FitKeeps
<1>2. CASE \E new \in Batches : Update(new)
  BY <1>2, UpdateKeeps
<1>3. CASE \E C \in Batches : Promote(C)
  BY <1>3, PromoteKeeps
<1>4. CASE QueryKnn \/ QueryRadius
  BY <1>4, QueryKeeps DEF QueryKnn, QueryRadius
<1>5. CASE UNCHANGED vars
  BY <1>5
  DEF IInv, vars, index, TypeOK, ImplInSync, Fitted, SnapshotFitsTier, nPoints,
      nCandidates, candidates, DriftWithinLimit, GrowthWithinLimit, ModeFollowsThresholds,
      FitThreshold
<1> QED
  BY <1>1, <1>2, <1>3, <1>4, <1>5 DEF Next

\* All parts of the invariant hold after any history of calls.
THEOREM AlwaysInOrder == Spec => []IInv
BY InitOk, NextKeeps, PTL DEF Spec

\* The attributes keep their types.
THEOREM TypeCorrect == Spec => []TypeOK
<1>1. IInv => TypeOK
  BY DEF IInv
<1> QED
  BY <1>1, AlwaysInOrder, PTL

\* The two copies of the points, the facade's and the index's, never differ.
THEOREM CopiesAgree == Spec => []ImplInSync
<1>1. IInv => ImplInSync
  BY DEF IInv
<1> QED
  BY <1>1, AlwaysInOrder, PTL

\* The drift snapshot is always one of the current candidate tier.
THEOREM SnapshotIsCurrent == Spec => []SnapshotFitsTier
<1>1. IInv => SnapshotFitsTier
  BY DEF IInv
<1> QED
  BY <1>1, AlwaysInOrder, PTL

\* No call ends with the candidates beyond the drift the tables were tuned for.
THEOREM DriftIsBounded == Spec => []DriftWithinLimit
<1>1. IInv => DriftWithinLimit
  BY DEF IInv
<1> QED
  BY <1>1, AlwaysInOrder, PTL

\* Nor with more than half again the points they were tuned for.
THEOREM GrowthIsBounded == Spec => []GrowthWithinLimit
<1>1. IInv => GrowthWithinLimit
  BY DEF IInv
<1> QED
  BY <1>1, AlwaysInOrder, PTL

\* The thresholds decide which index serves.
THEOREM ThresholdsDecide == Spec => []ModeFollowsThresholds
<1>1. IInv => ModeFollowsThresholds
  BY DEF IInv
<1> QED
  BY <1>1, AlwaysInOrder, PTL

-----------------------------------------------------------------------------
\* Rebuilds are invisible in the contract: seen through the points its index
\* holds, every call of the facade is one call of BaseIndex or none.
THEOREM FacadeImplementsIndex == Spec => ImplementsIndex
<1>1. Init => Ix!Init
  BY DEF Init, Ix!Init, Impl
<1>2. ASSUME IInv, Fit(arena', nStatic', radiusHint')
      PROVE  Ix!Build(arena', nStatic')
  BY <1>2 DEF Fit, BuildLsh, BuildBrute, Impl, Ix!Build
<1>3. ASSUME IInv, Update(candidates')
      PROVE  Ix!Update(candidates')
  <2>1. TypeOK /\ ImplInSync
    BY <1>3 DEF IInv
  <2>2. /\ impl'.pts = SubSeq(impl.pts, 1, impl.nStatic) \o candidates'
        /\ impl'.nStatic = impl.nStatic
    BY <1>3, <2>1 DEF Update, BuildLsh, Impl, ImplInSync, TypeOK
  <2>3. Len(candidates') = Len(impl.pts) - impl.nStatic
    BY <1>3, <2>1 DEF Update, ImplInSync, nCandidates, nPoints
  <2> QED
    BY <2>2, <2>3 DEF Ix!Update
<1>4. ASSUME IInv, Promote(candidates')
      PROVE  Ix!Promote(candidates')
  <2>1. TypeOK /\ ImplInSync
    BY <1>4 DEF IInv
  <2>2. impl'.pts = impl.pts \o candidates' /\ impl'.nStatic = Len(impl.pts)
    BY <1>4, <2>1 DEF Promote, BuildLsh, Impl, ImplInSync, nPoints
  <2> QED
    BY <2>2 DEF Ix!Promote
<1>5. ASSUME IInv, QueryKnn \/ QueryRadius
      PROVE  UNCHANGED Ix!ixVars
  <2>1. ImplInSync
    BY <1>5 DEF IInv
  <2>2. impl'.pts = impl.pts /\ impl'.nStatic = impl.nStatic
    BY <1>5, <2>1
    DEF QueryKnn, QueryRadius, Query, BuildLsh, Impl, ImplInSync, index
  <2> QED
    BY <2>2 DEF Ix!ixVars
<1> DEFINE Corresponds ==
              /\ Fit(arena', nStatic', radiusHint') => Ix!Build(arena', nStatic')
              /\ Update(candidates') => Ix!Update(candidates')
              /\ Promote(candidates') => Ix!Promote(candidates')
              /\ QueryKnn \/ QueryRadius => UNCHANGED Ix!ixVars
<1>6. IInv /\ [Next]_vars => [Corresponds]_vars
  BY <1>2, <1>3, <1>4, <1>5
<1>7. (Spec => Ix!Init /\ [][Corresponds]_vars)
  <2> HIDE DEF Corresponds
  <2> QED
    BY <1>1, <1>6, AlwaysInOrder, PTL DEF Spec
<1> QED
  BY <1>7 DEF ImplementsIndex

-----------------------------------------------------------------------------
\* Types, with the kind of index a failed build leaves.
FacadeTypeOK ==
    /\ config \in Configs
    /\ arena \in Batches
    /\ nStatic \in 0..Len(arena)
    /\ radiusHint \in Radii \cup {NULL}
    /\ useLsh \in BOOLEAN
    /\ impl \in [kind : {"none", "brute", "lsh", "unbuilt"}, pts : Batches,
                 nStatic : 0..MaxPoints]
    /\ impl.nStatic <= Len(impl.pts)
    /\ candRef \in Batches \cup {NULL}
    /\ driftLimit \in DriftLimits \cup {0}
    /\ tunedN \in Nat
    /\ fault \in {"none", "untuned", "stale", "lost"}

FaultTypeOK == FacadeTypeOK /\ inside \in [Threads -> Calls \cup {NULL}]

\* Nothing is outstanding: snapshot and tuning are those of the points.
Tuned ==
    /\ SnapshotFitsTier
    /\ DriftWithinLimit
    /\ GrowthWithinLimit
    /\ useLsh => driftLimit \in DriftLimits
    /\ Fitted => impl.kind = IF useLsh THEN "lsh" ELSE "brute"

\* The index and the facade have the same anchors, and as many candidates.
AnchorsAgree ==
    /\ impl.nStatic = nStatic
    /\ Len(impl.pts) = nPoints
    /\ SubSeq(impl.pts, 1, nStatic) = SubSeq(arena, 1, nStatic)

\* A tune that nothing crossed is about the points as they are.
TuneClaims(call) == useLsh /\ call.size = nPoints

\* A build that nothing crossed leaves only the snapshot to be taken.
BuildClaims(call) ==
    /\ useLsh
    /\ impl = Impl("lsh", arena, nStatic)
    /\ tunedN = nPoints
    /\ driftLimit \in DriftLimits

\* An index that has promoted a facade nobody crossed is ahead of it by the batch, and
\* agrees with it, and is tuned, as far as it did when promote was called.
PromoteClaims(call) ==
    /\ impl.nStatic = nPoints
    /\ Len(impl.pts) = nPoints + Len(call.batch)
    /\ SubSeq(impl.pts, 1, nStatic) = SubSeq(arena, 1, nStatic)
    /\ call.found \in {"none", "untuned"} => impl.pts = arena \o call.batch
    /\ call.found = "none" =>
          /\ call.wasLsh = useLsh
          /\ impl.kind = IF useLsh THEN "lsh" ELSE "brute"
          /\ useLsh => tunedN \in 1..nPoints /\ driftLimit \in DriftLimits
          /\ ~useLsh => candRef = NULL

\* What a call in progress may rely on: little, once it is crossed.
Claims(call) ==
    /\ arena # <<>>
    /\ call.crossed => call.found = "lost"
    /\ ~call.crossed /\ call.op \in {"tune", "build", "promote"} => fault # "none"
    /\ ~call.crossed /\ call.op = "tune" => TuneClaims(call)
    /\ ~call.crossed /\ call.op = "build" => BuildClaims(call)
    /\ call.found # "lost" /\ call.op = "promote" => PromoteClaims(call)

\* FaultsLeave, and what it needs of the calls in progress.
FaultInv ==
    /\ FaultTypeOK
    /\ fault = "none" => Tuned
    /\ fault \in {"none", "untuned"} => impl.pts = arena
    /\ fault # "lost" => AnchorsAgree
    /\ \A t \in Threads : inside[t] # NULL => Claims(inside[t])

-----------------------------------------------------------------------------
\* The larger of two ranks.
LEMMA MaxOfTwo ==
    ASSUME NEW x \in Int, NEW y \in Int
    PROVE  Max({x, y}) = IF x >= y THEN x ELSE y
<1>1. PICK m \in {x, y} : m = IF x >= y THEN x ELSE y
  OBVIOUS
<1>2. \A z \in {x, y} : m >= z
  BY <1>1
<1>3. Max({x, y}) \in {x, y} /\ \A z \in {x, y} : Max({x, y}) >= z
  BY <1>1, <1>2 DEF Max
<1> QED
  BY <1>1, <1>2, <1>3

\* The levels are ranked as they are listed, and the worse one is what is left.
LEMMA WorseFacts ==
    ASSUME NEW level \in {"none", "untuned", "stale", "lost"}
    PROVE  /\ Worse(level, "stale") = IF level = "lost" THEN "lost" ELSE "stale"
           /\ Worse(level, "untuned") = IF level = "none" THEN "untuned" ELSE level
<1>1. /\ Rank("none") = 1 /\ Rank("untuned") = 2
      /\ Rank("stale") = 3 /\ Rank("lost") = 4
  BY DEF Rank, Levels
<1>2. /\ Max({1, 3}) = 3 /\ Max({2, 3}) = 3 /\ Max({3, 3}) = 3 /\ Max({4, 3}) = 4
      /\ Max({1, 2}) = 2 /\ Max({2, 2}) = 2 /\ Max({3, 2}) = 3 /\ Max({4, 2}) = 4
  BY MaxOfTwo
<1>3. Levels[2] = "untuned" /\ Levels[3] = "stale" /\ Levels[4] = "lost"
  BY DEF Levels
<1> QED
  BY <1>1, <1>2, <1>3 DEF Worse

\* A call as it begins.
LEMMA CallFacts ==
    ASSUME NEW op \in {"query", "update", "promote", "tune", "build"}
    PROVE  /\ Call(op) \in Calls
           /\ Call(op).op = op /\ Call(op).found = "none" /\ ~Call(op).crossed
BY NoRows DEF Call, Calls

\* A tune as it begins.
LEMMA TuningFacts ==
    ASSUME NEW n \in Nat, NEW level \in {"none", "untuned", "stale", "lost"}
    PROVE  /\ Tuning(n, level) \in Calls
           /\ Tuning(n, level).op = "tune" /\ Tuning(n, level).size = n
           /\ Tuning(n, level).found = level /\ ~Tuning(n, level).crossed
BY NoRows DEF Tuning, Call, Calls

\* The calls a step of t crosses go on, and count on nothing.
LEMMA OthersCrossed ==
    ASSUME FaultTypeOK, NEW t \in Threads, NEW call \in Calls \cup {NULL},
           Crosses(t, call) \/ Replaces(t, call)
    PROVE  /\ inside' \in [Threads -> Calls \cup {NULL}]
           /\ inside'[t] = call
           /\ \A s \in Threads \ {t} :
                 /\ inside'[s] = NULL <=> inside[s] = NULL
                 /\ inside[s] # NULL => /\ inside'[s].op = inside[s].op
                                        /\ inside'[s].crossed
                                        /\ inside'[s].found = "lost"
<1>1. inside'[t] = call /\ inside' = [s \in Threads |-> inside'[s]]
  BY DEF Crosses, Replaces
<1>2. ASSUME NEW s \in Threads \ {t}, inside[s] = NULL
      PROVE  inside'[s] = NULL
  BY <1>2 DEF Crosses, Replaces
<1>3. ASSUME NEW s \in Threads \ {t}, inside[s] # NULL
      PROVE  /\ inside'[s] \in Calls
             /\ inside'[s].op = inside[s].op /\ inside'[s].crossed /\ inside'[s].found = "lost"
  <2>1. inside[s] \in Calls
    BY <1>3 DEF FaultTypeOK
  <2>2. \/ inside'[s] = [inside[s] EXCEPT !.crossed = TRUE, !.found = "lost"]
        \/ inside'[s] = [inside[s] EXCEPT !.crossed = TRUE, !.found = "lost", !.live = FALSE]
    BY <1>3 DEF Crosses, Replaces
  <2> QED
    BY <2>1, <2>2 DEF Calls
<1>4. \A s \in Threads : inside'[s] \in Calls \cup {NULL}
  BY <1>1, <1>2, <1>3
<1>5. \A s \in Threads \ {t} : inside[s] # NULL => inside'[s] # NULL
  BY <1>3, NullIsNoCall
<1> QED
  BY <1>1, <1>2, <1>3, <1>4, <1>5

\* A step that changes the facade has to account for its own call only.
LEMMA OthersClaim ==
    ASSUME FaultInv, NEW t \in Threads, NEW call \in Calls \cup {NULL},
           Crosses(t, call) \/ Replaces(t, call),
           FacadeTypeOK',
           fault' = "none" => Tuned',
           fault' \in {"none", "untuned"} => impl'.pts = arena',
           fault' # "lost" => AnchorsAgree',
           arena' # <<>>,
           call # NULL => Claims(call)'
    PROVE  FaultInv'
<1>1. FaultTypeOK
  BY DEF FaultInv
<1>2. /\ inside' \in [Threads -> Calls \cup {NULL}]
      /\ inside'[t] = call
      /\ \A s \in Threads \ {t} :
            inside'[s] # NULL => inside'[s].crossed /\ inside'[s].found = "lost"
  BY <1>1, OthersCrossed
<1>3. ASSUME NEW s \in Threads, inside'[s] # NULL PROVE Claims(inside[s])'
  <2>1. CASE s = t
    BY <1>2, <1>3, <2>1 DEF Claims, TuneClaims, BuildClaims, PromoteClaims
  <2>2. CASE s # t
    BY <1>2, <1>3, <2>2 DEF Claims
  <2> QED
    BY <2>1, <2>2
<1> QED
  BY <1>2, <1>3 DEF FaultInv, FaultTypeOK

\* A step that does not change it leaves every other call what it had.
LEMMA NobodyCrossed ==
    ASSUME FaultInv, NEW t \in Threads, NEW call \in Calls \cup {NULL},
           Goes(t, call), UNCHANGED <<vars, fault>>,
           call # NULL => Claims(call)
    PROVE  FaultInv'
<1>1. /\ FaultTypeOK
      /\ \A s \in Threads : inside[s] # NULL => Claims(inside[s])
  BY DEF FaultInv
<1>2. /\ inside' \in [Threads -> Calls \cup {NULL}]
      /\ \A s \in Threads : inside'[s] = IF s = t THEN call ELSE inside[s]
  BY <1>1 DEF Goes, FaultTypeOK
<1>3. \A c : Claims(c) => Claims(c)'
  BY DEF Claims, TuneClaims, BuildClaims, PromoteClaims, vars, index, nPoints, nCandidates
<1>4. ASSUME NEW s \in Threads, inside'[s] # NULL PROVE Claims(inside[s])'
  <2>1. PICK c : c = inside'[s] /\ Claims(c)
    BY <1>1, <1>2, <1>4
  <2>2. Claims(c)'
    BY <1>3, <2>1
  <2> QED
    BY <2>1, <2>2 DEF Claims, TuneClaims, BuildClaims, PromoteClaims
<1>5. FaultTypeOK'
  BY <1>1, <1>2 DEF FaultTypeOK, FacadeTypeOK, vars, index
<1>6. fault' = fault /\ (Tuned => Tuned') /\ (AnchorsAgree => AnchorsAgree')
  BY DEF Tuned, SnapshotFitsTier, DriftWithinLimit, GrowthWithinLimit, candidates, nCandidates,
         nPoints, Fitted, AnchorsAgree, vars, index
<1> QED
  BY <1>4, <1>5, <1>6 DEF FaultInv, vars, index

-----------------------------------------------------------------------------
\* A fit rejected on its way has replaced the arena and nothing is known of the index.
LEMMA RejectFitKeeps ==
    ASSUME FaultInv, NEW t \in Threads, NEW P \in FitInputs, NEW ns \in 0..MaxPoints,
           RejectFit(t, P, ns)
    PROVE  FaultInv'
<1>1. P \in Batches /\ P # <<>> /\ ns \in 0..Len(P)
  BY FitInputsAssumption DEF RejectFit
<1>2. /\ arena' = P /\ nStatic' = ns /\ fault' = "lost" /\ Crosses(t, NULL)
      /\ UNCHANGED <<config, radiusHint, index>>
  BY DEF RejectFit
<1>3. FacadeTypeOK'
  BY <1>1, <1>2 DEF FaultInv, FaultTypeOK, FacadeTypeOK, index
<1> QED
  BY <1>1, <1>2, <1>3, OthersClaim

\* A fit that stays exact replaces everything, over whatever it finds.
LEMMA FitExactKeeps ==
    ASSUME FaultInv, NEW t \in Threads, NEW P \in FitInputs, NEW ns \in 0..MaxPoints,
           NEW hint \in Radii \cup {NULL}, FitExact(t, P, ns, hint)
    PROVE  FaultInv'
<1>1. P \in Batches /\ P # <<>> /\ ns \in 0..Len(P)
  BY FitInputsAssumption DEF FitExact, Fit
<1>2. Len(P) \in 0..MaxPoints /\ ns <= Len(P)
  BY <1>1, BatchFacts
<1>3. ~(Len(P) > FitThreshold(hint))
  <2>1. config \in Config /\ Len(P) \in Int
    BY <1>2, ConfigsAssumption, MaxPointsAssumption DEF FaultInv, FaultTypeOK, FacadeTypeOK
  <2>2. FitThreshold(hint) \in Int
    BY <2>1 DEF FitThreshold, Config
  <2> QED
    BY <2>1, <2>2 DEF FitExact
<1>4. /\ BuildBrute(P, ns) /\ Replaces(t, NULL)
      /\ arena' = P /\ nStatic' = ns /\ radiusHint' = hint /\ config' = config
      /\ fault' = "none"
  BY <1>3 DEF FitExact, Fit
<1>5. FacadeTypeOK'
  <2>1. /\ impl' \in [kind : {"none", "brute", "lsh", "unbuilt"}, pts : Batches,
                      nStatic : 0..MaxPoints]
        /\ impl'.nStatic <= Len(impl'.pts)
    BY <1>1, <1>2, <1>4 DEF BuildBrute, Impl
  <2> QED
    BY <1>1, <1>4, <2>1 DEF FaultInv, FaultTypeOK, FacadeTypeOK, BuildBrute
<1>6. Tuned'
  BY <1>4 DEF Tuned, BuildBrute, Impl, SnapshotFitsTier, DriftWithinLimit, GrowthWithinLimit
<1>7. impl'.pts = arena' /\ AnchorsAgree'
  BY <1>4 DEF AnchorsAgree, BuildBrute, Impl, nPoints
<1> QED
  BY <1>1, <1>4, <1>5, <1>6, <1>7, OthersClaim

\* One that does not has the tables to make.
LEMMA FitTunesKeeps ==
    ASSUME FaultInv, NEW t \in Threads, NEW P \in FitInputs, NEW ns \in 0..MaxPoints,
           NEW hint \in Radii \cup {NULL}, FitTunes(t, P, ns, hint)
    PROVE  FaultInv'
<1>1. P \in Batches /\ P # <<>> /\ ns \in 0..Len(P) /\ Len(P) \in Nat
  BY FitInputsAssumption, BatchFacts, MaxPointsAssumption DEF FitTunes
<1>2. PICK call \in Calls : call = Tuning(Len(P), fault)
  BY <1>1, TuningFacts DEF FaultInv, FaultTypeOK, FacadeTypeOK
<1>3. call.op = "tune" /\ call.size = Len(P) /\ call.found = fault /\ ~call.crossed
  BY <1>1, <1>2, TuningFacts DEF FaultInv, FaultTypeOK, FacadeTypeOK
<1>4. /\ arena' = P /\ nStatic' = ns /\ radiusHint' = hint /\ useLsh' = TRUE
      /\ fault' = "lost" /\ Crosses(t, call)
      /\ UNCHANGED <<config, impl, candRef, driftLimit, tunedN>>
  BY <1>2 DEF FitTunes
<1>5. FacadeTypeOK'
  BY <1>1, <1>4 DEF FaultInv, FaultTypeOK, FacadeTypeOK
<1>6. Claims(call)'
  BY <1>1, <1>3, <1>4 DEF Claims, TuneClaims, nPoints
<1> QED
  BY <1>1, <1>4, <1>5, <1>6, OthersClaim

-----------------------------------------------------------------------------
\* The new index has copied the arena as it is now; its snapshot is yet to come.
LEMMA InstallsKeeps ==
    ASSUME FaultInv, NEW t \in Threads, Installs(t)
    PROVE  FaultInv'
<1>1. /\ FacadeTypeOK /\ inside[t] \in Calls /\ inside[t].op = "tune" /\ Claims(inside[t])
      /\ inside[t].size \in Nat
  BY DEF FaultInv, FaultTypeOK, Installs, At, Calls
<1>2. PICK call \in Calls :
          call = [Call("build") EXCEPT !.found = inside[t].found, !.crossed = inside[t].crossed]
  BY <1>1, CallFacts DEF Calls
<1>3. /\ call.op = "build"
      /\ call.found = inside[t].found /\ call.crossed = inside[t].crossed
  BY <1>2, CallFacts DEF Calls
<1>4. /\ tunedN' = inside[t].size /\ driftLimit' \in DriftLimits
      /\ impl' = Impl("lsh", arena, nStatic) /\ fault' = "untuned" /\ Replaces(t, call)
      /\ UNCHANGED <<config, arena, nStatic, radiusHint, useLsh, candRef>>
  BY <1>2 DEF Installs
<1>5. FacadeTypeOK'
  <2>1. /\ impl' \in [kind : {"none", "brute", "lsh", "unbuilt"}, pts : Batches,
                      nStatic : 0..MaxPoints]
        /\ impl'.nStatic <= Len(impl'.pts)
    BY <1>1, <1>4, BatchFacts, MaxPointsAssumption DEF FacadeTypeOK, Impl
  <2> QED
    BY <1>1, <1>4, <2>1 DEF FacadeTypeOK
<1>6. impl'.pts = arena' /\ AnchorsAgree'
  BY <1>4 DEF AnchorsAgree, Impl, nPoints
<1>7. Claims(call)'
  BY <1>1, <1>3, <1>4 DEF Claims, TuneClaims, BuildClaims, nPoints
<1>8. arena' # <<>>
  BY <1>1, <1>4 DEF Claims
<1> QED
  BY <1>4, <1>5, <1>6, <1>7, <1>8, OthersClaim

\* A build that nobody crossed repairs everything; another takes a snapshot of what it
\* finds.
LEMMA SnapshotsKeeps ==
    ASSUME FaultInv, NEW t \in Threads, Snapshots(t)
    PROVE  FaultInv'
<1>1. FacadeTypeOK /\ inside[t] \in Calls /\ inside[t].op = "build" /\ Claims(inside[t])
  BY DEF FaultInv, FaultTypeOK, Snapshots, At
<1>2. /\ candRef' = Snapshot(arena, nStatic) /\ Crosses(t, NULL)
      /\ fault' = IF inside[t].crossed THEN Worse(fault, "untuned") ELSE "none"
      /\ UNCHANGED <<config, arena, nStatic, radiusHint, useLsh, impl, driftLimit, tunedN>>
  BY DEF Snapshots
<1>3. arena \in Batches /\ nStatic \in 0..Len(arena) /\ arena # <<>>
  BY <1>1 DEF FacadeTypeOK, Claims
<1>4. /\ fault' \in {"none", "untuned", "stale", "lost"}
      /\ fault' = "none" => ~inside[t].crossed
      /\ inside[t].crossed /\ fault' \in {"none", "untuned"} => fault \in {"none", "untuned"}
      /\ inside[t].crossed /\ fault' # "lost" => fault # "lost"
  BY <1>1, <1>2, WorseFacts DEF FacadeTypeOK
<1>5. FacadeTypeOK'
  BY <1>1, <1>2, <1>3, <1>4, SnapshotFacts DEF FacadeTypeOK
<1>6. ASSUME ~inside[t].crossed
      PROVE  Tuned' /\ impl'.pts = arena' /\ AnchorsAgree'
  <2>1. BuildClaims(inside[t])
    BY <1>1, <1>6 DEF Claims
  <2>2. Len(arena) \in 1..MaxPoints
    BY <1>3, BatchFacts, EmptySeq, MaxPointsAssumption
  <2>3. SnapshotFitsTier'
    BY <1>2, <1>3, <2>1, SnapshotFacts DEF BuildClaims, SnapshotFitsTier, nPoints, nCandidates
  <2>4. DriftWithinLimit'
    <3>1. ASSUME candRef' # NULL
          PROVE  ~Drifted(SubSeq(arena, nStatic + 1, Len(arena)), candRef', driftLimit)
      BY <1>2, <1>3, <2>1, <3>1, FreshSnapshot DEF BuildClaims
    <3> QED
      BY <1>2, <3>1 DEF DriftWithinLimit, Drifted, candidates, nPoints
  <2>5. GrowthWithinLimit'
    BY <1>2, <2>1, <2>2, MaxPointsAssumption DEF BuildClaims, GrowthWithinLimit, nPoints
  <2>6. impl'.kind = "lsh" /\ impl'.pts = arena' /\ impl'.nStatic = nStatic' /\ useLsh'
    BY <1>2, <2>1 DEF BuildClaims, Impl
  <2>7. AnchorsAgree'
    BY <2>6 DEF AnchorsAgree, nPoints
  <2>8. driftLimit' \in DriftLimits
    BY <1>2, <2>1 DEF BuildClaims
  <2> QED
    BY <2>3, <2>4, <2>5, <2>6, <2>7, <2>8 DEF Tuned
<1>7. ASSUME inside[t].crossed
      PROVE  /\ fault' \in {"none", "untuned"} => impl'.pts = arena'
             /\ fault' # "lost" => AnchorsAgree'
  BY <1>2, <1>4, <1>7 DEF FaultInv, AnchorsAgree, nPoints
<1> QED
  BY <1>2, <1>3, <1>4, <1>5, <1>6, <1>7, OthersClaim

\* A tune that fails in its scan has changed nothing yet.
LEMMA FailTuneKeeps ==
    ASSUME FaultInv, NEW t \in Threads, FailTune(t)
    PROVE  FaultInv'
BY NobodyCrossed DEF FailTune

\* One that fails later leaves a tuning without tables.
LEMMA FailMakeKeeps ==
    ASSUME FaultInv, NEW t \in Threads, FailMake(t)
    PROVE  FaultInv'
<1>1. /\ FacadeTypeOK /\ inside[t] \in Calls /\ Claims(inside[t]) /\ inside[t].size \in Nat
  BY DEF FaultInv, FaultTypeOK, FailMake, At, Calls
<1>2. /\ tunedN' = inside[t].size /\ driftLimit' \in DriftLimits
      /\ fault' = Worse(fault, "untuned") /\ Crosses(t, NULL)
      /\ UNCHANGED <<config, arena, nStatic, radiusHint, useLsh, impl, candRef>>
  BY DEF FailMake
<1>3. /\ fault' \in {"untuned", "stale", "lost"}
      /\ fault' = "untuned" => fault \in {"none", "untuned"}
      /\ fault' # "lost" => fault # "lost"
  BY <1>1, <1>2, WorseFacts DEF FacadeTypeOK
<1>4. FacadeTypeOK'
  BY <1>1, <1>2, <1>3 DEF FacadeTypeOK
<1>5. /\ fault' = "untuned" => impl'.pts = arena'
      /\ fault' # "lost" => AnchorsAgree'
  BY <1>2, <1>3 DEF FaultInv, AnchorsAgree, nPoints
<1>6. arena' # <<>>
  BY <1>1, <1>2 DEF Claims
<1> QED
  BY <1>2, <1>3, <1>4, <1>5, <1>6, OthersClaim

\* A build that fails leaves an index without points, if it still serves.
LEMMA FailBuildKeeps ==
    ASSUME FaultInv, NEW t \in Threads, FailBuild(t)
    PROVE  FaultInv'
<1>1. FacadeTypeOK /\ inside[t] \in Calls /\ inside[t].op = "build" /\ Claims(inside[t])
  BY DEF FaultInv, FaultTypeOK, FailBuild, At
<1>2. /\ Crosses(t, NULL)
      /\ UNCHANGED <<config, arena, nStatic, radiusHint, useLsh, candRef, driftLimit, tunedN>>
  BY DEF FailBuild
<1>3. arena' # <<>>
  BY <1>1, <1>2 DEF Claims
<1>4. CASE inside[t].live
  <2>1. impl' = Impl("unbuilt", <<>>, 0) /\ fault' = "lost"
    BY <1>4 DEF FailBuild
  <2>2. FacadeTypeOK'
    BY <1>1, <1>2, <2>1, NoRows, MaxPointsAssumption DEF FacadeTypeOK, Impl
  <2> QED
    BY <1>2, <1>3, <2>1, <2>2, OthersClaim
<1>5. CASE ~inside[t].live
  <2>1. UNCHANGED <<impl, fault>>
    BY <1>5 DEF FailBuild
  <2>2. FacadeTypeOK'
    BY <1>1, <1>2, <2>1 DEF FacadeTypeOK
  <2>3. (Tuned => Tuned') /\ (AnchorsAgree => AnchorsAgree')
    BY <1>2, <2>1
    DEF Tuned, SnapshotFitsTier, DriftWithinLimit, GrowthWithinLimit, candidates, nCandidates,
        nPoints, Fitted, AnchorsAgree
  <2> QED
    BY <1>2, <1>3, <2>1, <2>2, <2>3, OthersClaim DEF FaultInv
<1> QED
  BY <1>4, <1>5

-----------------------------------------------------------------------------
\* What is in front of a concatenation.
LEMMA FrontOfConcat ==
    ASSUME NEW s \in Seq(Coords), NEW t \in Seq(Coords)
    PROVE  SubSeq(s \o t, 1, Len(s)) = s
<1> DEFINE A == s \o t
           front == SubSeq(A, 1, Len(s))
<1>1. /\ A \in Seq(Coords) /\ Len(A) = Len(s) + Len(t)
      /\ \A i \in 1..(Len(s) + Len(t)) : A[i] = IF i <= Len(s) THEN s[i] ELSE t[i - Len(s)]
  BY ConcatProperties
<1>2. Len(s) \in Nat /\ Len(t) \in Nat
  BY LenProperties
<1> HIDE DEF A
<1>3. \A i \in 1..Len(s) : A[i] = s[i] /\ A[i] \in Coords
  BY <1>1, <1>2, ElementOfSeq
<1>4. /\ front \in Seq(Coords)
      /\ Len(front) = IF 1 <= Len(s) THEN Len(s) - 1 + 1 ELSE 0
      /\ \A i \in 1..(Len(s) - 1 + 1) : front[i] = A[1 + i - 1]
  BY <1>1, <1>2, <1>3, SubSeqProperties
<1>5. Len(front) = Len(s) /\ \A i \in 1..Len(s) : front[i] = s[i]
  BY <1>2, <1>3, <1>4
<1> HIDE DEF front
<1> QED
  BY <1>4, <1>5, SeqEqual DEF front, A

\* The arena update writes, whether or not the call runs to its end.
LEMMA WrittenArena ==
    ASSUME FacadeTypeOK, NEW t \in Threads, NEW new \in Batches, Writes(t, new)
    PROVE  /\ arena' = SubSeq(arena, 1, nStatic) \o new
           /\ Len(new) = nCandidates /\ new \in Seq(Coords)
           /\ UNCHANGED <<config, nStatic, radiusHint>>
           /\ arena' \in Batches /\ arena' # <<>>
           /\ Len(arena') = nPoints
           /\ SubSeq(arena', nStatic + 1, Len(arena')) = new
           /\ SubSeq(arena', 1, nStatic) = SubSeq(arena, 1, nStatic)
<1> DEFINE old == SubSeq(arena, 1, nStatic)
<1>1. /\ Fitted /\ Len(new) = nCandidates
      /\ arena' = old \o new /\ UNCHANGED <<config, nStatic, radiusHint>>
  BY DEF Writes
<1>2. arena \in Batches /\ nStatic \in 0..Len(arena)
  BY DEF FacadeTypeOK
<1>3. /\ arena' \in Batches /\ Len(arena') = nPoints
      /\ SubSeq(arena', nStatic + 1, Len(arena')) = new
  BY <1>1, <1>2, UpdatedArena
<1>4. old \in Seq(Coords) /\ Len(old) = nStatic
  BY <1>2, TierFacts
<1>5. new \in Seq(Coords)
  BY BatchFacts
<1> HIDE DEF old
<1>6. SubSeq(arena', 1, nStatic) = old
  BY <1>1, <1>4, <1>5, FrontOfConcat
<1>7. arena' # <<>>
  <2>1. Len(arena) # 0
    BY <1>1, <1>2, BatchFacts, EmptySeq DEF Fitted
  <2> QED
    BY <1>3, <2>1, EmptySeq DEF nPoints
<1> QED
  BY <1>1, <1>3, <1>5, <1>6, <1>7 DEF old

\* One row stretched over one row is itself.
LEMMA StretchedOver ==
    ASSUME NEW new \in Batches, NEW n, Len(new) = n
    PROVE  Stretched(new, n) = new
<1>1. new \in Seq(Coords)
  BY BatchFacts
<1>2. CASE Len(new) = 1
  <2>1. Stretched(new, n) = [i \in 1..1 |-> new[1]]
    BY <1>2 DEF Stretched
  <2>2. new \in [1..1 -> Coords]
    <3>1. new \in [1..Len(new) -> Coords]
      BY <1>1, LenProperties
    <3> QED
      BY <1>2, <3>1
  <2> QED
    BY <2>1, <2>2
<1>3. CASE Len(new) # 1
  BY <1>3 DEF Stretched
<1> QED
  BY <1>2, <1>3

\* The first rows of a tier, compared with a snapshot of it.
LEMMA SameDrift ==
    ASSUME Tuned, FacadeTypeOK, Fitted, candRef # NULL, useLsh, config.canRetune,
           NEW new \in Batches, Len(new) = nCandidates, ~Raises(new), ~Drifts(new)
    PROVE  ~Drifted(new, candRef, driftLimit)
<1>1. /\ nCandidates > 0
      /\ Len(candRef) = Min({nCandidates, SnapshotCap})
  BY DEF Tuned, SnapshotFitsTier
<1>2. nCandidates \in Nat /\ new \in Seq(Coords)
  BY BatchFacts DEF FacadeTypeOK, nCandidates, nPoints
<1>3. Len(candRef) = IF nCandidates <= SnapshotCap THEN nCandidates ELSE SnapshotCap
  BY <1>1, <1>2, MinOfTwo, SnapshotCapAssumption
<1>4. new # <<>>
  BY <1>1, EmptySeq
<1>5. ~Drifted(Stretched(new, Len(candRef)), candRef, driftLimit)
  BY <1>4 DEF Drifts, Raises, Measured
<1>6. CASE Len(new) = 1
  <2>1. Len(new) = Len(candRef)
    <3>1. SnapshotCap \in Nat /\ 1 <= SnapshotCap
      BY SnapshotCapAssumption
    <3>2. nCandidates = 1
      BY <1>6
    <3> QED
      BY <1>3, <1>6, <3>1, <3>2
  <2> QED
    BY <1>5, <2>1, StretchedOver
<1>7. CASE Len(new) # 1
  BY <1>5, <1>7 DEF Stretched
<1> QED
  BY <1>6, <1>7

\* The snapshot is compared row by row: it has one row only if the tier has.
LEMMA NoStretch ==
    ASSUME FacadeTypeOK, Tuned, candRef # NULL, NEW new \in Batches, Len(new) = nCandidates
    PROVE  Stretched(new, Len(candRef)) = new
<1>1. /\ nCandidates > 0
      /\ Len(candRef) = Min({nCandidates, SnapshotCap})
  BY DEF Tuned, SnapshotFitsTier
<1>2. nCandidates \in Nat
  BY BatchFacts DEF FacadeTypeOK, nCandidates, nPoints
<1>3. Len(candRef) = IF nCandidates <= SnapshotCap THEN nCandidates ELSE SnapshotCap
  BY <1>1, <1>2, MinOfTwo, SnapshotCapAssumption
<1>4. Len(new) = 1 => Len(new) = Len(candRef)
  <2>1. SnapshotCap \in Nat /\ 1 <= SnapshotCap
    BY SnapshotCapAssumption
  <2> QED
    BY <1>3, <2>1
<1> QED
  BY <1>4, StretchedOver DEF Stretched

\* The rows written into the index are those of the arena, when the index has the
\* facade's anchors.
LEMMA WrittenRows ==
    ASSUME FacadeTypeOK, AnchorsAgree, NEW rows \in Seq(Coords),
           Len(rows) = Len(impl.pts) - impl.nStatic
    PROVE  LET pts == SubSeq(impl.pts, 1, impl.nStatic) \o rows
           IN  /\ pts = SubSeq(arena, 1, nStatic) \o rows
               /\ pts \in Batches
               /\ Len(pts) = nPoints
               /\ SubSeq(pts, 1, nStatic) = SubSeq(arena, 1, nStatic)
<1> DEFINE old == SubSeq(arena, 1, nStatic)
<1>1. SubSeq(impl.pts, 1, impl.nStatic) = old
  BY DEF AnchorsAgree
<1>2. old \in Seq(Coords) /\ Len(old) = nStatic
  BY TierFacts DEF FacadeTypeOK
<1>3. /\ Len(rows) = nPoints - nStatic
      /\ nPoints \in Nat /\ nPoints <= MaxPoints /\ nStatic \in Nat
  BY BatchFacts, MaxPointsAssumption DEF AnchorsAgree, FacadeTypeOK, nPoints
<1> HIDE DEF old
<1>4. old \o rows \in Seq(Coords) /\ Len(old \o rows) = Len(old) + Len(rows)
  BY <1>2, ConcatProperties
<1>5. Len(old \o rows) = nPoints /\ Len(old \o rows) \in 0..MaxPoints
  BY <1>2, <1>3, <1>4, MaxPointsAssumption
<1>6. old \o rows \in Batches
  BY <1>4, <1>5, BatchFacts
<1>7. SubSeq(old \o rows, 1, nStatic) = old
  BY <1>2, FrontOfConcat
<1> QED
  BY <1>1, <1>5, <1>6, <1>7 DEF old

\* The same for an index that no longer agrees with the facade: it keeps its size.
LEMMA WrittenAnyway ==
    ASSUME FacadeTypeOK, NEW rows \in Seq(Coords),
           Len(rows) = Len(impl.pts) - impl.nStatic
    PROVE  LET pts == SubSeq(impl.pts, 1, impl.nStatic) \o rows
           IN  pts \in Batches /\ Len(pts) = Len(impl.pts)
<1> DEFINE old == SubSeq(impl.pts, 1, impl.nStatic)
<1>1. /\ impl.pts \in Batches /\ impl.nStatic \in 0..Len(impl.pts)
      /\ Len(impl.pts) \in 0..MaxPoints /\ Len(impl.pts) \in Nat
  BY BatchFacts, MaxPointsAssumption DEF FacadeTypeOK
<1>2. old \in Seq(Coords) /\ Len(old) = impl.nStatic
  BY <1>1, TierFacts
<1> HIDE DEF old
<1>3. old \o rows \in Seq(Coords) /\ Len(old \o rows) = Len(old) + Len(rows)
  BY <1>2, ConcatProperties
<1>4. Len(old \o rows) = Len(impl.pts)
  BY <1>1, <1>2, <1>3
<1>5. old \o rows \in Batches
  BY <1>1, <1>3, <1>4, BatchFacts
<1> QED
  BY <1>4, <1>5 DEF old

\* What stays of Tuned when an update of the candidates does not rebuild.
LEMMA StillTuned ==
    ASSUME FacadeTypeOK, Tuned, NEW t \in Threads, NEW new \in Batches,
           ~Raises(new), ~Drifts(new), Writes(t, new),
           impl'.kind = impl.kind,
           UNCHANGED <<useLsh, candRef, driftLimit, tunedN>>
    PROVE  Tuned'
<1>1. /\ arena' # <<>> /\ Len(arena') = nPoints /\ nStatic' = nStatic /\ config' = config
      /\ SubSeq(arena', nStatic + 1, Len(arena')) = new
      /\ Fitted /\ Len(new) = nCandidates
  BY WrittenArena DEF Writes
<1>2. nPoints' = nPoints /\ nCandidates' = nCandidates /\ candidates' = new
  BY <1>1 DEF nPoints, nCandidates, candidates
<1>3. DriftWithinLimit'
  BY <1>1, <1>2, SameDrift DEF DriftWithinLimit, Drifted
<1>4. SnapshotFitsTier' /\ GrowthWithinLimit'
  BY <1>1, <1>2 DEF Tuned, SnapshotFitsTier, GrowthWithinLimit
<1> QED
  BY <1>1, <1>3, <1>4 DEF Tuned, Fitted

\* NumPy's broadcast has as many rows as it is asked for.
LEMMA StretchFacts ==
    ASSUME NEW new \in Batches, NEW n \in Nat, Broadcasts(new, n)
    PROVE  Stretched(new, n) \in Seq(Coords) /\ Len(Stretched(new, n)) = n
<1>1. new \in Seq(Coords) /\ Len(new) \in {1, n}
  BY BatchFacts DEF Broadcasts
<1>2. CASE Len(new) = 1
  <2>1. new[1] \in Coords
    BY <1>1, <1>2, ElementOfSeq
  <2>2. Stretched(new, n) = [i \in 1..n |-> new[1]]
    BY <1>2 DEF Stretched
  <2>3. Stretched(new, n) \in [1..n -> Coords]
    BY <2>1, <2>2
  <2>4. Stretched(new, n) \in Seq(Coords)
    BY <2>3, SeqDef
  <2> QED
    BY <2>3, <2>4, LenProperties
<1>3. CASE Len(new) # 1
  BY <1>1, <1>3 DEF Stretched
<1> QED
  BY <1>2, <1>3

\* An update that drifted has written the arena and not the index.
LEMMA UpdateTunesKeeps ==
    ASSUME FaultInv, NEW t \in Threads, NEW new \in Batches, UpdateTunes(t, new)
    PROVE  FaultInv'
<1>1. FacadeTypeOK /\ (fault # "lost" => AnchorsAgree)
  BY DEF FaultInv, FaultTypeOK
<1>2. Writes(t, new) /\ fault' = Worse(fault, "stale") /\ UNCHANGED index /\ Drifts(new)
  BY DEF UpdateTunes
<1>3. /\ arena' \in Batches /\ arena' # <<>> /\ Len(arena') = nPoints
      /\ SubSeq(arena', 1, nStatic) = SubSeq(arena, 1, nStatic)
      /\ UNCHANGED <<config, nStatic, radiusHint>>
  BY <1>1, <1>2, WrittenArena
<1>4. nPoints \in Nat
  BY <1>1, BatchFacts, MaxPointsAssumption DEF FacadeTypeOK, nPoints
<1>5. PICK call \in Calls : call = Tuning(nPoints, fault)
  BY <1>1, <1>4, TuningFacts DEF FacadeTypeOK
<1>6. call.op = "tune" /\ call.size = nPoints /\ call.found = fault /\ ~call.crossed
  BY <1>1, <1>4, <1>5, TuningFacts DEF FacadeTypeOK
<1>7. Crosses(t, call)
  BY <1>5 DEF UpdateTunes
<1>8. fault' \in {"stale", "lost"} /\ (fault' # "lost" => fault # "lost")
  BY <1>1, <1>2, WorseFacts DEF FacadeTypeOK
<1>9. FacadeTypeOK'
  BY <1>1, <1>2, <1>3, <1>8 DEF FacadeTypeOK, index, nPoints
<1>10. fault' # "lost" => AnchorsAgree'
  BY <1>1, <1>2, <1>3, <1>8 DEF AnchorsAgree, index, nPoints
<1>11. Claims(call)'
  BY <1>2, <1>3, <1>6, <1>8 DEF Claims, TuneClaims, Drifts, Measured, index, nPoints
<1> QED
  BY <1>3, <1>7, <1>8, <1>9, <1>10, <1>11, OthersClaim

\* So has one the index refuses.
LEMMA RefuseUpdateKeeps ==
    ASSUME FaultInv, NEW t \in Threads, NEW new \in Batches, RefuseUpdate(t, new)
    PROVE  FaultInv'
<1>1. FacadeTypeOK /\ (fault # "lost" => AnchorsAgree)
  BY DEF FaultInv, FaultTypeOK
<1>2. /\ Writes(t, new) /\ fault' = Worse(fault, "stale") /\ Crosses(t, NULL)
      /\ UNCHANGED index
  BY DEF RefuseUpdate
<1>3. /\ arena' \in Batches /\ arena' # <<>> /\ Len(arena') = nPoints
      /\ SubSeq(arena', 1, nStatic) = SubSeq(arena, 1, nStatic)
      /\ UNCHANGED <<config, nStatic, radiusHint>>
  BY <1>1, <1>2, WrittenArena
<1>4. fault' \in {"stale", "lost"} /\ (fault' # "lost" => fault # "lost")
  BY <1>1, <1>2, WorseFacts DEF FacadeTypeOK
<1>5. FacadeTypeOK'
  BY <1>1, <1>2, <1>3, <1>4 DEF FacadeTypeOK, index, nPoints
<1>6. fault' # "lost" => AnchorsAgree'
  BY <1>1, <1>2, <1>3, <1>4 DEF AnchorsAgree, index, nPoints
<1> QED
  BY <1>2, <1>3, <1>4, <1>5, <1>6, OthersClaim

\* The rows an index takes are as many as it has candidates, and are stretched to that.
LEMMA TakenRows ==
    ASSUME FacadeTypeOK, NEW new \in Batches, Takes(new)
    PROVE  LET rows == Stretched(new, Len(impl.pts) - impl.nStatic)
           IN  /\ rows \in Seq(Coords)
               /\ Len(rows) = Len(impl.pts) - impl.nStatic
<1> DEFINE n == Len(impl.pts) - impl.nStatic
<1>1. n \in Nat
  BY BatchFacts, MaxPointsAssumption DEF FacadeTypeOK
<1>2. Broadcasts(new, n)
  BY DEF Takes, Broadcasts
<1> HIDE DEF n
<1>3. Stretched(new, n) \in Seq(Coords) /\ Len(Stretched(new, n)) = n
  BY <1>1, <1>2, StretchFacts
<1> QED
  BY <1>3 DEF n

\* update through the index makes the candidate rows agree again, if the anchors do.
LEMMA UpdateRefreshesKeeps ==
    ASSUME FaultInv, NEW t \in Threads, NEW new \in Batches, UpdateRefreshes(t, new)
    PROVE  FaultInv'
<1>1. /\ FacadeTypeOK /\ (fault # "lost" => AnchorsAgree)
      /\ fault = "none" => Tuned
  BY DEF FaultInv, FaultTypeOK
<1> DEFINE rows == Stretched(new, Len(impl.pts) - impl.nStatic)
           pts == SubSeq(impl.pts, 1, impl.nStatic) \o rows
<1>2. /\ Writes(t, new) /\ ~Raises(new) /\ ~Drifts(new) /\ Takes(new)
      /\ impl' = [impl EXCEPT !.pts = pts]
      /\ fault' = Repaired
      /\ Crosses(t, Call("update"))
      /\ UNCHANGED <<useLsh, candRef, driftLimit, tunedN, expectedRecall>>
  BY DEF UpdateRefreshes
<1>3. rows \in Seq(Coords) /\ Len(rows) = Len(impl.pts) - impl.nStatic
  BY <1>1, <1>2, TakenRows
<1>4. /\ arena' = SubSeq(arena, 1, nStatic) \o new
      /\ arena' \in Batches /\ arena' # <<>> /\ Len(arena') = nPoints
      /\ Len(new) = nCandidates /\ nPoints' = nPoints
      /\ UNCHANGED <<config, nStatic, radiusHint>>
  BY <1>1, <1>2, WrittenArena DEF nPoints
<1>5. ASSUME fault # "lost" PROVE rows = new
  BY <1>1, <1>4, <1>5, StretchedOver DEF AnchorsAgree, nCandidates
<1> HIDE DEF rows
<1>6. pts \in Batches /\ Len(pts) = Len(impl.pts)
  BY <1>1, <1>3, WrittenAnyway
<1>7. ASSUME fault # "lost"
      PROVE  /\ pts = arena' /\ Len(pts) = nPoints
             /\ SubSeq(pts, 1, nStatic) = SubSeq(arena, 1, nStatic)
  BY <1>1, <1>3, <1>4, <1>5, <1>7, WrittenRows
<1> HIDE DEF pts
<1>8. impl'.pts = pts /\ impl'.kind = impl.kind /\ impl'.nStatic = impl.nStatic
  BY <1>1, <1>2 DEF FacadeTypeOK
<1>9. /\ fault' \in {"none", "untuned", "lost"}
      /\ fault' # "lost" => fault # "lost"
      /\ fault' = "none" => fault = "none"
  BY <1>1, <1>2 DEF Repaired, FacadeTypeOK
<1>10. FacadeTypeOK'
  <2>1. impl' \in [kind : {"none", "brute", "lsh", "unbuilt"}, pts : Batches,
                   nStatic : 0..MaxPoints]
    BY <1>1, <1>2, <1>6 DEF FacadeTypeOK
  <2> QED
    BY <1>1, <1>2, <1>4, <1>6, <1>8, <1>9, <2>1 DEF FacadeTypeOK, nPoints
<1>11. fault' = "none" => Tuned'
  BY <1>1, <1>2, <1>8, <1>9, StillTuned
<1>12. fault' # "lost" => impl'.pts = arena' /\ AnchorsAgree'
  BY <1>1, <1>4, <1>7, <1>8, <1>9 DEF AnchorsAgree
<1>13. PICK call \in Calls : call = Call("update")
  BY CallFacts
<1>14. call.op = "update" /\ ~call.crossed
  BY <1>13, CallFacts
<1>15. Claims(call)'
  BY <1>4, <1>14 DEF Claims
<1> QED
  BY <1>2, <1>4, <1>9, <1>10, <1>11, <1>12, <1>13, <1>15, OthersClaim

-----------------------------------------------------------------------------
\* The points after a batch is added.
LEMMA Extended ==
    ASSUME NEW P \in Batches, NEW C \in Batches, Len(P \o C) <= MaxPoints
    PROVE  /\ P \o C \in Batches
           /\ Len(P \o C) = Len(P) + Len(C)
           /\ Len(P) \in 0..Len(P \o C)
           /\ SubSeq(P \o C, 1, Len(P)) = P
           /\ P # <<>> => P \o C # <<>>
<1>1. /\ P \in Seq(Coords) /\ C \in Seq(Coords)
      /\ Len(P) \in Nat /\ Len(C) \in Nat
  BY BatchFacts, MaxPointsAssumption
<1>2. P \o C \in Seq(Coords) /\ Len(P \o C) = Len(P) + Len(C)
  BY <1>1, ConcatProperties
<1>3. Len(P \o C) \in 0..MaxPoints
  BY <1>1, <1>2, MaxPointsAssumption
<1>4. SubSeq(P \o C, 1, Len(P)) = P
  BY <1>1, FrontOfConcat
<1>5. ASSUME P # <<>> PROVE P \o C # <<>>
  <2>1. Len(P) > 0
    BY <1>1, <1>5, EmptySeq
  <2>2. Len(P \o C) > 0
    BY <1>1, <1>2, <2>1
  <2> QED
    BY <2>2, NoRows
<1>6. P \o C \in Batches
  BY <1>2, <1>3, BatchFacts
<1>7. Len(P) \in 0..Len(P \o C)
  BY <1>1, <1>2
<1> QED
  BY <1>2, <1>4, <1>5, <1>6, <1>7

\* A shorter front of the same.
LEMMA FrontOfFront ==
    ASSUME NEW P \in Seq(Coords), NEW C \in Seq(Coords), NEW m \in 0..Len(P)
    PROVE  SubSeq(P \o C, 1, m) = SubSeq(P, 1, m)
<1> DEFINE A == P \o C
           front == SubSeq(A, 1, m)
           old == SubSeq(P, 1, m)
<1>1. Len(P) \in Nat /\ Len(C) \in Nat /\ m \in Nat /\ m <= Len(P)
  BY LenProperties
<1>2. /\ A \in Seq(Coords) /\ Len(A) = Len(P) + Len(C)
      /\ \A i \in 1..(Len(P) + Len(C)) : A[i] = IF i <= Len(P) THEN P[i] ELSE C[i - Len(P)]
  BY ConcatProperties
<1> HIDE DEF A
<1>3. \A i \in 1..m : A[i] = P[i] /\ A[i] \in Coords /\ P[i] \in Coords
  BY <1>1, <1>2, ElementOfSeq
<1>4. /\ front \in Seq(Coords)
      /\ Len(front) = IF 1 <= m THEN m - 1 + 1 ELSE 0
      /\ \A i \in 1..(m - 1 + 1) : front[i] = A[1 + i - 1]
  BY <1>1, <1>2, <1>3, SubSeqProperties
<1>5. /\ old \in Seq(Coords)
      /\ Len(old) = IF 1 <= m THEN m - 1 + 1 ELSE 0
      /\ \A i \in 1..(m - 1 + 1) : old[i] = P[1 + i - 1]
  BY <1>1, <1>3, SubSeqProperties
<1>6. Len(front) = m /\ Len(old) = m /\ \A i \in 1..m : front[i] = old[i]
  BY <1>1, <1>3, <1>4, <1>5
<1> HIDE DEF front, old
<1> QED
  BY <1>4, <1>5, <1>6, SeqEqual DEF front, old, A

\* The index has taken the batch and frozen its own rows; the facade is yet to follow.
LEMMA PromotesKeeps ==
    ASSUME FaultInv, NEW t \in Threads, NEW C \in Batches, Promotes(t, C)
    PROVE  FaultInv'
<1>1. /\ FacadeTypeOK /\ (fault # "lost" => AnchorsAgree)
      /\ fault = "none" => Tuned
      /\ fault \in {"none", "untuned"} => impl.pts = arena
  BY DEF FaultInv, FaultTypeOK
<1>2. PICK call \in Calls :
          call = [Call("promote") EXCEPT !.batch = C, !.wasLsh = useLsh, !.found = fault]
  BY <1>1, CallFacts DEF Calls, FacadeTypeOK
<1>3. /\ call.op = "promote" /\ call.batch = C /\ call.wasLsh = useLsh
      /\ call.found = fault /\ ~call.crossed
  BY <1>1, <1>2, CallFacts DEF Calls, FacadeTypeOK
<1>4. /\ impl' = Impl(impl.kind, impl.pts \o C, Len(impl.pts))
      /\ fault' = "lost" /\ Crosses(t, call) /\ arena # <<>>
      /\ UNCHANGED <<config, arena, nStatic, radiusHint, useLsh, candRef, driftLimit, tunedN>>
  BY <1>2 DEF Promotes, Frozen, Accepts, Fitted
<1>5. /\ impl.pts \in Batches /\ impl.pts \in Seq(Coords) /\ C \in Seq(Coords)
      /\ Len(impl.pts) \in Nat /\ Len(C) \in Nat /\ Len(impl.pts) <= MaxPoints
      /\ Len(arena) \in Nat /\ nStatic \in 0..Len(arena)
      /\ Len(impl.pts \o C) = Len(impl.pts) + Len(C)
  BY <1>1, BatchFacts, MaxPointsAssumption, ConcatProperties DEF FacadeTypeOK
<1>6. Len(impl.pts) + Len(C) <= MaxPoints
  <2>1. Max({Len(arena), Len(impl.pts)}) + Len(C) <= MaxPoints
    BY DEF Promotes
  <2>2. Max({Len(arena), Len(impl.pts)}) \in Nat /\ Max({Len(arena), Len(impl.pts)}) >= Len(impl.pts)
    BY <1>5, MaxOfTwo
  <2> QED
    BY <1>5, <2>1, <2>2, MaxPointsAssumption
<1>7. impl.pts \o C \in Batches
  BY <1>5, <1>6, Extended
<1>8. /\ impl'.kind = impl.kind /\ impl'.pts = impl.pts \o C /\ impl'.nStatic = Len(impl.pts)
  BY <1>4 DEF Impl
<1>9. FacadeTypeOK'
  <2>1. /\ impl' \in [kind : {"none", "brute", "lsh", "unbuilt"}, pts : Batches,
                      nStatic : 0..MaxPoints]
        /\ impl'.nStatic <= Len(impl'.pts)
    BY <1>1, <1>4, <1>5, <1>7, MaxPointsAssumption DEF FacadeTypeOK, Impl
  <2> QED
    BY <1>1, <1>4, <2>1 DEF FacadeTypeOK
<1>10. ASSUME fault # "lost" PROVE PromoteClaims(call)'
  <2>1. AnchorsAgree
    BY <1>1, <1>10
  <2>2. nPoints' = nPoints /\ Len(impl.pts) = nPoints
    BY <1>4, <2>1 DEF AnchorsAgree, nPoints
  <2>3. SubSeq(impl'.pts, 1, nStatic') = SubSeq(arena', 1, nStatic')
    BY <1>4, <1>5, <1>8, <2>1, <2>2, FrontOfFront DEF AnchorsAgree, nPoints
  <2>4. call.found \in {"none", "untuned"} => impl'.pts = arena' \o call.batch
    BY <1>1, <1>3, <1>4, <1>8
  <2>5. ASSUME call.found = "none"
        PROVE  /\ call.wasLsh = useLsh'
               /\ impl'.kind = IF useLsh' THEN "lsh" ELSE "brute"
               /\ useLsh' => tunedN' \in 1..nPoints' /\ driftLimit' \in DriftLimits
               /\ ~useLsh' => candRef' = NULL
    BY <1>1, <1>3, <1>4, <1>8, <2>2, <2>5
    DEF Tuned, GrowthWithinLimit, SnapshotFitsTier, Fitted
  <2> QED
    BY <1>3, <1>5, <1>8, <2>2, <2>3, <2>4, <2>5 DEF PromoteClaims
<1>11. Claims(call)'
  BY <1>3, <1>4, <1>10 DEF Claims
<1> QED
  BY <1>4, <1>9, <1>11, OthersClaim

\* What a promote has frozen, when nobody crossed it: on all but the worst level the index
\* agrees with the facade on every row it had.
LEMMA FrozenRows ==
    ASSUME FacadeTypeOK, NEW call \in Calls, PromoteClaims(call),
           Len(arena \o call.batch) <= MaxPoints, Froze(call) # "lost"
    PROVE  LET A == arena \o call.batch
           IN  /\ impl.nStatic = nPoints
               /\ Len(impl.pts) = Len(A)
               /\ SubSeq(impl.pts, 1, nPoints) = SubSeq(A, 1, nPoints)
               /\ Froze(call) \in {"none", "untuned"} => impl.pts = A
<1> DEFINE C == call.batch
           A == arena \o C
<1>1. /\ arena \in Batches /\ C \in Batches /\ impl.pts \in Batches
      /\ nStatic \in 0..Len(arena) /\ call.found \in {"none", "untuned", "stale", "lost"}
  BY DEF FacadeTypeOK, Calls
<1>2. Len(A) = Len(arena) + Len(C) /\ SubSeq(A, 1, nPoints) = arena
  BY <1>1, Extended DEF nPoints
<1>3. impl.nStatic = nPoints /\ Len(impl.pts) = Len(A)
  BY <1>2 DEF PromoteClaims, nPoints
<1>4. CASE call.found \in {"none", "untuned"}
  <2>1. impl.pts = A
    BY <1>4 DEF PromoteClaims
  <2> QED
    BY <1>3, <2>1
<1>5. CASE call.found = "stale"
  <2>1. ~(nCandidates > 0) /\ Froze(call) = "stale"
    BY <1>5 DEF Froze
  <2>2. nStatic = nPoints
    BY <1>1, <2>1, BatchFacts DEF nCandidates, nPoints
  <2>3. arena \in Seq(Coords)
    BY <1>1, BatchFacts
  <2>4. SubSeq(arena, 1, nStatic) = arena
    BY <2>2, <2>3, SubSeqFull DEF nPoints
  <2> QED
    BY <1>2, <1>3, <2>1, <2>2, <2>4 DEF PromoteClaims
<1>6. call.found # "lost"
  BY DEF Froze
<1> QED
  BY <1>1, <1>4, <1>5, <1>6

\* What a facade in order is like after a promote that does not rebuild it.
LEMMA PromotedTuned ==
    ASSUME FacadeTypeOK, arena # <<>>, NEW call \in Calls, PromoteClaims(call),
           call.found = "none",
           Len(arena \o call.batch) <= MaxPoints,
           ~RebuildsAt(Len(arena \o call.batch), call.wasLsh),
           arena' = arena \o call.batch, nStatic' = nPoints,
           candRef' = IF call.wasLsh THEN Snapshot(arena \o call.batch, nPoints) ELSE candRef,
           UNCHANGED <<config, useLsh, impl, driftLimit, tunedN>>
    PROVE  Tuned'
<1> DEFINE A == arena \o call.batch
<1>1. /\ arena \in Batches /\ call.batch \in Batches
      /\ call.wasLsh = useLsh
      /\ impl.kind = IF useLsh THEN "lsh" ELSE "brute"
      /\ useLsh => tunedN \in 1..nPoints /\ driftLimit \in DriftLimits
      /\ ~useLsh => candRef = NULL
  BY DEF FacadeTypeOK, Calls, PromoteClaims
<1>2. /\ A \in Batches /\ nPoints \in 0..Len(A) /\ Len(A) = nPoints + Len(call.batch)
      /\ Len(call.batch) \in Nat /\ nPoints \in Nat
  BY <1>1, Extended, BatchFacts, MaxPointsAssumption DEF nPoints
<1>3. useLsh /\ config.canRetune => ~Outgrown(Len(A))
  BY <1>1 DEF RebuildsAt
<1> HIDE DEF A
<1>4. arena' = A /\ nPoints' = Len(A) /\ nCandidates' = Len(A) - nPoints
  BY DEF nPoints, nCandidates, A
<1>5. candRef' = IF useLsh THEN Snapshot(A, nPoints) ELSE NULL
  BY <1>1 DEF A
<1>6. SnapshotFitsTier'
  BY <1>2, <1>4, <1>5, SnapshotFacts DEF SnapshotFitsTier
<1>7. DriftWithinLimit'
  <2>1. ASSUME useLsh, candRef' # NULL
        PROVE  ~Drifted(SubSeq(A, nPoints + 1, Len(A)), candRef', driftLimit)
    BY <1>1, <1>2, <1>5, <2>1, FreshSnapshot
  <2>2. candidates' = SubSeq(A, nPoints + 1, Len(A))
    BY <1>4 DEF candidates
  <2> QED
    BY <2>1, <2>2 DEF DriftWithinLimit, Drifted
<1>8. GrowthWithinLimit'
  <2>1. ASSUME useLsh
        PROVE  tunedN \in 1..Len(A) /\ (config.canRetune => 2 * Len(A) < 3 * tunedN)
    BY <1>1, <1>2, <1>3, <2>1 DEF Outgrown
  <2> QED
    BY <1>4, <2>1 DEF GrowthWithinLimit
<1> QED
  BY <1>1, <1>6, <1>7, <1>8 DEF Tuned

\* The facade follows, on whatever arena it comes back to.
LEMMA FreezesKeeps ==
    ASSUME FaultInv, NEW t \in Threads, Freezes(t)
    PROVE  FaultInv'
<1>1. PICK call \in Calls : call = inside[t]
  BY DEF FaultInv, FaultTypeOK, Freezes, At
<1>2. /\ FacadeTypeOK /\ call.op = "promote" /\ Claims(call)
      /\ call.found \in {"none", "untuned", "stale", "lost"}
  BY <1>1 DEF FaultInv, FaultTypeOK, Freezes, At, Calls
<1> DEFINE A == arena \o call.batch
<1>3. /\ Len(A) <= MaxPoints /\ arena' = A /\ nStatic' = nPoints
      /\ UNCHANGED <<config, radiusHint, impl, driftLimit, tunedN>>
  BY <1>1 DEF Freezes
<1>4. /\ A \in Batches /\ A # <<>> /\ nPoints \in 0..Len(A) /\ Len(A) \in Nat
  BY <1>2, <1>3, Extended, BatchFacts, MaxPointsAssumption
  DEF FacadeTypeOK, Claims, Calls, nPoints
<1>5. /\ Froze(call) \in {"none", "untuned", "stale", "lost"}
      /\ Froze(call) \in {"none", "untuned"} => call.found = Froze(call)
      /\ call.found = "lost" => Froze(call) = "lost"
  BY <1>2 DEF Froze
<1>6. ASSUME Froze(call) # "lost"
      PROVE  /\ AnchorsAgree'
             /\ Froze(call) \in {"none", "untuned"} => impl'.pts = arena'
  <2>1. PromoteClaims(call)
    BY <1>2, <1>5, <1>6 DEF Claims
  <2>2. /\ impl.nStatic = nPoints
        /\ Len(impl.pts) = Len(A)
        /\ SubSeq(impl.pts, 1, nPoints) = SubSeq(A, 1, nPoints)
        /\ Froze(call) \in {"none", "untuned"} => impl.pts = A
    BY <1>2, <1>3, <1>6, <2>1, FrozenRows
  <2> QED
    BY <1>3, <2>2 DEF AnchorsAgree, nPoints
<1>7. CASE RebuildsAt(Len(A), call.wasLsh)
  <2>1. /\ useLsh' = TRUE /\ candRef' = candRef
        /\ fault' = Worse(Froze(call), "untuned")
        /\ Crosses(t, Tuning(Len(A), Froze(call)))
    BY <1>1, <1>7 DEF Freezes
  <2>2. PICK next \in Calls : next = Tuning(Len(A), Froze(call))
    BY <1>4, <1>5, TuningFacts
  <2>3. next.op = "tune" /\ next.size = Len(A) /\ ~next.crossed
    BY <1>4, <1>5, <2>2, TuningFacts
  <2>4. /\ fault' \in {"untuned", "stale", "lost"}
        /\ fault' = "untuned" => Froze(call) \in {"none", "untuned"}
        /\ fault' # "lost" => Froze(call) # "lost"
    BY <1>5, <2>1, WorseFacts
  <2>5. FacadeTypeOK'
    BY <1>2, <1>3, <1>4, <2>1, <2>4 DEF FacadeTypeOK
  <2>6. Claims(next)'
    BY <1>3, <1>4, <2>1, <2>3, <2>4 DEF Claims, TuneClaims, nPoints
  <2> HIDE DEF A
  <2> QED
    BY <1>3, <1>4, <1>6, <2>1, <2>2, <2>4, <2>5, <2>6, OthersClaim
<1>8. CASE ~RebuildsAt(Len(A), call.wasLsh)
  <2>1. /\ candRef' = IF call.wasLsh THEN Snapshot(A, nPoints) ELSE candRef
        /\ fault' = Froze(call) /\ Crosses(t, NULL) /\ useLsh' = useLsh
    BY <1>1, <1>8 DEF Freezes
  <2>2. FacadeTypeOK'
    BY <1>2, <1>3, <1>4, <1>5, <2>1, SnapshotFacts DEF FacadeTypeOK
  <2>3. ASSUME fault' = "none" PROVE Tuned'
    <3>1. call.found = "none" /\ PromoteClaims(call) /\ arena # <<>>
      BY <1>2, <1>5, <2>1, <2>3 DEF Claims
    <3> QED
      BY <1>2, <1>3, <1>8, <2>1, <3>1, PromotedTuned
  <2> HIDE DEF A
  <2> QED
    BY <1>3, <1>4, <1>6, <2>1, <2>2, <2>3, OthersClaim
<1> QED
  BY <1>7, <1>8

-----------------------------------------------------------------------------
\* A lazily building query sets the mode first.
LEMMA QueryTunesKeeps ==
    ASSUME FaultInv, NEW t \in Threads, NEW threshold, QueryTunes(t, threshold)
    PROVE  FaultInv'
<1>1. FacadeTypeOK
  BY DEF FaultInv, FaultTypeOK
<1>2. nPoints \in Nat
  BY <1>1, BatchFacts, MaxPointsAssumption DEF FacadeTypeOK, nPoints
<1>3. PICK call \in Calls : call = Tuning(nPoints, fault)
  BY <1>1, <1>2, TuningFacts DEF FacadeTypeOK
<1>4. call.op = "tune" /\ call.size = nPoints /\ call.found = fault /\ ~call.crossed
  BY <1>1, <1>2, <1>3, TuningFacts DEF FacadeTypeOK
<1>5. /\ arena # <<>> /\ useLsh' = TRUE /\ fault' = Worse(fault, "untuned") /\ Crosses(t, call)
      /\ UNCHANGED <<config, arena, nStatic, radiusHint, impl, candRef, driftLimit, tunedN>>
  BY <1>3 DEF QueryTunes, Fitted
<1>6. /\ fault' \in {"untuned", "stale", "lost"}
      /\ fault' = "untuned" => fault \in {"none", "untuned"}
      /\ fault' # "lost" => fault # "lost"
  BY <1>1, <1>5, WorseFacts DEF FacadeTypeOK
<1>7. FacadeTypeOK'
  BY <1>1, <1>5, <1>6 DEF FacadeTypeOK
<1>8. /\ fault' = "untuned" => impl'.pts = arena'
      /\ fault' # "lost" => AnchorsAgree'
  BY <1>5, <1>6 DEF FaultInv, AnchorsAgree, nPoints
<1>9. Claims(call)'
  BY <1>4, <1>5, <1>6 DEF Claims, TuneClaims, nPoints
<1> QED
  BY <1>5, <1>6, <1>7, <1>8, <1>9, OthersClaim

\* A query inside the index changes nothing but that it is there.
LEMMA QueryInsideKeeps ==
    ASSUME FaultInv, NEW t \in Threads, QueryEnters(t) \/ Leaves(t)
    PROVE  FaultInv'
<1>1. CASE QueryEnters(t)
  <2>1. PICK call \in Calls : call = Call("query")
    BY CallFacts
  <2>2. call.op = "query" /\ ~call.crossed
    BY <2>1, CallFacts
  <2>3. Claims(call) /\ Goes(t, call) /\ UNCHANGED <<vars, fault>>
    BY <1>1, <2>1, <2>2 DEF QueryEnters, Fitted, Claims
  <2> QED
    BY <2>3, NobodyCrossed
<1>2. CASE Leaves(t)
  BY <1>2, NobodyCrossed DEF Leaves
<1> QED
  BY <1>1, <1>2

-----------------------------------------------------------------------------
\* A new object has no failure behind it and no call in progress.
LEMMA FaultInitOk ==
    ASSUME FaultyInit
    PROVE  FaultInv
<1>1. Init /\ fault = "none" /\ inside = [t \in Threads |-> NULL]
  BY DEF FaultyInit
<1>2. IInv
  BY <1>1, InitOk
<1>3. TypeOK /\ ImplInSync
  BY <1>1, <1>2 DEF IInv
<1>4. tunedN \in Nat
  BY <1>1 DEF Init
<1>5. FaultTypeOK
  BY <1>1, <1>3, <1>4, NoRows DEF FaultTypeOK, FacadeTypeOK, TypeOK, ImplInSync, Init
<1>6. Tuned
  BY <1>2 DEF IInv, Tuned, ImplInSync
<1>7. impl.pts = arena /\ AnchorsAgree
  BY <1>3 DEF AnchorsAgree, ImplInSync, nPoints
<1> QED
  BY <1>1, <1>5, <1>6, <1>7 DEF FaultInv

\* Every step of every thread keeps FaultInv.
LEMMA FaultyNextKeeps ==
    ASSUME FaultInv, [FaultyNext]_allVars
    PROVE  FaultInv'
<1>1. CASE RejectedFit
  BY <1>1, RejectFitKeeps DEF RejectedFit
<1>2. ASSUME NEW t \in Threads, NEW P \in FitInputs, NEW ns \in 0..MaxPoints,
             NEW hint \in Radii \cup {NULL},
             FitExact(t, P, ns, hint) \/ FitTunes(t, P, ns, hint)
      PROVE  FaultInv'
  BY <1>2, FitExactKeeps, FitTunesKeeps
<1>3. ASSUME NEW t \in Threads, NEW new \in Batches,
             UpdateTunes(t, new) \/ UpdateRefreshes(t, new) \/ RefuseUpdate(t, new)
                \/ Promotes(t, new)
      PROVE  FaultInv'
  BY <1>3, UpdateTunesKeeps, UpdateRefreshesKeeps, RefuseUpdateKeeps, PromotesKeeps
<1>4. ASSUME NEW t \in Threads, NEW threshold, QueryTunes(t, threshold)
      PROVE  FaultInv'
  BY <1>4, QueryTunesKeeps
<1>5. ASSUME NEW t \in Threads,
             Installs(t) \/ Snapshots(t) \/ FailTune(t) \/ FailMake(t) \/ FailBuild(t)
      PROVE  FaultInv'
  BY <1>5, InstallsKeeps, SnapshotsKeeps, FailTuneKeeps, FailMakeKeeps, FailBuildKeeps
<1>6. ASSUME NEW t \in Threads, Freezes(t) \/ QueryEnters(t) \/ Leaves(t)
      PROVE  FaultInv'
  BY <1>6, FreezesKeeps, QueryInsideKeeps
<1>7. CASE UNCHANGED allVars
  BY <1>7
  DEF allVars, vars, index, FaultInv, FaultTypeOK, FacadeTypeOK, Tuned, SnapshotFitsTier,
      DriftWithinLimit, GrowthWithinLimit, candidates, nCandidates, nPoints, Fitted,
      AnchorsAgree, Claims, TuneClaims, BuildClaims, PromoteClaims
<1> QED
  BY <1>1, <1>2, <1>3, <1>4, <1>5, <1>6, <1>7 DEF FaultyNext, Step

\* FaultInv holds after any history of complete, failed and overlapping calls.
THEOREM FaultsAreContained == FaultySpec => []FaultInv
BY FaultInitOk, FaultyNextKeeps, PTL DEF FaultySpec

\* After any such history the two copies of the points differ only as the level says, and a
\* build that nobody crossed has repaired everything.
THEOREM FailuresLeaveThis == FaultySpec => []FaultsLeave
<1>1. ASSUME FaultInv PROVE FaultsLeave
  <2>1. ASSUME fault = "none"
        PROVE  ImplInSync /\ SnapshotFitsTier /\ DriftWithinLimit /\ GrowthWithinLimit
    BY <1>1, <2>1 DEF FaultInv, Tuned, AnchorsAgree, ImplInSync
  <2>2. ASSUME fault = "untuned"
        PROVE  impl.pts = arena /\ impl.nStatic = nStatic
    BY <1>1, <2>2 DEF FaultInv, AnchorsAgree
  <2>3. ASSUME fault \in {"none", "untuned", "stale"}
        PROVE  AnchorsAgree
    BY <1>1, <2>3 DEF FaultInv
  <2> QED
    BY <2>1, <2>2, <2>3 DEF FaultsLeave, AnchorsAgree
<1> QED
  BY <1>1, FaultsAreContained, PTL

\* Only its own step makes a thread begin to tune.
LEMMA OthersDoNotTune ==
    ASSUME FaultTypeOK, NEW s \in Threads, NEW call \in Calls \cup {NULL},
           Crosses(s, call) \/ Replaces(s, call) \/ Goes(s, call),
           NEW t \in Threads, ~At(t, "tune"), At(t, "tune")'
    PROVE  s = t /\ call # NULL /\ call.op = "tune"
<1>1. CASE s = t
  <2>1. inside'[t] = call
    BY <1>1, OthersCrossed DEF Goes, FaultTypeOK
  <2> QED
    BY <1>1, <2>1 DEF At
<1>2. CASE s # t
  <2>1. /\ inside'[t] = NULL <=> inside[t] = NULL
        /\ inside[t] # NULL => inside'[t].op = inside[t].op
    BY <1>2, OthersCrossed DEF Goes, FaultTypeOK
  <2> QED
    BY <2>1 DEF At
<1> QED
  BY <1>1, <1>2

\* An index that entered LSH mode without being tuned stays untuned through every
\* promote called in that mode and through every query: only a fit tunes it, or an update
\* that has a snapshot to compare with.
THEOREM GrowthNeverTunes == FaultySpec => NeverTunedOutlivesGrowth
<1> DEFINE Allowed(t) ==
              \/ \E P \in FitInputs, ns \in 0..MaxPoints, hint \in Radii \cup {NULL} :
                    FitTunes(t, P, ns, hint)
              \/ candRef # NULL /\ \E new \in Batches : UpdateTunes(t, new)
              \/ At(t, "promote") /\ ~inside[t].wasLsh
           Never == useLsh /\ tunedN = 0 =>
                       \A t \in Threads : ~At(t, "tune") /\ At(t, "tune")' => Allowed(t)
<1>1. ASSUME FaultInv, FaultyNext PROVE Never
  <2> SUFFICES ASSUME useLsh, tunedN = 0, NEW t \in Threads, ~At(t, "tune"), At(t, "tune")'
               PROVE  Allowed(t)
    OBVIOUS
  <2>1. FaultTypeOK /\ FacadeTypeOK
    BY <1>1 DEF FaultInv, FaultTypeOK
  <2>2. \A s \in Threads, call \in Calls \cup {NULL} :
            Crosses(s, call) \/ Replaces(s, call) \/ Goes(s, call) =>
                s = t /\ call # NULL /\ call.op = "tune"
    BY <2>1, OthersDoNotTune
  <2>3. \A s \in Threads : ~(Crosses(s, NULL) \/ Replaces(s, NULL) \/ Goes(s, NULL))
    BY <2>2
  <2>4. \A n \in Nat, level \in {"none", "untuned", "stale", "lost"} : Tuning(n, level) \in Calls
    BY TuningFacts
  <2>5. \A n : ~RebuildsAt(n, TRUE)
    BY DEF RebuildsAt, Outgrown
  <2>6. nPoints \in Nat /\ fault \in {"none", "untuned", "stale", "lost"}
    BY <2>1, BatchFacts, MaxPointsAssumption DEF FacadeTypeOK, nPoints
  <2>7. ASSUME NEW s \in Threads, NEW P \in FitInputs, NEW ns \in 0..MaxPoints,
               NEW hint \in Radii \cup {NULL},
               FitExact(s, P, ns, hint) \/ FitTunes(s, P, ns, hint) \/ RejectFit(s, P, ns)
        PROVE  Allowed(t)
    <3>1. FitTunes(s, P, ns, hint)
      BY <2>3, <2>7 DEF FitExact, RejectFit
    <3>2. Len(P) \in Nat
      BY FitInputsAssumption, BatchFacts, MaxPointsAssumption
    <3>3. s = t
      BY <2>2, <2>4, <2>6, <3>1, <3>2 DEF FitTunes
    <3> QED
      BY <3>1, <3>3
  <2>8. ASSUME NEW s \in Threads, NEW new \in Batches,
               UpdateTunes(s, new) \/ UpdateRefreshes(s, new) \/ RefuseUpdate(s, new)
        PROVE  Allowed(t)
    <3>1. ~UpdateRefreshes(s, new)
      <4>1. Call("update") \in Calls /\ Call("update").op = "update"
        BY CallFacts
      <4> QED
        BY <2>2, <4>1 DEF UpdateRefreshes
    <3>2. UpdateTunes(s, new)
      BY <2>3, <2>8, <3>1 DEF RefuseUpdate
    <3>3. s = t /\ candRef # NULL
      BY <2>2, <2>4, <2>6, <3>2 DEF UpdateTunes, Drifts, Measured
    <3> QED
      BY <3>2, <3>3
  <2>9. ASSUME NEW s \in Threads, NEW C \in Batches, Promotes(s, C)
        PROVE  FALSE
    <3>1. PICK call \in Calls :
              call = [Call("promote") EXCEPT !.batch = C, !.wasLsh = useLsh, !.found = fault]
      BY <2>1, CallFacts DEF Calls, FacadeTypeOK
    <3>2. call.op = "promote"
      BY <2>1, <3>1, CallFacts DEF Calls
    <3> QED
      BY <2>2, <2>9, <3>1, <3>2 DEF Promotes
  <2>10. ASSUME NEW s \in Threads, Freezes(s)
         PROVE  Allowed(t)
    <3>1. inside[s] \in Calls /\ At(s, "promote") /\ inside[s].wasLsh \in BOOLEAN
      BY <2>1, <2>10 DEF Freezes, At, FaultTypeOK, Calls
    <3>2. /\ Crosses(s, Tuning(Len(arena \o inside[s].batch), Froze(inside[s])))
          /\ RebuildsAt(Len(arena \o inside[s].batch), inside[s].wasLsh)
      BY <2>3, <2>10 DEF Freezes
    <3>3. Len(arena \o inside[s].batch) \in Nat
      BY <2>1, <2>10, <3>1, Extended, BatchFacts, MaxPointsAssumption
      DEF Freezes, FacadeTypeOK, Calls
    <3>4. Froze(inside[s]) \in {"none", "untuned", "stale", "lost"}
      BY <3>1 DEF Froze, Calls
    <3>5. s = t
      BY <2>2, <2>4, <3>2, <3>3, <3>4
    <3>6. ~inside[s].wasLsh
      BY <2>5, <3>1, <3>2
    <3> QED
      BY <3>1, <3>5, <3>6
  <2>11. ASSUME NEW s \in Threads, NEW threshold, QueryTunes(s, threshold)
         PROVE  FALSE
    BY <2>11 DEF QueryTunes
  <2>12. ASSUME NEW s \in Threads, Installs(s)
         PROVE  FALSE
    <3>1. inside[s] \in Calls
      BY <2>1, <2>12 DEF Installs, At, FaultTypeOK
    <3>2. PICK call \in Calls :
              call = [Call("build") EXCEPT !.found = inside[s].found, !.crossed = inside[s].crossed]
      BY <3>1, CallFacts DEF Calls
    <3>3. call.op = "build"
      BY <3>2, CallFacts DEF Calls
    <3> QED
      BY <2>2, <2>12, <3>2, <3>3 DEF Installs
  <2>13. ASSUME NEW s \in Threads,
                Snapshots(s) \/ FailTune(s) \/ FailMake(s) \/ FailBuild(s) \/ Leaves(s)
         PROVE  FALSE
    BY <2>3, <2>13 DEF Snapshots, FailTune, FailMake, FailBuild, Leaves
  <2>14. ASSUME NEW s \in Threads, QueryEnters(s)
         PROVE  FALSE
    <3>1. Call("query") \in Calls /\ Call("query").op = "query"
      BY CallFacts
    <3> QED
      BY <2>2, <2>14, <3>1 DEF QueryEnters
  <2>15. NULL \in Radii \cup {NULL}
    OBVIOUS
  <2> HIDE DEF Allowed
  <2> QED
    BY <1>1, <2>7, <2>8, <2>9, <2>10, <2>11, <2>12, <2>13, <2>14, <2>15
    DEF FaultyNext, RejectedFit, Step
<1>2. FaultInv /\ [FaultyNext]_allVars => [Never]_allVars
  BY <1>1
<1>3. FaultySpec => [][Never]_allVars
  <2> HIDE DEF Never
  <2> QED
    BY <1>2, FaultsAreContained, PTL DEF FaultySpec
<1> QED
  BY <1>3 DEF NeverTunedOutlivesGrowth

-----------------------------------------------------------------------------
\* The calls that may have led to a rebuild over the present arena, from the facade that
\* before holds.
Called ==
    \/ /\ arena \in FitInputs
       /\ nStatic \in 0..MaxPoints
       /\ nPoints > FitThreshold(radiusHint)
    \/ \E new \in Batches :
          /\ before.arena # <<>>
          /\ Len(new) = Len(before.arena) - before.nStatic
          /\ arena = SubSeq(before.arena, 1, before.nStatic) \o new
          /\ nStatic = before.nStatic /\ radiusHint = before.radiusHint
          /\ before.useLsh /\ config.canRetune /\ before.candRef # NULL
          /\ Drifted(new, before.candRef, before.driftLimit)
    \/ \E C \in Batches :
          /\ before.arena # <<>>
          /\ arena = before.arena \o C
          /\ nStatic = Len(before.arena) /\ radiusHint = before.radiusHint
          /\ IF before.useLsh
             THEN config.canRetune /\ before.tunedN > 0 /\ 2 * nPoints >= 3 * before.tunedN
             ELSE nPoints > FitThreshold(radiusHint)
    \/ /\ before.arena # <<>> /\ ~before.useLsh
       /\ arena = before.arena
       /\ nStatic = before.nStatic /\ radiusHint = before.radiusHint
       /\ nPoints > config.knn \/ nPoints > config.radius

\* What is left to do of an orderly call.
Leads(call) ==
    /\ call.op = "promote" =>
          /\ before.arena # <<>> /\ call.batch \in Batches
          /\ Now = [before EXCEPT !.impl = Impl(before.impl.kind, before.impl.pts \o call.batch,
                                                Len(before.impl.pts))]
    /\ call.op = "tune" => Called /\ expectedRecall = before.expectedRecall
    /\ call.op = "build" =>
          /\ Called
          /\ expectedRecall = IF config.planned THEN "predicted" ELSE before.expectedRecall

\* before is the facade as it is, or as the one orderly call found it.
AtomInv ==
    /\ \A s, t \in Orderly : s = t
    /\ Orderly = {} => before = Now
    /\ \A t \in Orderly : Leads(inside[t])

\* Numbers and sets do not depend on the points.
LEMMA SameNumbers ==
    /\ \A members : Atomic!Min(members) = Min(members)
    /\ \A members : Atomic!Cardinality(members) = Cardinality(members)
<1>1. \A members : Atomic!Min(members) = Min(members)
  BY DEF Min, Atomic!Min
<1>2. \A members : Atomic!Cardinality(members) = Cardinality(members)
  BY DEF Cardinality, Atomic!Cardinality
<1> QED
  BY <1>1, <1>2

\* Nor do the drift test and the batches.
LEMMA SameTest ==
    /\ \A new, ref, limit : Atomic!Drifted(new, ref, limit) = Drifted(new, ref, limit)
    /\ Atomic!Batches = Batches
<1>1. \A x, y : Atomic!Gap(x, y) = Gap(x, y)
  BY DEF Gap, Atomic!Gap
<1>2. \A t : Atomic!TwiceMedian(t) = TwiceMedian(t)
  BY SameNumbers DEF TwiceMedian, Atomic!TwiceMedian
<1>3. Atomic!Batches = Batches
  BY DEF Batches, Coords, Atomic!Batches, Atomic!Coords
<1>4. ASSUME NEW new, NEW ref, NEW limit
      PROVE  Atomic!Drifted(new, ref, limit) = Drifted(new, ref, limit)
  BY <1>1, <1>2 DEF Drifted, Atomic!Drifted
<1> QED
  BY <1>3, <1>4

\* What a build leaves does not depend on the facade it finds.
LEMMA SameBuild ==
    /\ \A kind, A, ns : Atomic!Impl(kind, A, ns) = Impl(kind, A, ns)
    /\ \A A, ns : Atomic!Snapshot(A, ns) = Snapshot(A, ns)
    /\ \A hint : Atomic!FitThreshold(hint) = FitThreshold(hint)
<1>1. \A kind, A, ns : Atomic!Impl(kind, A, ns) = Impl(kind, A, ns)
  BY DEF Impl, Atomic!Impl
<1>2. \A A, ns : Atomic!Snapshot(A, ns) = Snapshot(A, ns)
  BY SameNumbers DEF Snapshot, Atomic!Snapshot
<1>3. \A hint : Atomic!FitThreshold(hint) = FitThreshold(hint)
  BY DEF FitThreshold, Atomic!FitThreshold
<1> QED
  BY <1>1, <1>2, <1>3

\* Which calls are orderly after a step that crosses the others: its own, if any.
LEMMA OrderlyAfter ==
    ASSUME FaultTypeOK, NEW t \in Threads, NEW call \in Calls \cup {NULL},
           Crosses(t, call) \/ Replaces(t, call)
    PROVE  Orderly' = IF /\ call # NULL /\ call.op \in {"promote", "tune", "build"}
                         /\ call.found = "none"
                      THEN {t} ELSE {}
<1>1. /\ inside'[t] = call
      /\ \A s \in Threads \ {t} :
            /\ inside'[s] = NULL <=> inside[s] = NULL
            /\ inside[s] # NULL => inside'[s].found = "lost"
  BY OthersCrossed
<1>2. \A s \in Threads \ {t} : s \notin Orderly'
  BY <1>1 DEF Orderly, At
<1>3. t \in Orderly' <=> /\ call # NULL /\ call.op \in {"promote", "tune", "build"}
                         /\ call.found = "none"
  BY <1>1 DEF Orderly, At
<1>4. Orderly' \subseteq Threads
  BY DEF Orderly
<1> QED
  BY <1>2, <1>3, <1>4

\* An orderly call is under way and uncrossed.
LEMMA OrderlyFacts ==
    ASSUME FaultInv, NEW t \in Orderly
    PROVE  /\ t \in Threads /\ inside[t] # NULL /\ inside[t] \in Calls
           /\ inside[t].op \in {"promote", "tune", "build"} /\ inside[t].found = "none"
           /\ Claims(inside[t]) /\ ~inside[t].crossed
           /\ fault # "none"
<1>1. /\ t \in Threads /\ inside[t] # NULL /\ inside[t] \in Calls
      /\ inside[t].op \in {"promote", "tune", "build"} /\ inside[t].found = "none"
      /\ Claims(inside[t])
  BY DEF Orderly, At, FaultInv, FaultTypeOK
<1>2. ~inside[t].crossed
  BY <1>1 DEF Claims
<1> QED
  BY <1>1, <1>2 DEF Claims

\* While everything is in order no orderly call is under way.
LEMMA InOrder ==
    ASSUME FaultInv, AtomInv, fault = "none"
    PROVE  Orderly = {} /\ before = Now
BY OrderlyFacts DEF AtomInv

\* After a step that leaves no orderly call, the facade is remembered as it is.
LEMMA NoneIsOrderly ==
    ASSUME Remembers, Orderly' = {}
    PROVE  AtomInv' /\ before' = Now'
BY DEF Remembers, AtomInv

\* A step that is no part of an orderly call.
LEMMA Disorderly ==
    ASSUME FaultTypeOK, NEW t \in Threads, NEW call \in Calls \cup {NULL},
           Crosses(t, call) \/ Replaces(t, call), Remembers,
           call = NULL \/ call.op \in {"query", "update"} \/ call.found # "none"
    PROVE  AtomInv' /\ before' = Now' /\ Orderly' = {}
<1>1. Orderly' = {}
  BY OrderlyAfter
<1> QED
  BY <1>1, NoneIsOrderly

\* An orderly call begins on the facade it is remembered with.
LEMMA OrderlyBegins ==
    ASSUME FaultInv, AtomInv, NEW t \in Threads, NEW call \in Calls,
           Crosses(t, call) \/ Replaces(t, call), Remembers,
           fault = "none", call.op \in {"promote", "tune", "build"}, call.found = "none"
    PROVE  Orderly' = {t} /\ before' = Now /\ inside'[t] = call
<1>1. Orderly = {}
  BY InOrder
<1>2. Orderly' = {t} /\ inside'[t] = call
  BY OrderlyAfter, OthersCrossed, NullIsNoCall DEF FaultInv
<1> QED
  BY <1>1, <1>2 DEF Remembers

\* An orderly call goes on.
LEMMA OrderlyGoesOn ==
    ASSUME FaultInv, AtomInv, NEW t \in Orderly, NEW call \in Calls,
           Crosses(t, call) \/ Replaces(t, call), Remembers,
           call.op \in {"promote", "tune", "build"}, call.found = "none"
    PROVE  Orderly' = {t} /\ before' = before /\ inside'[t] = call
<1>1. t \in Threads
  BY DEF Orderly
<1>2. Orderly = {t}
  BY DEF AtomInv
<1>3. Orderly' = {t} /\ inside'[t] = call
  BY <1>1, OrderlyAfter, OthersCrossed, NullIsNoCall DEF FaultInv
<1> QED
  BY <1>2, <1>3 DEF Remembers

\* What it has to do is what AtomInv asks.
LEMMA OneIsOrderly ==
    ASSUME NEW t \in Threads, NEW call, Orderly' = {t}, inside'[t] = call, Leads(call)'
    PROVE  AtomInv'
<1>1. \A s \in Orderly' : s = t
  OBVIOUS
<1>2. Leads(inside[t])'
  BY DEF Leads, Called
<1> QED
  BY <1>1, <1>2 DEF AtomInv

-----------------------------------------------------------------------------
\* The calls that set out to rebuild an orderly facade.
LEMMA BeginsAtom ==
    ASSUME FaultInv, AtomInv, Remembers, NEW t \in Threads,
           \/ \E P \in FitInputs, ns \in 0..MaxPoints, hint \in Radii \cup {NULL} :
                 FitTunes(t, P, ns, hint)
           \/ \E new \in Batches : UpdateTunes(t, new)
           \/ \E threshold \in {config.knn, config.radius} : QueryTunes(t, threshold)
    PROVE  AtomInv'
<1>1. FaultTypeOK /\ FacadeTypeOK /\ (fault = "none" => Tuned)
  BY DEF FaultInv, FaultTypeOK
<1>2. fault \in {"none", "untuned", "stale", "lost"} /\ nPoints \in Nat
  BY <1>1, BatchFacts, MaxPointsAssumption DEF FacadeTypeOK, nPoints
<1>3. PICK n \in Nat : Crosses(t, Tuning(n, fault)) /\ UNCHANGED <<config, expectedRecall>>
  <2>1. \A P \in FitInputs : Len(P) \in Nat
    BY FitInputsAssumption, BatchFacts, MaxPointsAssumption
  <2> QED
    BY <1>2, <2>1 DEF FitTunes, UpdateTunes, QueryTunes, Writes, index
<1>4. PICK call \in Calls : call = Tuning(n, fault)
  BY <1>2, TuningFacts
<1>5. call.op = "tune" /\ call.found = fault
  BY <1>2, <1>4, TuningFacts
<1>6. CASE fault # "none"
  BY <1>1, <1>3, <1>4, <1>5, <1>6, Disorderly
<1>7. CASE fault = "none"
  <2>1. Orderly' = {t} /\ before' = Now /\ inside'[t] = call
    BY <1>3, <1>4, <1>5, <1>7, OrderlyBegins
  <2>2. /\ before'.arena = arena /\ before'.nStatic = nStatic /\ before'.radiusHint = radiusHint
        /\ before'.useLsh = useLsh /\ before'.candRef = candRef
        /\ before'.driftLimit = driftLimit /\ before'.expectedRecall = expectedRecall
    BY <2>1 DEF Now
  <2>3. ASSUME NEW P \in FitInputs, NEW ns \in 0..MaxPoints, NEW hint \in Radii \cup {NULL},
               FitTunes(t, P, ns, hint)
        PROVE  Called'
    BY <2>3 DEF FitTunes, Called, FitThreshold, nPoints
  <2>4. ASSUME NEW new \in Batches, UpdateTunes(t, new)
        PROVE  Called'
    <3>1. Writes(t, new) /\ Drifts(new)
      BY <2>4 DEF UpdateTunes
    <3>2. Stretched(new, Len(candRef)) = new
      BY <1>1, <1>7, <3>1, NoStretch DEF Writes, Drifts, Measured
    <3>3. /\ useLsh /\ config.canRetune /\ candRef # NULL
          /\ Drifted(new, candRef, driftLimit)
      BY <3>1, <3>2 DEF Drifts, Measured
    <3>4. Drifted(new, before.candRef, before.driftLimit)'
      BY <2>2, <3>3 DEF Drifted
    <3> QED
      BY <1>3, <2>2, <3>1, <3>3, <3>4 DEF Called, Writes, Fitted, nCandidates, nPoints
  <2>5. ASSUME NEW threshold \in {config.knn, config.radius}, QueryTunes(t, threshold)
        PROVE  Called'
    BY <2>2, <2>5 DEF QueryTunes, Called, Fitted, nPoints
  <2>6. Leads(call)'
    BY <1>3, <1>5, <2>2, <2>3, <2>4, <2>5 DEF Leads
  <2> QED
    BY <2>1, <2>6, OneIsOrderly
<1> QED
  BY <1>6, <1>7

\* A promote of an orderly facade.
LEMMA PromotesAtom ==
    ASSUME FaultInv, AtomInv, Remembers, NEW t \in Threads, NEW C \in Batches, Promotes(t, C)
    PROVE  AtomInv'
<1>1. FaultTypeOK /\ FacadeTypeOK
  BY DEF FaultInv, FaultTypeOK
<1>2. PICK call \in Calls :
          call = [Call("promote") EXCEPT !.batch = C, !.wasLsh = useLsh, !.found = fault]
  BY <1>1, CallFacts DEF Calls, FacadeTypeOK
<1>3. call.op = "promote" /\ call.batch = C /\ call.found = fault
  BY <1>1, <1>2, CallFacts DEF Calls, FacadeTypeOK
<1>4. /\ impl' = Impl(impl.kind, impl.pts \o C, Len(impl.pts))
      /\ Crosses(t, call) /\ arena # <<>>
      /\ UNCHANGED <<config, arena, nStatic, radiusHint, useLsh, candRef, driftLimit, tunedN,
                     expectedRecall>>
  BY <1>2 DEF Promotes, Frozen, Accepts, Fitted
<1>5. CASE fault # "none"
  BY <1>1, <1>3, <1>4, <1>5, Disorderly
<1>6. CASE fault = "none"
  <2>1. Orderly' = {t} /\ before' = Now /\ inside'[t] = call
    BY <1>3, <1>4, <1>6, OrderlyBegins
  <2>2. Now' = [before' EXCEPT !.impl = impl']
    BY <1>4, <2>1 DEF Now
  <2>3. before'.impl = impl /\ before'.arena = arena
    BY <2>1 DEF Now
  <2>4. Leads(call)'
    BY <1>3, <1>4, <2>2, <2>3 DEF Leads, Impl
  <2> QED
    BY <2>1, <2>4, OneIsOrderly
<1> QED
  BY <1>5, <1>6

\* From tuning to building.
LEMMA InstallsAtom ==
    ASSUME FaultInv, AtomInv, Remembers, NEW t \in Threads, Installs(t)
    PROVE  AtomInv'
<1>1. FaultTypeOK /\ inside[t] \in Calls /\ inside[t].op = "tune" /\ inside[t] # NULL
  BY DEF FaultInv, FaultTypeOK, Installs, At
<1>2. PICK call \in Calls :
          call = [Call("build") EXCEPT !.found = inside[t].found, !.crossed = inside[t].crossed]
  BY <1>1, CallFacts DEF Calls
<1>3. call.op = "build" /\ call.found = inside[t].found
  BY <1>2, CallFacts DEF Calls
<1>4. /\ expectedRecall' = IF config.planned THEN "predicted" ELSE expectedRecall
      /\ Replaces(t, call)
      /\ UNCHANGED <<config, arena, nStatic, radiusHint>>
  BY <1>2 DEF Installs
<1>5. CASE call.found # "none"
  BY <1>1, <1>3, <1>4, <1>5, Disorderly
<1>6. CASE call.found = "none"
  <2>1. t \in Orderly
    BY <1>1, <1>3, <1>6 DEF Orderly, At
  <2>2. Orderly' = {t} /\ before' = before /\ inside'[t] = call
    BY <1>3, <1>4, <1>6, <2>1, OrderlyGoesOn
  <2>3. Called /\ expectedRecall = before.expectedRecall
    BY <1>1, <2>1 DEF AtomInv, Leads
  <2>4. Called'
    BY <1>4, <2>2, <2>3 DEF Called, FitThreshold, nPoints, Drifted
  <2>5. Leads(call)'
    BY <1>3, <1>4, <2>2, <2>3, <2>4 DEF Leads
  <2> QED
    BY <2>2, <2>5, OneIsOrderly
<1> QED
  BY <1>5, <1>6

\* From promoting to tuning, or to its end.
LEMMA FreezesAtom ==
    ASSUME FaultInv, AtomInv, Remembers, NEW t \in Threads, Freezes(t)
    PROVE  AtomInv'
<1>1. PICK call \in Calls : call = inside[t]
  BY DEF FaultInv, FaultTypeOK, Freezes, At
<1>2. /\ FaultTypeOK /\ FacadeTypeOK /\ inside[t] # NULL /\ call.op = "promote" /\ Claims(call)
      /\ call.found \in {"none", "untuned", "stale", "lost"} /\ call.batch \in Batches
  BY <1>1 DEF FaultInv, FaultTypeOK, Freezes, At, Calls
<1> DEFINE A == arena \o call.batch
<1>3. /\ Len(A) <= MaxPoints /\ arena' = A /\ nStatic' = nPoints
      /\ UNCHANGED <<config, radiusHint, expectedRecall>>
  BY <1>1 DEF Freezes
<1>4. Len(A) \in Nat
  BY <1>2, <1>3, Extended, BatchFacts, MaxPointsAssumption DEF FacadeTypeOK
<1>5. /\ Froze(call) \in {"none", "untuned", "stale", "lost"}
      /\ Froze(call) = "none" <=> call.found = "none"
  BY <1>2 DEF Froze
<1>6. CASE ~RebuildsAt(Len(A), call.wasLsh)
  <2>1. Crosses(t, NULL)
    BY <1>1, <1>6 DEF Freezes
  <2> QED
    BY <1>2, <2>1, Disorderly
<1>7. CASE RebuildsAt(Len(A), call.wasLsh)
  <2>1. PICK next \in Calls : next = Tuning(Len(A), Froze(call))
    BY <1>4, <1>5, TuningFacts
  <2>2. next.op = "tune" /\ next.found = Froze(call)
    BY <1>4, <1>5, <2>1, TuningFacts
  <2>3. Crosses(t, next)
    BY <1>1, <1>7, <2>1 DEF Freezes
  <2>4. CASE call.found # "none"
    BY <1>2, <1>5, <2>2, <2>3, <2>4, Disorderly
  <2>5. CASE call.found = "none"
    <3>1. t \in Orderly
      BY <1>1, <1>2, <2>5 DEF Orderly, At
    <3>2. Orderly' = {t} /\ before' = before /\ inside'[t] = next
      BY <1>5, <2>2, <2>3, <2>5, <3>1, OrderlyGoesOn
    <3>3. /\ before.arena # <<>>
          /\ Now = [before EXCEPT !.impl = Impl(before.impl.kind,
                                                before.impl.pts \o call.batch,
                                                Len(before.impl.pts))]
      BY <1>1, <1>2, <3>1 DEF AtomInv, Leads
    <3>4. /\ before.arena = arena /\ before.radiusHint = radiusHint
          /\ before.useLsh = useLsh /\ before.tunedN = tunedN
          /\ before.expectedRecall = expectedRecall
      BY <3>3 DEF Now
    <3>5. call.wasLsh = useLsh
      BY <1>2, <2>5 DEF Claims, PromoteClaims
    <3>6. Called'
      <4>1. IF before.useLsh
            THEN config.canRetune /\ before.tunedN > 0 /\ 2 * Len(A) >= 3 * before.tunedN
            ELSE Len(A) > FitThreshold(radiusHint)
        BY <1>7, <3>4, <3>5 DEF RebuildsAt, Outgrown
      <4> QED
        BY <1>2, <1>3, <3>2, <3>3, <3>4, <4>1 DEF Called, FitThreshold, nPoints
    <3>7. Leads(next)'
      BY <1>3, <2>2, <3>2, <3>4, <3>6 DEF Leads
    <3> QED
      BY <3>2, <3>7, OneIsOrderly
  <2> QED
    BY <2>4, <2>5
<1> QED
  BY <1>6, <1>7

\* A step that does not change the facade.
LEMMA GoesAtom ==
    ASSUME FaultInv, AtomInv, Remembers, NEW t \in Threads,
           FailTune(t) \/ QueryEnters(t) \/ Leaves(t)
    PROVE  AtomInv'
<1>1. PICK call \in Calls \cup {NULL} :
          /\ Goes(t, call)
          /\ call = NULL \/ (inside[t] = NULL /\ call.op = "query")
  BY CallFacts DEF FailTune, QueryEnters, Leaves
<1>2. UNCHANGED <<vars, fault>>
  BY DEF FailTune, QueryEnters, Leaves
<1>3. \A s \in Threads : inside'[s] = IF s = t THEN call ELSE inside[s]
  BY <1>1 DEF Goes, FaultInv, FaultTypeOK
<1>4. Orderly' = Orderly \ {t}
  <2>1. \A s \in Threads : s \in Orderly' <=> s \in Orderly \ {t}
    BY <1>1, <1>3 DEF Orderly, At
  <2> QED
    BY <2>1 DEF Orderly
<1>5. CASE Orderly' = {}
  BY <1>5, NoneIsOrderly
<1>6. CASE Orderly' # {}
  <2>1. PICK s \in Orderly : s # t /\ Orderly = {s} /\ Orderly' = {s}
    BY <1>4, <1>6 DEF AtomInv
  <2>2. s \in Threads /\ inside'[s] = inside[s]
    BY <1>3, <2>1 DEF Orderly
  <2>3. before' = before
    BY <2>1 DEF Remembers
  <2>4. PICK c : c = inside[s]
    OBVIOUS
  <2>5. Leads(c)
    BY <2>1, <2>4 DEF AtomInv
  <2>6. Called => Called'
    BY <1>2, <2>3 DEF Called, FitThreshold, nPoints, Drifted, vars, index
  <2>7. Leads(c)'
    BY <1>2, <2>3, <2>5, <2>6 DEF Leads, Now, Impl, vars, index
  <2> QED
    BY <2>1, <2>2, <2>4, <2>7, OneIsOrderly
<1> QED
  BY <1>5, <1>6

-----------------------------------------------------------------------------
\* A rebuild that is done, seen from the facade its call found.
LEMMA RebuildIsAtomic ==
    ASSUME FacadeTypeOK, Called, NEW limit \in DriftLimits, config' = config,
           before'.arena = arena, before'.nStatic = nStatic, before'.radiusHint = radiusHint,
           before'.useLsh = TRUE, before'.impl = Impl("lsh", arena, nStatic),
           before'.candRef = Snapshot(arena, nStatic), before'.driftLimit = limit,
           before'.tunedN = nPoints,
           before'.expectedRecall = IF config.planned THEN "predicted"
                                                      ELSE before.expectedRecall
    PROVE  Atomic!Next
<1>1. Atomic!BuildLsh(arena, nStatic)
  BY SameBuild DEF Atomic!BuildLsh, nPoints
<1>2. /\ nStatic \in 0..Len(arena) /\ radiusHint \in Radii \cup {NULL}
      /\ Len(arena) <= MaxPoints
  BY BatchFacts, MaxPointsAssumption DEF FacadeTypeOK
<1>3. CASE /\ arena \in FitInputs
           /\ nStatic \in 0..MaxPoints
           /\ nPoints > FitThreshold(radiusHint)
  <2>1. Atomic!Fit(arena, nStatic, radiusHint)
    BY <1>1, <1>2, <1>3, SameBuild DEF Atomic!Fit, nPoints
  <2> QED
    BY <1>2, <1>3, <2>1 DEF Atomic!Next
<1>4. ASSUME NEW new \in Batches,
             /\ before.arena # <<>>
             /\ Len(new) = Len(before.arena) - before.nStatic
             /\ arena = SubSeq(before.arena, 1, before.nStatic) \o new
             /\ nStatic = before.nStatic /\ radiusHint = before.radiusHint
             /\ before.useLsh /\ config.canRetune /\ before.candRef # NULL
             /\ Drifted(new, before.candRef, before.driftLimit)
      PROVE  Atomic!Next
  <2>1. Atomic!Update(new)
    BY <1>1, <1>4, SameTest
    DEF Atomic!Update, Atomic!Fitted, Atomic!nCandidates, Atomic!nPoints
  <2> QED
    BY <2>1, SameTest DEF Atomic!Next
<1>5. ASSUME NEW C \in Batches,
             /\ before.arena # <<>>
             /\ arena = before.arena \o C
             /\ nStatic = Len(before.arena) /\ radiusHint = before.radiusHint
             /\ IF before.useLsh
                THEN config.canRetune /\ before.tunedN > 0 /\ 2 * nPoints >= 3 * before.tunedN
                ELSE nPoints > FitThreshold(radiusHint)
      PROVE  Atomic!Next
  <2>1. Atomic!Promote(C)
    BY <1>1, <1>2, <1>5, SameBuild
    DEF Atomic!Promote, Atomic!Fitted, Atomic!nPoints, Atomic!Outgrown, nPoints
  <2> QED
    BY <2>1, SameTest DEF Atomic!Next
<1>6. CASE /\ before.arena # <<>> /\ ~before.useLsh
           /\ arena = before.arena
           /\ nStatic = before.nStatic /\ radiusHint = before.radiusHint
           /\ nPoints > config.knn \/ nPoints > config.radius
  <2>1. Atomic!QueryKnn \/ Atomic!QueryRadius
    BY <1>1, <1>6
    DEF Atomic!QueryKnn, Atomic!QueryRadius, Atomic!Query, Atomic!Fitted, Atomic!nPoints, nPoints
  <2> QED
    BY <2>1 DEF Atomic!Next
<1> QED
  BY <1>3, <1>4, <1>5, <1>6 DEF Called

\* A step after which nothing is outstanding and the facade is remembered: a call that is
\* done in one step, the last step of an orderly one, or no change at all.
IsAtomic == Atomic!Next \/ UNCHANGED Atomic!vars

\* The fields of what is remembered.
LEMMA NowFacts ==
    /\ Now.arena = arena /\ Now.nStatic = nStatic /\ Now.radiusHint = radiusHint
    /\ Now.useLsh = useLsh /\ Now.impl = impl /\ Now.candRef = candRef
    /\ Now.driftLimit = driftLimit /\ Now.tunedN = tunedN
    /\ Now.expectedRecall = expectedRecall
BY DEF Now

\* The last step of an orderly rebuild.
LEMMA SnapshotsIsAtomic ==
    ASSUME FaultInv, AtomInv, Remembers, NEW t \in Orderly, Snapshots(t)
    PROVE  Atomic!Next
<1>1. /\ FaultTypeOK /\ FacadeTypeOK /\ t \in Threads
      /\ inside[t].op = "build" /\ BuildClaims(inside[t])
  BY OrderlyFacts DEF FaultInv, FaultTypeOK, Snapshots, At, Claims
<1>2. /\ Called
      /\ expectedRecall = IF config.planned THEN "predicted" ELSE before.expectedRecall
  BY <1>1 DEF AtomInv, Leads
<1>3. /\ candRef' = Snapshot(arena, nStatic) /\ Crosses(t, NULL)
      /\ UNCHANGED <<config, arena, nStatic, radiusHint, useLsh, impl, driftLimit, tunedN,
                     expectedRecall>>
  BY DEF Snapshots
<1>4. before' = Now'
  BY <1>1, <1>3, Disorderly
<1>5. /\ before'.arena = arena /\ before'.nStatic = nStatic /\ before'.radiusHint = radiusHint
      /\ before'.useLsh = useLsh /\ before'.impl = impl
      /\ before'.candRef = Snapshot(arena, nStatic) /\ before'.driftLimit = driftLimit
      /\ before'.tunedN = tunedN /\ before'.expectedRecall = expectedRecall
  BY <1>3, <1>4 DEF Now
<1>6. PICK limit \in DriftLimits : driftLimit = limit
  BY <1>1 DEF BuildClaims
<1>7. useLsh = TRUE
  BY <1>1 DEF BuildClaims, FacadeTypeOK
<1> QED
  BY <1>1, <1>2, <1>3, <1>5, <1>6, <1>7, RebuildIsAtomic DEF BuildClaims

\* The last step of an orderly promote that does not rebuild.
LEMMA FreezesIsAtomic ==
    ASSUME FaultInv, AtomInv, Remembers, NEW t \in Orderly, Freezes(t), inside'[t] = NULL
    PROVE  Atomic!Next
<1>1. PICK call \in Calls : call = inside[t]
  BY OrderlyFacts
<1>2. /\ FaultTypeOK /\ FacadeTypeOK /\ t \in Threads
      /\ call.op = "promote" /\ call.found = "none" /\ PromoteClaims(call)
      /\ call.batch \in Batches
  BY <1>1, OrderlyFacts DEF FaultInv, FaultTypeOK, Freezes, At, Claims, Calls
<1> DEFINE A == arena \o call.batch
<1>3. /\ Len(A) <= MaxPoints /\ arena' = A /\ nStatic' = nPoints
      /\ UNCHANGED <<config, radiusHint, impl, driftLimit, tunedN, expectedRecall>>
  BY <1>1 DEF Freezes
<1>4. Len(A) \in Nat
  BY <1>2, <1>3, Extended, BatchFacts, MaxPointsAssumption DEF FacadeTypeOK
<1>5. /\ ~RebuildsAt(Len(A), call.wasLsh)
      /\ candRef' = IF call.wasLsh THEN Snapshot(A, nPoints) ELSE candRef
      /\ Crosses(t, NULL) /\ useLsh' = useLsh
  <2>1. ASSUME Crosses(t, Tuning(Len(A), Froze(call))) PROVE FALSE
    <3>1. Froze(call) = "none"
      BY <1>2 DEF Froze
    <3>2. PICK next \in Calls : next = Tuning(Len(A), Froze(call))
      BY <1>4, <3>1, TuningFacts
    <3>3. inside'[t] = next
      BY <1>2, <2>1, <3>2, OthersCrossed
    <3> QED
      BY <3>3, NullIsNoCall
  <2> QED
    BY <1>1, <2>1 DEF Freezes
<1>6. before' = Now'
  BY <1>2, <1>5, Disorderly
<1>7. /\ before.arena # <<>>
      /\ Now = [before EXCEPT !.impl = Impl(before.impl.kind, before.impl.pts \o call.batch,
                                            Len(before.impl.pts))]
  BY <1>1, <1>2 DEF AtomInv, Leads
<1>8. /\ before.arena = arena /\ before.nStatic = nStatic /\ before.radiusHint = radiusHint
      /\ before.useLsh = useLsh /\ before.candRef = candRef
      /\ before.driftLimit = driftLimit /\ before.tunedN = tunedN
      /\ before.expectedRecall = expectedRecall
  BY <1>7 DEF Now
<1>9. impl = Impl(before.impl.kind, before.impl.pts \o call.batch, Len(before.impl.pts))
  <2>1. "impl" \in DOMAIN before
    <3>1. DOMAIN Now = DOMAIN before
      BY <1>7
    <3> QED
      BY <3>1 DEF Now
  <2> QED
    BY <1>7, <2>1, NowFacts
<1>10. /\ before'.arena = A /\ before'.nStatic = nPoints /\ before'.radiusHint = radiusHint
       /\ before'.useLsh = useLsh /\ before'.impl = impl
       /\ before'.candRef = IF useLsh THEN Snapshot(A, nPoints) ELSE candRef
       /\ before'.driftLimit = driftLimit /\ before'.tunedN = tunedN
       /\ before'.expectedRecall = expectedRecall
  <2>1. call.wasLsh = useLsh
    BY <1>2 DEF PromoteClaims
  <2> QED
    BY <1>3, <1>5, <1>6, <2>1 DEF Now
<1>11. ~IF useLsh THEN config.canRetune /\ tunedN > 0 /\ 2 * Len(A) >= 3 * tunedN
                  ELSE Len(A) > FitThreshold(radiusHint)
  BY <1>2, <1>5 DEF PromoteClaims, RebuildsAt, Outgrown
<1>12. Atomic!Promote(call.batch)
  BY <1>3, <1>7, <1>8, <1>9, <1>10, <1>11, SameBuild
  DEF Atomic!Promote, Atomic!Fitted, Atomic!nPoints, Atomic!Outgrown, nPoints
<1> QED
  BY <1>2, <1>12, SameTest DEF Atomic!Next

\* A fit that stays exact.
LEMMA FitIsAtomic ==
    ASSUME FaultInv, AtomInv, Remembers, fault = "none", NEW t \in Threads,
           NEW P \in FitInputs, NEW ns \in 0..MaxPoints, NEW hint \in Radii \cup {NULL},
           FitExact(t, P, ns, hint)
    PROVE  Atomic!Next
<1>1. /\ Fit(P, ns, hint) /\ Replaces(t, NULL) /\ FaultTypeOK
      /\ Len(P) <= FitThreshold(hint)
  BY DEF FitExact, FaultInv
<1>2. before = Now /\ before' = Now'
  BY <1>1, InOrder, Disorderly
<1>3. /\ before.arena = arena /\ before.driftLimit = driftLimit /\ before.tunedN = tunedN
      /\ before.expectedRecall = expectedRecall
      /\ before'.arena = arena' /\ before'.nStatic = nStatic'
      /\ before'.radiusHint = radiusHint' /\ before'.useLsh = useLsh' /\ before'.impl = impl'
      /\ before'.candRef = candRef' /\ before'.driftLimit = driftLimit'
      /\ before'.tunedN = tunedN' /\ before'.expectedRecall = expectedRecall'
  BY <1>2 DEF Now
<1>4. Atomic!Fit(P, ns, hint)
  BY <1>1, <1>3, SameBuild
  DEF Fit, BuildLsh, BuildBrute, Atomic!Fit, Atomic!BuildLsh, Atomic!BuildBrute
<1> QED
  BY <1>4 DEF Atomic!Next

\* An update through the index, whatever goes on until its caller has the lock back.
LEMMA RefreshIsAtomic ==
    ASSUME FaultInv, AtomInv, Remembers, fault = "none", NEW t \in Threads,
           NEW new \in Batches, UpdateRefreshes(t, new)
    PROVE  Atomic!Next
<1>1. FaultTypeOK /\ FacadeTypeOK /\ Tuned /\ AnchorsAgree
  BY DEF FaultInv, FaultTypeOK
<1>2. /\ Writes(t, new) /\ ~Raises(new) /\ ~Drifts(new)
      /\ impl' = [impl EXCEPT !.pts = SubSeq(@, 1, impl.nStatic)
                                      \o Stretched(new, Len(impl.pts) - impl.nStatic)]
      /\ Crosses(t, Call("update"))
      /\ UNCHANGED <<useLsh, candRef, driftLimit, tunedN, expectedRecall>>
  BY DEF UpdateRefreshes
<1>3. Stretched(new, Len(impl.pts) - impl.nStatic) = new
  BY <1>1, <1>2, StretchedOver DEF AnchorsAgree, Writes, nCandidates
<1>4. ~(useLsh /\ config.canRetune /\ candRef # NULL /\ Drifted(new, candRef, driftLimit))
  BY <1>1, <1>2, SameDrift DEF Writes
<1>5. PICK call \in Calls : call = Call("update") /\ call.op = "update"
  BY CallFacts
<1>6. before = Now /\ before' = Now'
  BY <1>1, <1>2, <1>5, InOrder, Disorderly
<1>7. /\ before.arena = arena /\ before.nStatic = nStatic /\ before.radiusHint = radiusHint
      /\ before.useLsh = useLsh /\ before.impl = impl /\ before.candRef = candRef
      /\ before.driftLimit = driftLimit /\ before.tunedN = tunedN
      /\ before.expectedRecall = expectedRecall
  BY <1>6 DEF Now
<1>8. /\ before'.arena = SubSeq(arena, 1, nStatic) \o new
      /\ before'.nStatic = nStatic /\ before'.radiusHint = radiusHint
      /\ before'.useLsh = useLsh /\ before'.candRef = candRef
      /\ before'.impl = [impl EXCEPT !.pts = SubSeq(@, 1, impl.nStatic) \o new]
      /\ before'.driftLimit = driftLimit /\ before'.tunedN = tunedN
      /\ before'.expectedRecall = expectedRecall
  BY <1>2, <1>3, <1>6 DEF Now, Writes
<1>9. Atomic!Update(new)
  BY <1>2, <1>4, <1>7, <1>8, SameTest
  DEF Atomic!Update, Atomic!Fitted, Atomic!nCandidates, Atomic!nPoints, Writes, Fitted,
      nCandidates, nPoints
<1> QED
  BY <1>9, SameTest DEF Atomic!Next

\* A step that leaves the facade as it was.
LEMMA NothingIsAtomic ==
    ASSUME FaultInv, AtomInv, Remembers, fault = "none", AtomInv', Orderly' = {},
           UNCHANGED vars
    PROVE  UNCHANGED Atomic!vars
<1>1. before = Now /\ before' = Now'
  BY InOrder, NoneIsOrderly
<1>2. Now' = Now
  BY DEF Now, vars, index
<1> QED
  BY <1>1, <1>2 DEF Atomic!vars, Atomic!index, vars

-----------------------------------------------------------------------------
\* Every step remembers what it should.
LEMMA AtomKeeps ==
    ASSUME FaultInv, AtomInv, [FaultyNext]_allVars
    PROVE  AtomInv'
<1>1. FaultTypeOK
  BY DEF FaultInv
<1>2. ASSUME NEW t \in Threads, Remembers, Crosses(t, NULL) \/ Replaces(t, NULL)
      PROVE  AtomInv'
  BY <1>1, <1>2, Disorderly
<1>3. ASSUME NEW t \in Threads, NEW P \in FitInputs, NEW ns \in 0..MaxPoints,
             NEW hint \in Radii \cup {NULL}, Remembers,
             RejectFit(t, P, ns) \/ FitExact(t, P, ns, hint) \/ FitTunes(t, P, ns, hint)
      PROVE  AtomInv'
  BY <1>2, <1>3, BeginsAtom DEF RejectFit, FitExact
<1>4. ASSUME NEW t \in Threads, NEW new \in Batches, Remembers,
             \/ UpdateTunes(t, new) \/ UpdateRefreshes(t, new)
             \/ RefuseUpdate(t, new) \/ Promotes(t, new)
      PROVE  AtomInv'
  <2>1. CASE UpdateRefreshes(t, new)
    <3>1. PICK call \in Calls : call = Call("update") /\ call.op = "update"
      BY CallFacts
    <3> QED
      BY <1>1, <1>4, <2>1, <3>1, Disorderly DEF UpdateRefreshes
  <2> QED
    BY <1>2, <1>4, <2>1, BeginsAtom, PromotesAtom DEF RefuseUpdate
<1>5. ASSUME NEW t \in Threads, NEW threshold \in {config.knn, config.radius}, Remembers,
             QueryTunes(t, threshold)
      PROVE  AtomInv'
  BY <1>5, BeginsAtom
<1>6. ASSUME NEW t \in Threads, Remembers,
             \/ Installs(t) \/ Snapshots(t) \/ FailTune(t) \/ FailMake(t) \/ FailBuild(t)
             \/ Freezes(t) \/ QueryEnters(t) \/ Leaves(t)
      PROVE  AtomInv'
  BY <1>2, <1>6, InstallsAtom, FreezesAtom, GoesAtom DEF Snapshots, FailMake, FailBuild
<1>7. CASE UNCHANGED allVars
  <2>1. UNCHANGED <<vars, inside, before>>
    BY <1>7 DEF allVars
  <2>2. Orderly' = Orderly
    BY <2>1 DEF Orderly, At
  <2>3. Now' = Now
    BY <2>1 DEF Now, vars, index
  <2>4. Called => Called'
    BY <2>1 DEF Called, FitThreshold, nPoints, Drifted, vars, index
  <2>5. \A t \in Orderly : Leads(inside[t]) => Leads(inside[t])'
    BY <2>1, <2>3, <2>4 DEF Leads, Impl, vars, index
  <2> QED
    BY <2>1, <2>2, <2>3, <2>5 DEF AtomInv
<1> QED
  BY <1>3, <1>4, <1>5, <1>6, <1>7 DEF FaultyNext, RejectedFit, Step

\* The calls that are done in one step, on a facade in order.
LEMMA WholeIsAtomic ==
    ASSUME FaultInv, AtomInv, FaultyNext, fault = "none", fault' = "none"
    PROVE  IsAtomic
<1>1. FaultTypeOK /\ Remembers /\ AtomInv' /\ Orderly = {}
  BY AtomKeeps, InOrder DEF FaultInv, FaultyNext
<1>2. ASSUME NEW t \in Threads, NEW P \in FitInputs, NEW ns \in 0..MaxPoints,
             NEW hint \in Radii \cup {NULL},
             RejectFit(t, P, ns) \/ FitExact(t, P, ns, hint) \/ FitTunes(t, P, ns, hint)
      PROVE  Atomic!Next
  BY <1>1, <1>2, FitIsAtomic DEF RejectFit, FitTunes
<1>3. ASSUME NEW t \in Threads, NEW new \in Batches,
             \/ UpdateTunes(t, new) \/ UpdateRefreshes(t, new)
             \/ RefuseUpdate(t, new) \/ Promotes(t, new)
      PROVE  Atomic!Next
  <2>1. Worse(fault, "stale") # "none"
    BY WorseFacts
  <2> QED
    BY <1>1, <1>3, <2>1, RefreshIsAtomic DEF UpdateTunes, RefuseUpdate, Promotes
<1>4. ASSUME NEW t \in Threads, NEW threshold, QueryTunes(t, threshold)
      PROVE  FALSE
  BY <1>4, WorseFacts DEF QueryTunes
<1>5. ASSUME NEW t \in Threads, Installs(t) \/ Snapshots(t) \/ FailMake(t) \/ Freezes(t)
      PROVE  FALSE
  <2>1. Worse(fault, "untuned") # "none"
    BY WorseFacts
  <2>2. inside[t] \in Calls /\ Claims(inside[t])
    BY <1>5 DEF FaultInv, FaultTypeOK, Installs, Snapshots, FailMake, Freezes, At
  <2>3. inside[t].found # "none" \/ inside[t].op \notin {"promote", "tune", "build"}
    BY <1>1, <2>2, NullIsNoCall DEF Orderly, At
  <2>4. CASE Snapshots(t)
    <3>1. inside[t].crossed
      BY <2>2, <2>4 DEF Snapshots, At, Claims
    <3> QED
      BY <2>1, <2>4, <3>1 DEF Snapshots
  <2>5. CASE Freezes(t)
    <3>1. inside[t].found \in {"untuned", "stale", "lost"}
      BY <2>2, <2>3, <2>5 DEF Freezes, At, Calls
    <3>2. Froze(inside[t]) \in {"untuned", "stale", "lost"}
      BY <3>1 DEF Froze
    <3>3. Worse(Froze(inside[t]), "untuned") # "none"
      BY <3>2, WorseFacts
    <3> QED
      BY <2>5, <3>2, <3>3 DEF Freezes
  <2> QED
    BY <1>5, <2>1, <2>4, <2>5 DEF Installs, FailMake
<1>6. ASSUME NEW t \in Threads, FailBuild(t)
      PROVE  UNCHANGED Atomic!vars
  <2>1. Crosses(t, NULL) /\ UNCHANGED vars
    BY <1>6 DEF FailBuild, vars, index
  <2>2. Orderly' = {}
    BY <1>1, <2>1, Disorderly
  <2> QED
    BY <1>1, <2>1, <2>2, NothingIsAtomic
<1>7. ASSUME NEW t \in Threads, FailTune(t) \/ QueryEnters(t) \/ Leaves(t)
      PROVE  UNCHANGED Atomic!vars
  <2>1. UNCHANGED vars
    BY <1>7 DEF FailTune, QueryEnters, Leaves
  <2>2. PICK call \in Calls \cup {NULL} :
            Goes(t, call) /\ (call = NULL \/ call.op = "query")
    BY <1>7, CallFacts DEF FailTune, QueryEnters, Leaves
  <2>3. \A s \in Threads : inside'[s] = IF s = t THEN call ELSE inside[s]
    BY <1>1, <2>2 DEF Goes, FaultTypeOK
  <2>4. Orderly' = {}
    BY <1>1, <2>2, <2>3 DEF Orderly, At
  <2> QED
    BY <1>1, <2>1, <2>4, NothingIsAtomic
<1>8. NULL \in Radii \cup {NULL}
  OBVIOUS
<1> QED
  BY <1>2, <1>3, <1>4, <1>5, <1>6, <1>7, <1>8 DEF IsAtomic, FaultyNext, RejectedFit, Step

\* The call of an orderly thread that ends with nothing outstanding.
LEMMA EndIsAtomic ==
    ASSUME FaultInv, AtomInv, FaultyNext, fault' = "none",
           NEW t \in Orderly, inside'[t] = NULL
    PROVE  IsAtomic
<1>1. /\ FaultTypeOK /\ Remembers /\ fault # "none"
      /\ t \in Threads /\ inside[t] # NULL /\ inside[t] \in Calls
      /\ inside[t].op \in {"promote", "tune", "build"} /\ inside[t].found = "none"
  BY OrderlyFacts DEF FaultInv, FaultyNext
<1>2. fault \in {"untuned", "stale", "lost"}
  BY <1>1 DEF FaultTypeOK, FacadeTypeOK
<1>3. ASSUME NEW s \in Threads, NEW call \in Calls \cup {NULL},
             Crosses(s, call) \/ Replaces(s, call) \/ Goes(s, call)
      PROVE  s = t
  BY <1>1, <1>3, OthersCrossed DEF Goes, FaultTypeOK
<1>4. \A s \in Threads : Crosses(s, NULL) \/ Replaces(s, NULL) \/ Goes(s, NULL) => s = t
  BY <1>3
<1>5. ASSUME NEW s \in Threads, NEW P, NEW ns, NEW hint,
             RejectFit(s, P, ns) \/ FitExact(s, P, ns, hint) \/ FitTunes(s, P, ns, hint)
      PROVE  FALSE
  BY <1>1, <1>4, <1>5 DEF RejectFit, FitExact, FitTunes
<1>6. ASSUME NEW s \in Threads, NEW new,
             \/ UpdateTunes(s, new) \/ UpdateRefreshes(s, new)
             \/ RefuseUpdate(s, new) \/ Promotes(s, new)
      PROVE  FALSE
  <2>1. Worse(fault, "stale") # "none" /\ Repaired # "none"
    BY <1>2, WorseFacts DEF Repaired
  <2> QED
    BY <1>6, <2>1 DEF UpdateTunes, UpdateRefreshes, RefuseUpdate, Promotes
<1>7. ASSUME NEW s \in Threads, NEW threshold, QueryTunes(s, threshold)
      PROVE  FALSE
  BY <1>2, <1>7, WorseFacts DEF QueryTunes
<1>8. ASSUME NEW s \in Threads, Installs(s) \/ FailTune(s) \/ FailMake(s) \/ FailBuild(s)
      PROVE  FALSE
  <2>1. Worse(fault, "untuned") # "none"
    BY <1>2, WorseFacts
  <2> QED
    BY <1>1, <1>8, <2>1 DEF Installs, FailTune, FailMake, FailBuild
<1>9. ASSUME NEW s \in Threads, QueryEnters(s) \/ Leaves(s)
      PROVE  FALSE
  BY <1>1, <1>9 DEF QueryEnters, Leaves
<1>10. ASSUME NEW s \in Threads, Snapshots(s)
       PROVE  Atomic!Next
  <2>1. s = t
    BY <1>4, <1>10 DEF Snapshots
  <2> QED
    BY <1>1, <1>10, <2>1, SnapshotsIsAtomic
<1>11. ASSUME NEW s \in Threads, Freezes(s)
       PROVE  Atomic!Next
  <2>1. /\ FacadeTypeOK /\ inside[s] \in Calls /\ inside[s].batch \in Batches
        /\ inside[s].found \in {"none", "untuned", "stale", "lost"}
    BY <1>1, <1>11 DEF FaultTypeOK, Freezes, At, Calls
  <2>2. Len(arena \o inside[s].batch) \in Nat
    BY <1>11, <2>1, Extended, BatchFacts, MaxPointsAssumption DEF Freezes, FacadeTypeOK
  <2>3. Froze(inside[s]) \in {"none", "untuned", "stale", "lost"}
    BY <2>1 DEF Froze
  <2>4. PICK next \in Calls : next = Tuning(Len(arena \o inside[s].batch), Froze(inside[s]))
    BY <2>2, <2>3, TuningFacts
  <2>5. s = t
    BY <1>3, <1>4, <1>11, <2>4 DEF Freezes
  <2> QED
    BY <1>1, <1>11, <2>5, FreezesIsAtomic
<1>12. NULL \in Radii \cup {NULL}
  OBVIOUS
<1> QED
  BY <1>5, <1>6, <1>7, <1>8, <1>9, <1>10, <1>11, <1>12
  DEF IsAtomic, FaultyNext, RejectedFit, Step

\* However many threads call, a call that nothing changed the facade under is one call of
\* one facade: cut where the compiled core releases the interpreter lock, and whoever
\* queries or is refused in between.
THEOREM WithoutFailuresAtomic == FaultySpec => CallsAreAtomic
<1> DEFINE Whole ==
              fault' = "none" /\ (fault = "none" \/ \E t \in Orderly : inside'[t] = NULL) =>
                  Atomic!Next \/ UNCHANGED Atomic!vars
<1>1. ASSUME FaultyInit PROVE Atomic!Init /\ AtomInv
  <2>1. Atomic!Init
    BY <1>1 DEF FaultyInit, Init, Now, Impl, Atomic!Init, Atomic!Impl
  <2>2. Orderly = {} /\ before = Now
    BY <1>1 DEF FaultyInit, Orderly, At
  <2> QED
    BY <2>1, <2>2 DEF AtomInv
<1>2. FaultInv /\ AtomInv /\ [FaultyNext]_allVars => AtomInv'
  BY AtomKeeps
<1>3. FaultInv /\ AtomInv /\ [FaultyNext]_allVars => [Whole]_allVars
  BY WholeIsAtomic, EndIsAtomic DEF IsAtomic
<1>4. FaultySpec => Atomic!Init /\ [][Whole]_allVars
  <2> HIDE DEF Whole
  <2> QED
    BY <1>1, <1>2, <1>3, FaultsAreContained, PTL DEF FaultySpec
<1> QED
  BY <1>4 DEF CallsAreAtomic
=============================================================================
