------------------------ MODULE TablesParity_proofs ------------------------
(***************************************************************************)
(* For any number of tables, any key space and any history of build,       *)
(* update and promote: both backends hold the same tables, every tier      *)
(* files exactly its ids under their current keys, and every lookup of the *)
(* compiled core, by offsets or by search, returns what hashes there now.  *)
(***************************************************************************)
EXTENDS TablesParity, TableOps_proofs

\* The operators of TableOps, reached through either backend, are TableOps's own.
LEMMA SameOps ==
    /\ \A rows, i : Py!SortTier(rows, i) = SortTier(rows, i) /\ Rs!SortTier(rows, i) = SortTier(rows, i)
    /\ \A tier, v : Py!LowerBound(tier, v) = LowerBound(tier, v)
                   /\ Rs!LowerBound(tier, v) = LowerBound(tier, v)
    /\ \A k, f : Py!NumpyInsert(k, f) = NumpyInsert(k, f)
    /\ \A f, k : Rs!TwoPointerMerge(f, k) = TwoPointerMerge(f, k)
    /\ \A s, places : Py!Picked(s, places) = Picked(s, places) /\ Rs!Picked(s, places) = Picked(s, places)
    /\ \A tier, lo, w : Rs!SearchedRange(tier, lo, w) = SearchedRange(tier, lo, w)
    /\ \A S : Py!Ordered(S, Py!KeyThenId) = Ordered(S, KeyThenId)
              /\ Rs!Ordered(S, Rs!KeyThenId) = Ordered(S, KeyThenId)
    /\ \A k, i : Py!Entry(k, i) = Entry(k, i) /\ Rs!Entry(k, i) = Entry(k, i)
<1>1. \A rows, i : Py!SortTier(rows, i) = SortTier(rows, i)
                   /\ Rs!SortTier(rows, i) = SortTier(rows, i)
  BY DEF SortTier, Py!SortTier, Rs!SortTier, Ordered, Py!Ordered, Rs!Ordered,
       KeyThenId, Py!KeyThenId, Rs!KeyThenId, Entry, Py!Entry, Rs!Entry,
       Cardinality, Py!Cardinality, Rs!Cardinality
<1>2. \A tier, v : Py!LowerBound(tier, v) = LowerBound(tier, v)
                   /\ Rs!LowerBound(tier, v) = LowerBound(tier, v)
  BY DEF LowerBound, Py!LowerBound, Rs!LowerBound, Min, Py!Min, Rs!Min
<1>3. \A k, f : Py!NumpyInsert(k, f) = NumpyInsert(k, f)
  BY DEF NumpyInsert, Py!NumpyInsert, LowerBound, Py!LowerBound, Min, Py!Min,
       Cardinality, Py!Cardinality
<1>4. \A f, k : Rs!TwoPointerMerge(f, k) = TwoPointerMerge(f, k)
  BY DEF TwoPointerMerge, Rs!TwoPointerMerge, TakesFresh, Rs!TakesFresh
<1>5. \A s, places : Py!Picked(s, places) = Picked(s, places)
                     /\ Rs!Picked(s, places) = Picked(s, places)
  BY DEF Picked, Py!Picked, Rs!Picked, Ordered, Py!Ordered, Rs!Ordered,
       Below, Py!Below, Rs!Below, Cardinality, Py!Cardinality, Rs!Cardinality
<1>6. \A tier, lo, w : Rs!SearchedRange(tier, lo, w) = SearchedRange(tier, lo, w)
  BY <1>2 DEF SearchedRange, Rs!SearchedRange
<1>7. \A S : Py!Ordered(S, Py!KeyThenId) = Ordered(S, KeyThenId)
             /\ Rs!Ordered(S, Rs!KeyThenId) = Ordered(S, KeyThenId)
  BY DEF Ordered, Py!Ordered, Rs!Ordered, KeyThenId, Py!KeyThenId, Rs!KeyThenId,
       Cardinality, Py!Cardinality, Rs!Cardinality
<1>8. \A k, i : Py!Entry(k, i) = Entry(k, i) /\ Rs!Entry(k, i) = Entry(k, i)
  BY DEF Entry, Py!Entry, Rs!Entry
<1> QED
  BY <1>1, <1>2, <1>3, <1>4, <1>5, <1>6, <1>7, <1>8

\* The keys of rows from + 1 to `to` of P, per table, in row order.
KeysOf(P, from, to) == [t \in Tables |-> [i \in 1..(to - from) |-> P[from + i][t]]]

\* Every table's tier files the ids from..to-1, each under its key in P.
Filed(tiers, P, from, to) ==
    /\ tiers = [t \in Tables |-> tiers[t]]
    /\ \A t \in Tables :
          /\ Tier(tiers[t], Ids(from, to))
          /\ \A i \in 1..Len(tiers[t]) : tiers[t][i].key = P[tiers[t][i].id + 1][t]

\* The reference tables, and the row-order keys the next update compares with.
PyInv ==
    /\ pyPts \in Seq(Signatures) /\ pyPoints = Len(pyPts) /\ pyStatic \in 0..pyPoints
    /\ pyIds = Py!IdRange(pyStatic, pyPoints)
    /\ pyKeys = KeysOf(pyPts, pyStatic, pyPoints)
    /\ Filed(pyStat, pyPts, 0, pyStatic)
    /\ Filed(pyCand, pyPts, pyStatic, pyPoints)

\* The compiled core has the same, and offset tables of the tiers it has now.
RsFollows ==
    /\ rsPts = pyPts /\ rsPoints = pyPoints /\ rsStatic = pyStatic
    /\ rsKeys = pyKeys /\ rsStat = pyStat /\ rsCand = pyCand
    /\ rsOffsS = Rs!BuildOffsets(rsStat, rsStatic)
    /\ rsOffsC = Rs!BuildOffsets(rsCand, rsPoints - rsStatic)

ParityInv == PyInv /\ RsFollows

-----------------------------------------------------------------------------
\* A signature's keys are integers of the key space.
LEMMA SignatureKeys ==
    ASSUME NEW P \in Seq(Signatures), NEW i \in 1..Len(P), NEW t \in Tables
    PROVE  P[i] \in Signatures /\ P[i][t] \in Keys /\ P[i][t] \in Int
<1>1. P[i] \in Signatures
  BY ElementOfSeq
<1>2. P[i][t] \in Keys
  BY <1>1 DEF Signatures
<1>3. KeySpace \in Nat
  BY ParityAssumption
<1> QED
  BY <1>1, <1>2, <1>3 DEF Keys

\* A batch is a sequence of signatures.
LEMMA BatchFacts ==
    ASSUME NEW C \in Batches(MaxPoints)
    PROVE  C \in Seq(Signatures) /\ Len(C) \in Nat
<1>1. PICK m \in 0..MaxPoints : C \in [1..m -> Signatures]
  BY DEF Batches
<1>2. m \in Nat
  BY <1>1, ParityAssumption
<1> QED
  BY <1>1, <1>2, SeqDef, LenProperties

\* The keys of an id range, computed row by row: both backends agree.
LEMMA RowKeys ==
    ASSUME NEW P, NEW from \in Nat, NEW to \in Nat
    PROVE  /\ Py!TierKeys(P, Py!IdRange(from, to)) = KeysOf(P, from, to)
           /\ Rs!ComputeKeys(P, from, to - from) = KeysOf(P, from, to)
<1> DEFINE ids == Py!IdRange(from, to)
<1>1. DOMAIN ids = 1..(to - from) /\ \A i \in 1..(to - from) : ids[i] + 1 = from + i
  BY DEF Py!IdRange
<1> HIDE DEF ids
<1>2. Py!TierKeys(P, ids) = KeysOf(P, from, to)
  BY <1>1 DEF Py!TierKeys, KeysOf
<1> QED
  BY <1>2 DEF ids, Rs!ComputeKeys, KeysOf

\* A tier sorted from zero is filed.
LEMMA SortedFiled ==
    ASSUME NEW P \in Seq(Signatures), NEW from \in Nat, NEW to \in Nat,
           from <= to, to <= Len(P)
    PROVE  Filed([t \in Tables |-> SortTier(KeysOf(P, from, to)[t], from)], P, from, to)
<1> DEFINE tiers == [t \in Tables |-> SortTier(KeysOf(P, from, to)[t], from)]
<1>1. ASSUME NEW t \in Tables
      PROVE  /\ Tier(tiers[t], Ids(from, to))
             /\ \A i \in 1..Len(tiers[t]) : tiers[t][i].key = P[tiers[t][i].id + 1][t]
  <2> DEFINE n == to - from
             rowKeys == KeysOf(P, from, to)[t]
             s == SortTier(rowKeys, from)
  <2>1. n \in Nat /\ Len(P) \in Nat
    BY LenProperties
  <2>2. rowKeys = [i \in 1..n |-> P[from + i][t]]
    BY DEF KeysOf
  <2>3. \A i \in 1..n : from + i \in 1..Len(P)
    BY <2>1
  <2>4. \A i \in 1..n : P[from + i][t] \in Int
    BY <2>3, SignatureKeys
  <2>5. tiers[t] = s
    OBVIOUS
  <2> HIDE DEF n, rowKeys, s, tiers
  <2>6. rowKeys \in [1..n -> Int]
    BY <2>2, <2>4
  <2>7. /\ Tier(s, from..(from + n - 1))
        /\ \A i \in 1..Len(s) : s[i].key = rowKeys[s[i].id - from + 1]
    BY <2>1, <2>6, SortTierFacts DEF s
  <2>8. from..(from + n - 1) = Ids(from, to)
    BY DEF Ids, n
  <2>9. \A i \in 1..Len(s) : s[i].id \in from..(from + n - 1)
    BY <2>7, TierFacts
  <2>10. ASSUME NEW i \in 1..Len(s) PROVE s[i].key = P[s[i].id + 1][t]
    <3> DEFINE r == s[i].id - from + 1
    <3>1. s[i].id \in from..(from + n - 1)
      BY <2>9
    <3>2. r \in 1..n /\ from + r = s[i].id + 1
      BY <2>1, <3>1
    <3>3. s[i].key = rowKeys[r]
      BY <2>7
    <3> QED
      BY <2>2, <3>2, <3>3
  <2> QED
    BY <2>5, <2>7, <2>8, <2>10
<1> QED
  BY <1>1 DEF Filed

\* Entries keep their keys when rows are added after them.
LEMMA FiledExtends ==
    ASSUME NEW tiers, NEW P, NEW Q, NEW from \in Nat, NEW to \in Nat,
           Filed(tiers, P, from, to),
           \A i \in 1..to : P[i] = Q[i]
    PROVE  Filed(tiers, Q, from, to)
<1>1. ASSUME NEW t \in Tables, NEW i \in 1..Len(tiers[t])
      PROVE  tiers[t][i].key = Q[tiers[t][i].id + 1][t]
  <2>1. Tier(tiers[t], Ids(from, to)) /\ tiers[t][i].key = P[tiers[t][i].id + 1][t]
    BY DEF Filed
  <2>2. tiers[t][i].id \in Ids(from, to)
    BY <2>1, TierFacts
  <2>3. tiers[t][i].id + 1 \in 1..to
    BY <2>2 DEF Ids
  <2> QED
    BY <2>1, <2>3
<1> QED
  BY <1>1 DEF Filed

-----------------------------------------------------------------------------
(***************************************************************************)
(* One table of an update: the rows whose key changed are taken out and    *)
(* merged back in under their new key.                                     *)
(***************************************************************************)
Changed(old, new, n) == {i \in 1..n : new[i] # old[i]}
Staying(tier, moved, ns) == Picked(tier, {p \in DOMAIN tier : tier[p].id - ns + 1 \notin moved})
Moving(new, moved, ns) == Ordered({Entry(new[i], ns + i - 1) : i \in moved}, KeyThenId)

\* What is left in place: the ids that did not move.
LEMMA StayingFacts ==
    ASSUME NEW ns \in Nat, NEW n \in Nat, NEW moved \in SUBSET (1..n),
           NEW tier, Tier(tier, Ids(ns, ns + n))
    PROVE  /\ Tier(Staying(tier, moved, ns), {x \in Ids(ns, ns + n) : x - ns + 1 \notin moved})
           /\ \A i \in 1..Len(Staying(tier, moved, ns)) :
                 \E p \in 1..Len(tier) : /\ Staying(tier, moved, ns)[i] = tier[p]
                                         /\ tier[p].id - ns + 1 \notin moved
<1> DEFINE places == {p \in DOMAIN tier : tier[p].id - ns + 1 \notin moved}
           A == {tier[p].id : p \in places}
           B == {x \in Ids(ns, ns + n) : x - ns + 1 \notin moved}
<1>1. /\ DOMAIN tier = 1..Len(tier)
      /\ \A i \in 1..Len(tier) : tier[i].id \in Ids(ns, ns + n)
      /\ \A x \in Ids(ns, ns + n) : \E i \in 1..Len(tier) : tier[i].id = x
  BY TierFacts
<1>2. places \in SUBSET (1..Len(tier))
  BY <1>1
<1>3. Staying(tier, moved, ns) = Picked(tier, places)
  BY DEF Staying
<1>4. /\ Tier(Picked(tier, places), A)
      /\ \A i \in 1..Len(Picked(tier, places)) :
            \E p \in places : Picked(tier, places)[i] = tier[p]
  <2> HIDE DEF places
  <2> QED
    BY <1>2, PickedTier
<1>5. A = B
  <2>1. \A x \in A : x \in B
    BY <1>1
  <2>2. \A x \in B : x \in A
    BY <1>1
  <2> QED
    BY <2>1, <2>2
<1>6. \A p \in places : p \in 1..Len(tier) /\ tier[p].id - ns + 1 \notin moved
  BY <1>1
<1> HIDE DEF places, A, B
<1>7. Tier(Picked(tier, places), B)
  BY <1>4, <1>5
<1> QED
  BY <1>3, <1>4, <1>6, <1>7 DEF B

\* What moves, sorted: one entry for every changed row, under its new key.
LEMMA MovingFacts ==
    ASSUME NEW ns \in Nat, NEW n \in Nat, NEW moved \in SUBSET (1..n),
           NEW new \in [1..n -> Int]
    PROVE  /\ Tier(Moving(new, moved, ns), {x \in Ids(ns, ns + n) : x - ns + 1 \in moved})
           /\ \A i \in 1..Len(Moving(new, moved, ns)) :
                 Moving(new, moved, ns)[i].key = new[Moving(new, moved, ns)[i].id - ns + 1]
<1> DEFINE e(i) == Entry(new[i], ns + i - 1)
           S == {e(i) : i \in moved}
           A == {x.id : x \in S}
           B == {x \in Ids(ns, ns + n) : x - ns + 1 \in moved}
           s == Moving(new, moved, ns)
<1>1. \A i \in moved : /\ e(i) \in EntryType /\ e(i).id = ns + i - 1 /\ e(i).key = new[i]
                       /\ e(i).id - ns + 1 = i /\ e(i).id \in Ids(ns, ns + n)
  BY DEF Entry, EntryType, Ids
<1>2. s = Ordered(S, KeyThenId)
  BY DEF Moving
<1> HIDE DEF e, s
<1>3. IsFiniteSet(S)
  <2> DEFINE f == [i \in moved |-> e(i)]
  <2>1. f \in [moved -> S] /\ \A x \in S : \E i \in moved : f[i] = x
    OBVIOUS
  <2>2. IsFiniteSet(moved)
    <3>1. IsFiniteSet(1..n)
      BY FS_Interval
    <3> QED
      BY <3>1, FS_Subset
  <2> HIDE DEF f, S
  <2>3. f \in Surjection(moved, S)
    BY <2>1, Fun_IsSurj
  <2> QED
    BY <2>2, <2>3, FS_Surjection
<1>4. S \in SUBSET EntryType
  BY <1>1
<1>5. \A x, y \in S : x.id = y.id => x = y
  <2> SUFFICES ASSUME NEW i \in moved, NEW j \in moved, e(i).id = e(j).id PROVE e(i) = e(j)
    OBVIOUS
  <2>1. i = j
    BY <1>1
  <2> QED
    BY <2>1
<1>6. A = B
  <2>1. \A x \in A : x \in B
    BY <1>1
  <2>2. ASSUME NEW x \in B PROVE x \in A
    <3> DEFINE i == x - ns + 1
    <3>1. i \in moved /\ ns + i - 1 = x
      BY DEF Ids
    <3> HIDE DEF i
    <3>2. e(i).id = x
      BY <1>1, <3>1
    <3> QED
      BY <3>1, <3>2
  <2> QED
    BY <2>1, <2>2
<1>7. \A x \in S : x.key = new[x.id - ns + 1]
  BY <1>1
<1> HIDE DEF S, A, B
<1>8. Tier(Ordered(S, KeyThenId), A) /\ \A i \in 1..Len(Ordered(S, KeyThenId)) :
                                           Ordered(S, KeyThenId)[i] \in S
  BY <1>3, <1>4, <1>5, SortedTier DEF A
<1>9. Tier(s, B) /\ \A i \in 1..Len(s) : s[i] \in S
  BY <1>2, <1>6, <1>8
<1> QED
  BY <1>7, <1>9 DEF B, s

\* Every entry has the key of its row, rows counted from ns.
KeyedBy(tier, keys, ns) == \A i \in 1..Len(tier) : tier[i].key = keys[tier[i].id - ns + 1]

\* The tier after the update, by either merge.
Refiled(tier, old, new, ns, n) ==
    IF Changed(old, new, n) = {} THEN tier
    ELSE NumpyInsert(Staying(tier, Changed(old, new, n), ns), Moving(new, Changed(old, new, n), ns))
RefiledByLoop(tier, old, new, ns, n) ==
    IF Changed(old, new, n) = {} THEN tier
    ELSE TwoPointerMerge(Moving(new, Changed(old, new, n), ns), Staying(tier, Changed(old, new, n), ns))

\* A tier that files n ids from ns on under the keys `old`, and an update to `new`.
CanRefile(tier, old, new, ns, n) ==
    /\ ns \in Nat /\ n \in Nat
    /\ old \in [1..n -> Int] /\ new \in [1..n -> Int]
    /\ Tier(tier, Ids(ns, ns + n)) /\ KeyedBy(tier, old, ns)

\* It files the same ids under the new keys, whichever program merged.
LEMMA UpdatedTier ==
    ASSUME NEW ns, NEW n, NEW old, NEW new, NEW tier, NEW in,
           CanRefile(tier, old, new, ns, n), in = Refiled(tier, old, new, ns, n)
    PROVE  /\ Tier(in, Ids(ns, ns + n))
           /\ KeyedBy(in, new, ns)
           /\ in = RefiledByLoop(tier, old, new, ns, n)
<1> ns \in Nat /\ n \in Nat /\ old \in [1..n -> Int] /\ new \in [1..n -> Int]
  BY DEF CanRefile
<1> Tier(tier, Ids(ns, ns + n)) /\ KeyedBy(tier, old, ns)
  BY DEF CanRefile
<1> DEFINE moved == Changed(old, new, n)
           kept == Staying(tier, moved, ns)
           fresh == Moving(new, moved, ns)
           Old == {x \in Ids(ns, ns + n) : x - ns + 1 \notin moved}
           New == {x \in Ids(ns, ns + n) : x - ns + 1 \in moved}
<1>1. moved \in SUBSET (1..n)
  BY DEF Changed
<1>2. \A x \in Ids(ns, ns + n) : x - ns + 1 \in 1..n
  BY DEF Ids
<1>3. \A i \in 1..n : i \notin moved => new[i] = old[i]
  BY DEF Changed
<1> HIDE DEF moved
<1>4. \A i \in 1..Len(tier) : tier[i].id \in Ids(ns, ns + n)
  BY TierFacts
<1>5. \A i \in 1..Len(tier) :
         tier[i].id - ns + 1 \notin moved => tier[i].key = new[tier[i].id - ns + 1]
  BY <1>2, <1>3, <1>4 DEF KeyedBy
<1>6. /\ Tier(kept, Old)
      /\ \A i \in 1..Len(kept) : \E p \in 1..Len(tier) : /\ kept[i] = tier[p]
                                                         /\ tier[p].id - ns + 1 \notin moved
  BY <1>1, StayingFacts
<1>7. /\ Tier(fresh, New)
      /\ \A i \in 1..Len(fresh) : fresh[i].key = new[fresh[i].id - ns + 1]
  BY <1>1, MovingFacts
<1>8. Old \cap New = {} /\ Old \cup New = Ids(ns, ns + n)
  OBVIOUS
<1> HIDE DEF kept, fresh, Old, New
<1>9. CASE moved = {}
  BY <1>5, <1>9 DEF moved, Refiled, RefiledByLoop, KeyedBy
<1>10. CASE moved # {}
  <2>1. in = NumpyInsert(kept, fresh)
    BY <1>10 DEF moved, kept, fresh, Refiled
  <2>2. /\ Tier(in, Ids(ns, ns + n))
        /\ DrawnFrom(in, kept, fresh)
    <3>1. Tier(kept, Old) /\ Tier(fresh, New) /\ Old \cap New = {}
      BY <1>6, <1>7, <1>8
    <3>2. Tier(NumpyInsert(kept, fresh), Old \cup New) /\ DrawnFrom(NumpyInsert(kept, fresh), kept, fresh)
      BY ONLY <3>1, MergedTier
    <3> QED
      BY ONLY <1>8, <2>1, <3>2
  <2>3. \A b \in 1..Len(kept) : kept[b].key = new[kept[b].id - ns + 1]
    BY <1>5, <1>6
  <2>4. \A i \in 1..Len(in) : in[i].key = new[in[i].id - ns + 1]
    <3> SUFFICES ASSUME NEW i \in 1..Len(in) PROVE in[i].key = new[in[i].id - ns + 1]
      OBVIOUS
    <3>1. \/ \E b \in 1..Len(kept) : in[i] = kept[b]
          \/ \E j \in 1..Len(fresh) : in[i] = fresh[j]
      BY ONLY <2>2, i \in 1..Len(in) DEF DrawnFrom
    <3> QED
      BY ONLY <1>7, <2>3, <3>1
  <2>5. kept \in Seq(EntryType) /\ KeySorted(kept) /\ fresh \in Seq(EntryType) /\ KeySorted(fresh)
    BY <1>6, <1>7 DEF Tier
  <2>6. in = TwoPointerMerge(fresh, kept)
    BY <2>1, <2>5, MergeSame
  <2> QED
    BY <1>10, <2>2, <2>4, <2>6 DEF moved, kept, fresh, RefiledByLoop, KeyedBy
<1> QED
  BY <1>9, <1>10

\* One table of a promote: candidates and anchors merged, the same by both programs.
LEMMA PromotedTier ==
    ASSUME NEW ns \in Nat, NEW n \in Nat, ns <= n,
           NEW static, Tier(static, Ids(0, ns)), NEW tier, Tier(tier, Ids(ns, n)),
           NEW in, in = NumpyInsert(static, tier)
    PROVE  /\ Tier(in, Ids(0, n))
           /\ DrawnFrom(in, static, tier)
           /\ in = TwoPointerMerge(tier, static)
<1>1. Ids(0, ns) \cap Ids(ns, n) = {} /\ Ids(0, ns) \cup Ids(ns, n) = Ids(0, n)
  BY DEF Ids
<1>2. /\ static \in Seq(EntryType) /\ KeySorted(static)
      /\ tier \in Seq(EntryType) /\ KeySorted(tier)
  BY DEF Tier
<1>3. in = TwoPointerMerge(tier, static)
  BY <1>2, MergeSame
<1>4. /\ Tier(in, Ids(0, ns) \cup Ids(ns, n))
      /\ DrawnFrom(in, static, tier)
  BY <1>1, MergedTier
<1> QED
  BY <1>1, <1>3, <1>4

-----------------------------------------------------------------------------
\* Candidates sorted from zero, over any points: what both backends do after a
\* build and after a promote.
LEMMA CandidatesRebuilt ==
    ASSUME NEW P \in Seq(Signatures), NEW n, n = Len(P), NEW ns \in 0..n,
           pyPts' = P, pyPoints' = n, pyStatic' = ns, Py!BuildCandidates(P, n, ns)
    PROVE  /\ pyIds' = Py!IdRange(ns, n)
           /\ pyKeys' = KeysOf(P, ns, n)
           /\ pyCand' = [t \in Tables |-> SortTier(KeysOf(P, ns, n)[t], ns)]
           /\ Filed(pyCand', P, ns, n)
<1>1. n \in Nat /\ ns \in Nat /\ ns <= n
  BY LenProperties
<1>2. pyIds' = Py!IdRange(ns, n) /\ pyKeys' = KeysOf(P, ns, n)
  BY <1>1, RowKeys DEF Py!BuildCandidates
<1>3. pyCand' = [t \in Tables |-> SortTier(KeysOf(P, ns, n)[t], ns)]
  BY <1>2, SameOps DEF Py!BuildCandidates
<1>4. Filed(pyCand', P, ns, n)
  BY <1>1, <1>3, SortedFiled
<1> QED
  BY <1>2, <1>3, <1>4

\* The compiled core rebuilds the same candidates, and their offsets.
LEMMA CandidatesFollow ==
    ASSUME NEW P \in Seq(Signatures), NEW n, n = Len(P), NEW ns \in 0..n,
           Rs!BuildCandidateTier(P, n, ns)
    PROVE  /\ rsKeys' = KeysOf(P, ns, n)
           /\ rsCand' = [t \in Tables |-> SortTier(KeysOf(P, ns, n)[t], ns)]
           /\ rsOffsC' = Rs!BuildOffsets(rsCand', n - ns)
<1>1. n \in Nat /\ ns \in Nat
  BY LenProperties
<1>2. rsKeys' = KeysOf(P, ns, n)
  BY <1>1, RowKeys DEF Rs!BuildCandidateTier
<1>3. rsCand' = [t \in Tables |-> SortTier(KeysOf(P, ns, n)[t], ns)]
  BY <1>2, SameOps DEF Rs!BuildCandidateTier
<1> QED
  BY <1>2, <1>3 DEF Rs!BuildCandidateTier

\* Before the first build everything is empty.
LEMMA InitParity ==
    ASSUME Init
    PROVE  ParityInv
<1>1. <<>> \in Seq(Signatures) /\ Len(<<>>) = 0 /\ <<>> \in Seq(EntryType)
  BY EmptySeq
<1>2. /\ pyPts = <<>> /\ pyPoints = 0 /\ pyStatic = 0 /\ pyIds = <<>>
      /\ pyKeys = [t \in Tables |-> <<>>]
      /\ pyStat = [t \in Tables |-> <<>>] /\ pyCand = [t \in Tables |-> <<>>]
  BY DEF Init, Py!Init
<1>3. /\ rsPts = <<>> /\ rsPoints = 0 /\ rsStatic = 0
      /\ rsKeys = [t \in Tables |-> <<>>]
      /\ rsStat = [t \in Tables |-> <<>>] /\ rsCand = [t \in Tables |-> <<>>]
      /\ rsOffsS = <<>> /\ rsOffsC = <<>>
  BY DEF Init, Rs!Init
<1>4. Tier(<<>>, Ids(0, 0))
  <2>1. Ids(0, 0) = {}
    BY DEF Ids
  <2>2. Cardinality({}) = 0
    BY FS_EmptySet
  <2>3. KeySorted(<<>>) /\ FilesOnce(<<>>, {})
    BY <1>1, <2>2 DEF KeySorted, FilesOnce
  <2> QED
    BY <1>1, <2>1, <2>3 DEF Tier
<1>5. Filed(pyStat, pyPts, 0, pyStatic) /\ Filed(pyCand, pyPts, pyStatic, pyPoints)
  BY <1>1, <1>2, <1>4 DEF Filed
<1>6. pyIds = Py!IdRange(0, 0) /\ pyKeys = KeysOf(pyPts, 0, 0)
  BY <1>2 DEF Py!IdRange, KeysOf
<1>7. PyInv
  BY <1>1, <1>2, <1>5, <1>6 DEF PyInv
<1>8. RsFollows
  BY <1>2, <1>3 DEF RsFollows, Rs!BuildOffsets
<1> QED
  BY <1>7, <1>8 DEF ParityInv

-----------------------------------------------------------------------------
\* A build files everything from zero.
LEMMA BuildStep ==
    ASSUME NEW P \in Seq(Signatures), NEW ns \in 0..Len(P), Build(P, ns)
    PROVE  ParityInv'
<1> DEFINE n == Len(P)
<1>1. n \in Nat /\ ns \in Nat /\ 0 \in Nat /\ ns <= n /\ 0 <= ns /\ ns - 0 = ns
  BY LenProperties
<1>2. Py!Build(P, ns) /\ Rs!Build(P, ns)
  BY DEF Build
<1>3. pyPts' = P /\ pyPoints' = n /\ pyStatic' = ns /\ Py!BuildCandidates(P, n, ns)
  BY <1>2 DEF Py!Build
<1>4. rsPts' = P /\ rsPoints' = n /\ rsStatic' = ns /\ Rs!BuildCandidateTier(P, n, ns)
  BY <1>2 DEF Rs!Build
<1>5. /\ pyIds' = Py!IdRange(ns, n) /\ pyKeys' = KeysOf(P, ns, n)
      /\ pyCand' = [t \in Tables |-> SortTier(KeysOf(P, ns, n)[t], ns)]
      /\ Filed(pyCand', P, ns, n)
  BY <1>3, CandidatesRebuilt
<1>6. /\ rsKeys' = KeysOf(P, ns, n)
      /\ rsCand' = [t \in Tables |-> SortTier(KeysOf(P, ns, n)[t], ns)]
      /\ rsOffsC' = Rs!BuildOffsets(rsCand', n - ns)
  BY <1>4, CandidatesFollow
<1>7. pyStat' = [t \in Tables |-> SortTier(KeysOf(P, 0, ns)[t], 0)]
  <2>1. pyStat' = [t \in Tables |-> SortTier(Py!TierKeys(P, Py!IdRange(0, ns))[t], 0)]
    BY <1>2, SameOps DEF Py!Build
  <2> QED
    BY <1>1, <2>1, RowKeys
<1>8. rsStat' = [t \in Tables |-> SortTier(KeysOf(P, 0, ns)[t], 0)]
  <2>1. rsStat' = [t \in Tables |-> SortTier(Rs!ComputeKeys(P, 0, ns)[t], 0)]
    BY <1>2, SameOps DEF Rs!Build
  <2>2. Rs!ComputeKeys(P, 0, ns - 0) = KeysOf(P, 0, ns)
    BY <1>1, RowKeys
  <2> QED
    BY <1>1, <2>1, <2>2
<1>9. Filed(pyStat', P, 0, ns)
  BY <1>1, <1>7, SortedFiled
<1>10. rsOffsS' = Rs!BuildOffsets(rsStat', ns)
  BY <1>2 DEF Rs!Build
<1>11. PyInv'
  BY <1>1, <1>3, <1>5, <1>9 DEF PyInv
<1>12. RsFollows'
  BY <1>3, <1>4, <1>5, <1>6, <1>7, <1>8, <1>10 DEF RsFollows
<1> QED
  BY <1>11, <1>12 DEF ParityInv

\* A promote merges the candidates into the anchors and starts a new batch.
LEMMA PromoteStep ==
    ASSUME ParityInv, NEW C \in Seq(Signatures), Promote(C)
    PROVE  ParityInv'
<1> DEFINE P == pyPts \o C
           n == pyPoints
           ns == pyStatic
           m == n + Len(C)
<1>1. /\ pyPts \in Seq(Signatures) /\ n = Len(pyPts) /\ ns \in 0..n
      /\ Filed(pyStat, pyPts, 0, ns) /\ Filed(pyCand, pyPts, ns, n)
  BY DEF ParityInv, PyInv
<1>2. /\ rsPts = pyPts /\ rsPoints = n /\ rsStatic = ns
      /\ rsStat = pyStat /\ rsCand = pyCand
  BY DEF ParityInv, RsFollows
<1>3. /\ P \in Seq(Signatures) /\ Len(P) = m /\ n \in Nat /\ ns \in Nat /\ m \in Nat
      /\ n \in 0..m /\ \A i \in 1..n : P[i] = pyPts[i]
  BY <1>1, ConcatProperties, LenProperties
<1>4. Py!Promote(C) /\ Rs!Promote(C)
  BY DEF Promote
<1>5. pyPts' = P /\ pyPoints' = m /\ pyStatic' = n /\ Py!BuildCandidates(P, m, n)
  BY <1>4 DEF Py!Promote
<1>6. rsPts' = P /\ rsPoints' = m /\ rsStatic' = n /\ Rs!BuildCandidateTier(P, m, n)
  BY <1>2, <1>4 DEF Rs!Promote
<1>7. /\ pyStat' = IF n > ns THEN [t \in Tables |-> NumpyInsert(pyStat[t], pyCand[t])]
                   ELSE pyStat
      /\ rsStat' = IF n > ns THEN [t \in Tables |-> TwoPointerMerge(pyCand[t], pyStat[t])]
                   ELSE pyStat
      /\ rsOffsS' = Rs!BuildOffsets(rsStat', n)
  BY <1>2, <1>4, SameOps DEF Py!Promote, Rs!Promote
<1> HIDE DEF P, n, ns, m
<1>8. /\ pyIds' = Py!IdRange(n, m) /\ pyKeys' = KeysOf(P, n, m)
      /\ pyCand' = [t \in Tables |-> SortTier(KeysOf(P, n, m)[t], n)]
      /\ Filed(pyCand', P, n, m)
  BY <1>3, <1>5, CandidatesRebuilt
<1>9. /\ rsKeys' = KeysOf(P, n, m)
      /\ rsCand' = [t \in Tables |-> SortTier(KeysOf(P, n, m)[t], n)]
      /\ rsOffsC' = Rs!BuildOffsets(rsCand', m - n)
  BY <1>3, <1>6, CandidatesFollow
<1>10. ASSUME n > ns PROVE rsStat' = pyStat' /\ Filed(pyStat', P, 0, n)
  <2>1. ASSUME NEW t \in Tables
        PROVE  /\ pyStat'[t] = rsStat'[t]
               /\ Tier(pyStat'[t], Ids(0, n))
               /\ \A i \in 1..Len(pyStat'[t]) :
                     pyStat'[t][i].key = P[pyStat'[t][i].id + 1][t]
    <3> DEFINE in == NumpyInsert(pyStat[t], pyCand[t])
    <3>1. pyStat'[t] = in /\ rsStat'[t] = TwoPointerMerge(pyCand[t], pyStat[t])
      BY <1>7, <1>10
    <3>2. Tier(pyStat[t], Ids(0, ns)) /\ Tier(pyCand[t], Ids(ns, n)) /\ ns <= n
      BY <1>1, <1>3 DEF Filed
    <3> HIDE DEF in
    <3>3. /\ Tier(in, Ids(0, n)) /\ DrawnFrom(in, pyStat[t], pyCand[t])
          /\ in = TwoPointerMerge(pyCand[t], pyStat[t])
      BY <1>3, <3>2, PromotedTier DEF in
    <3>4. /\ \A i \in 1..Len(pyStat[t]) : pyStat[t][i].key = pyPts[pyStat[t][i].id + 1][t]
          /\ \A i \in 1..Len(pyCand[t]) : pyCand[t][i].key = pyPts[pyCand[t][i].id + 1][t]
      BY <1>1 DEF Filed
    <3>5. ASSUME NEW i \in 1..Len(in) PROVE in[i].key = P[in[i].id + 1][t]
      <4>1. in[i].id \in Ids(0, n)
        BY <3>3, TierFacts
      <4>2. in[i].id + 1 \in 1..n
        BY <1>3, <4>1 DEF Ids
      <4>3. P[in[i].id + 1] = pyPts[in[i].id + 1]
        BY <1>3, <4>2
      <4>4. in[i].key = pyPts[in[i].id + 1][t]
        <5>1. \/ \E b \in 1..Len(pyStat[t]) : in[i] = pyStat[t][b]
              \/ \E j \in 1..Len(pyCand[t]) : in[i] = pyCand[t][j]
          BY ONLY <3>3, i \in 1..Len(in) DEF DrawnFrom
        <5> QED
          BY ONLY <3>4, <5>1
      <4> QED
        BY <4>3, <4>4
    <3> QED
      BY <3>1, <3>3, <3>5
  <2>2. pyStat' = [t \in Tables |-> pyStat'[t]] /\ rsStat' = [t \in Tables |-> rsStat'[t]]
    <3>1. /\ pyStat' = [t \in Tables |-> NumpyInsert(pyStat[t], pyCand[t])]
          /\ rsStat' = [t \in Tables |-> TwoPointerMerge(pyCand[t], pyStat[t])]
      BY <1>7, <1>10
    <3> QED
      BY <3>1
  <2> QED
    BY <2>1, <2>2 DEF Filed
<1>11. rsStat' = pyStat' /\ Filed(pyStat', P, 0, n)
  <2>1. CASE n > ns
    BY <1>10, <2>1
  <2>2. CASE ~(n > ns)
    <3>1. n = ns /\ pyStat' = pyStat /\ rsStat' = pyStat
      BY <1>1, <1>3, <1>7, <2>2
    <3>2. \A i \in 1..n : pyPts[i] = P[i]
      BY <1>3
    <3>3. Filed(pyStat, P, 0, n)
      BY <1>1, <1>3, <3>1, <3>2, FiledExtends
    <3> QED
      BY <3>1, <3>3
  <2> QED
    BY <2>1, <2>2
<1>12. PyInv'
  BY <1>3, <1>5, <1>8, <1>11 DEF PyInv
<1>13. RsFollows'
  BY <1>5, <1>6, <1>7, <1>8, <1>9, <1>11 DEF RsFollows
<1> QED
  BY <1>12, <1>13 DEF ParityInv

\* What an update takes out of a table and puts back, as both backends compute it.
LEMMA UpdateParts ==
    ASSUME ParityInv, NEW P, NEW t \in Tables,
           NEW new, new = KeysOf(P, pyStatic, pyPoints),
           NEW moved, moved = Changed(pyKeys[t], new[t], pyPoints - pyStatic)
    PROVE  /\ Py!MovedRows(new, t) = moved /\ Rs!MovedRows(new, t) = moved
           /\ Py!Kept(new, t) = Staying(pyCand[t], moved, pyStatic)
           /\ Rs!Kept(new, t) = Staying(pyCand[t], moved, pyStatic)
           /\ Py!Fresh(new, t) = Moving(new[t], moved, pyStatic)
           /\ Rs!Moved(new, t) = Moving(new[t], moved, pyStatic)
<1>1. /\ DOMAIN pyIds = 1..(pyPoints - pyStatic)
      /\ \A i \in 1..(pyPoints - pyStatic) : pyIds[i] = pyStatic + i - 1
  BY DEF ParityInv, PyInv, Py!IdRange
<1>2. /\ rsPoints = pyPoints /\ rsStatic = pyStatic /\ rsKeys = pyKeys /\ rsCand = pyCand
  BY DEF ParityInv, RsFollows
<1>3. Py!MovedRows(new, t) = moved /\ Rs!MovedRows(new, t) = moved
  BY <1>1, <1>2 DEF Py!MovedRows, Rs!MovedRows, Changed
<1>4. Py!Kept(new, t) = Staying(pyCand[t], moved, pyStatic)
  BY <1>3, SameOps DEF Py!Kept, Staying
<1>5. Rs!Kept(new, t) = Staying(pyCand[t], moved, pyStatic)
  BY <1>2, <1>3, SameOps DEF Rs!Kept, Staying
<1>6. Py!Fresh(new, t) = Moving(new[t], moved, pyStatic)
  <2>1. \A i \in moved : i \in 1..(pyPoints - pyStatic)
    BY DEF Changed
  <2>2. {Py!Entry(new[t][i], pyIds[i]) : i \in moved}
           = {Entry(new[t][i], pyStatic + i - 1) : i \in moved}
    BY <1>1, <2>1, SameOps
  <2>3. Py!Fresh(new, t)
           = Py!Ordered({Py!Entry(new[t][i], pyIds[i]) : i \in moved}, Py!KeyThenId)
    BY <1>3 DEF Py!Fresh
  <2> DEFINE S == {Entry(new[t][i], pyStatic + i - 1) : i \in moved}
  <2>4. Moving(new[t], moved, pyStatic) = Ordered(S, KeyThenId)
    BY DEF Moving
  <2>5. Py!Fresh(new, t) = Py!Ordered(S, Py!KeyThenId)
    BY <2>2, <2>3
  <2> HIDE DEF S
  <2> QED
    BY <2>4, <2>5, SameOps
<1>7. Rs!Moved(new, t) = Moving(new[t], moved, pyStatic)
  <2> DEFINE S == {Entry(new[t][i], pyStatic + i - 1) : i \in moved}
  <2>1. {Rs!Entry(new[t][i], rsStatic + i - 1) : i \in moved} = S
    BY <1>2, SameOps
  <2>2. Rs!Moved(new, t)
           = Rs!Ordered({Rs!Entry(new[t][i], rsStatic + i - 1) : i \in moved}, Rs!KeyThenId)
    BY <1>3 DEF Rs!Moved
  <2>3. Moving(new[t], moved, pyStatic) = Ordered(S, KeyThenId)
    BY DEF Moving
  <2>4. Rs!Moved(new, t) = Rs!Ordered(S, Rs!KeyThenId)
    BY <2>1, <2>2
  <2> HIDE DEF S
  <2> QED
    BY <2>3, <2>4, SameOps
<1> QED
  BY <1>3, <1>4, <1>5, <1>6, <1>7

\* The points after an update: the anchors, then the new candidates.
LEMMA CandidatesReplaced ==
    ASSUME NEW T, NEW P \in Seq(T), NEW ns \in 0..Len(P), NEW C \in Seq(T),
           Len(C) = Len(P) - ns
    PROVE  /\ SubSeq(P, 1, ns) \o C \in Seq(T)
           /\ Len(SubSeq(P, 1, ns) \o C) = Len(P)
           /\ \A i \in 1..ns : (SubSeq(P, 1, ns) \o C)[i] = P[i]
<1> DEFINE A == SubSeq(P, 1, ns)
<1>1. Len(P) \in Nat /\ ns \in Nat /\ ns + (Len(P) - ns) = Len(P) /\ Len(P) - ns \in Nat
  BY LenProperties
<1>2. A \in Seq(T) /\ Len(A) = ns /\ \A i \in 1..ns : A[i] = P[i]
  <2>1. \A i \in 1..ns : P[i] \in T
    BY ElementOfSeq
  <2>2. /\ A \in Seq(T)
        /\ Len(A) = IF 1 <= ns THEN ns - 1 + 1 ELSE 0
        /\ \A i \in 1..(ns - 1 + 1) : A[i] = P[1 + i - 1]
    BY <1>1, <2>1, SubSeqProperties
  <2> QED
    BY <1>1, <2>2
<1> HIDE DEF A
<1>3. /\ A \o C \in Seq(T) /\ Len(A \o C) = Len(A) + Len(C)
      /\ \A i \in 1..(Len(A) + Len(C)) : (A \o C)[i] = IF i <= Len(A) THEN A[i] ELSE C[i - Len(A)]
  BY <1>2, ConcatProperties
<1>4. \A i \in 1..ns : (A \o C)[i] = P[i]
  BY <1>1, <1>2, <1>3
<1>5. Len(A \o C) = Len(P)
  BY <1>1, <1>2, <1>3
<1> QED
  BY <1>3, <1>4, <1>5 DEF A

\* An update re-files exactly the candidates whose key changed.
LEMMA UpdateStep ==
    ASSUME ParityInv, NEW C \in Seq(Signatures), Update(C)
    PROVE  ParityInv'
<1> DEFINE P == SubSeq(pyPts, 1, pyStatic) \o C
           n == pyPoints
           ns == pyStatic
           new == KeysOf(P, ns, n)
           moved(t) == Changed(pyKeys[t], new[t], n - ns)
           out(t) == Refiled(pyCand[t], pyKeys[t], new[t], ns, n - ns)
           both(t) == RefiledByLoop(pyCand[t], pyKeys[t], new[t], ns, n - ns)
<1>1. /\ pyPts \in Seq(Signatures) /\ n = Len(pyPts) /\ ns \in 0..n
      /\ pyIds = Py!IdRange(ns, n) /\ pyKeys = KeysOf(pyPts, ns, n)
      /\ Filed(pyStat, pyPts, 0, ns) /\ Filed(pyCand, pyPts, ns, n)
  BY DEF ParityInv, PyInv
<1>2. /\ rsPts = pyPts /\ rsPoints = n /\ rsStatic = ns
      /\ rsStat = pyStat /\ rsCand = pyCand /\ rsKeys = pyKeys
      /\ rsOffsS = Rs!BuildOffsets(rsStat, ns)
  BY DEF ParityInv, RsFollows
<1>3. Py!Update(C) /\ Rs!Update(C) /\ Len(C) = n - ns
  BY DEF Update, Py!Update
<1>4. /\ n \in Nat /\ ns \in Nat /\ ns <= n /\ n - ns \in Nat /\ ns + (n - ns) = n
  BY <1>1, LenProperties
<1>5. P \in Seq(Signatures) /\ Len(P) = n /\ \A i \in 1..ns : P[i] = pyPts[i]
  BY <1>1, <1>3, <1>4, CandidatesReplaced
<1>6. Py!TierKeys(P, pyIds) = new /\ Rs!ComputeKeys(P, ns, n - ns) = new
  BY <1>1, <1>4, RowKeys
<1>7. /\ pyPts' = P /\ pyPoints' = n /\ pyStatic' = ns /\ pyIds' = pyIds
      /\ pyKeys' = new /\ pyStat' = pyStat
      /\ pyCand' = [t \in Tables |->
                       IF Py!MovedRows(new, t) = {} THEN pyCand[t]
                       ELSE Py!NumpyInsert(Py!Kept(new, t), Py!Fresh(new, t))]
  BY <1>3, <1>6 DEF Py!Update
<1>8. /\ rsPts' = P /\ rsPoints' = n /\ rsStatic' = ns
      /\ rsKeys' = new /\ rsStat' = pyStat /\ rsOffsS' = rsOffsS
      /\ rsCand' = [t \in Tables |->
                       IF Rs!MovedRows(new, t) = {} THEN pyCand[t]
                       ELSE Rs!TwoPointerMerge(Rs!Moved(new, t), Rs!Kept(new, t))]
      /\ rsOffsC' = Rs!BuildOffsets(rsCand', n - ns)
  BY <1>2, <1>3, <1>6 DEF Rs!Update
<1>9. ASSUME NEW t \in Tables
      PROVE  /\ Py!MovedRows(new, t) = moved(t) /\ Rs!MovedRows(new, t) = moved(t)
             /\ Py!Kept(new, t) = Staying(pyCand[t], moved(t), ns)
             /\ Rs!Kept(new, t) = Staying(pyCand[t], moved(t), ns)
             /\ Py!Fresh(new, t) = Moving(new[t], moved(t), ns)
             /\ Rs!Moved(new, t) = Moving(new[t], moved(t), ns)
  <2> HIDE DEF P
  <2> QED
    BY UpdateParts
<1>10. pyCand' = [t \in Tables |-> out(t)]
  BY <1>7, <1>9, SameOps DEF Refiled
<1>11. rsCand' = [t \in Tables |-> both(t)]
  BY <1>8, <1>9, SameOps DEF RefiledByLoop
<1>12. ASSUME NEW t \in Tables
       PROVE  /\ Tier(out(t), Ids(ns, n)) /\ out(t) = both(t)
              /\ \A i \in 1..Len(out(t)) : out(t)[i].key = P[out(t)[i].id + 1][t]
  <2> DEFINE k == n - ns
             was == pyKeys[t]
             is == new[t]
             in == out(t)
             tier == pyCand[t]
  <2>1. was = [i \in 1..k |-> pyPts[ns + i][t]] /\ is = [i \in 1..k |-> P[ns + i][t]]
    BY <1>1 DEF KeysOf
  <2>2. \A i \in 1..k : ns + i \in 1..n
    BY <1>4
  <2>3. \A i \in 1..k : pyPts[ns + i][t] \in Int /\ P[ns + i][t] \in Int
    BY <1>1, <1>5, <2>2, SignatureKeys
  <2>4. /\ Tier(tier, Ids(ns, ns + k))
        /\ \A i \in 1..Len(tier) : tier[i].key = pyPts[tier[i].id + 1][t]
    BY <1>1, <1>4 DEF Filed
  <2>5. in = Refiled(tier, was, is, ns, k) /\ both(t) = RefiledByLoop(tier, was, is, ns, k)
    OBVIOUS
  <2> HIDE DEF P, k, was, is, in, tier, new, out, both, moved
  <2>7. was \in [1..k -> Int] /\ is \in [1..k -> Int] /\ k \in Nat
    BY <1>4, <2>1, <2>3 DEF k
  <2>8. \A x \in Ids(ns, ns + k) : x - ns + 1 \in 1..k /\ ns + (x - ns + 1) = x + 1
    BY <1>4, <2>7 DEF Ids
  <2>9. KeyedBy(tier, was, ns)
    <3> SUFFICES ASSUME NEW i \in 1..Len(tier) PROVE tier[i].key = was[tier[i].id - ns + 1]
      BY DEF KeyedBy
    <3> DEFINE r == tier[i].id - ns + 1
    <3>1. tier[i].id \in Ids(ns, ns + k)
      BY <2>4, TierFacts
    <3>2. r \in 1..k /\ ns + r = tier[i].id + 1
      BY <2>8, <3>1
    <3>3. was[r] = pyPts[ns + r][t]
      BY <2>1, <3>2
    <3> QED
      BY <2>4, <3>2, <3>3
  <2>10. /\ Tier(in, Ids(ns, ns + k))
         /\ KeyedBy(in, is, ns)
         /\ in = RefiledByLoop(tier, was, is, ns, k)
    <3>1. CanRefile(tier, was, is, ns, k)
      BY <1>4, <2>4, <2>7, <2>9 DEF CanRefile
    <3>2. in = Refiled(tier, was, is, ns, k)
      BY <2>5
    <3> QED
      BY ONLY <3>1, <3>2, UpdatedTier
  <2>11. \A i \in 1..Len(in) : in[i].key = P[in[i].id + 1][t]
    <3>1. \A i \in 1..Len(in) : in[i].id \in Ids(ns, ns + k)
      BY <2>10, TierFacts
    <3> SUFFICES ASSUME NEW i \in 1..Len(in) PROVE in[i].key = P[in[i].id + 1][t]
      OBVIOUS
    <3> DEFINE r == in[i].id - ns + 1
    <3>2. r \in 1..k /\ ns + r = in[i].id + 1
      BY <2>8, <3>1
    <3>3. in[i].key = is[r]
      BY <2>10 DEF KeyedBy
    <3>4. is[r] = P[ns + r][t]
      BY <2>1, <3>2
    <3> QED
      BY <3>2, <3>3, <3>4
  <2> QED
    BY <1>4, <2>5, <2>10, <2>11 DEF in, k
<1> HIDE DEF P, out, both, new
<1>13. rsCand' = pyCand'
  BY <1>10, <1>11, <1>12
<1>14. Filed(pyCand', P, ns, n)
  BY <1>10, <1>12 DEF Filed
<1>15. Filed(pyStat', P, 0, ns)
  <2>1. \A i \in 1..ns : pyPts[i] = P[i]
    BY <1>5
  <2>2. Filed(pyStat, P, 0, ns)
    BY <1>1, <1>4, <2>1, FiledExtends
  <2> QED
    BY <1>7, <2>2
<1>16. PyInv'
  BY <1>1, <1>5, <1>7, <1>14, <1>15 DEF PyInv, new
<1>17. RsFollows'
  BY <1>2, <1>7, <1>8, <1>13 DEF RsFollows
<1> QED
  BY <1>16, <1>17 DEF ParityInv

-----------------------------------------------------------------------------
\* Whatever is called, both backends stay in step.
LEMMA CallStep ==
    ASSUME ParityInv, [Next]_vars
    PROVE  ParityInv'
<1>1. CASE \E P \in Batches(MaxPoints) \ {<<>>} : \E ns \in 0..Len(P) : Build(P, ns)
  <2>1. PICK P \in Batches(MaxPoints) : \E ns \in 0..Len(P) : Build(P, ns)
    BY <1>1
  <2>2. P \in Seq(Signatures)
    BY BatchFacts
  <2>3. PICK ns \in 0..Len(P) : Build(P, ns)
    BY <2>1
  <2> QED
    BY <2>2, <2>3, BuildStep
<1>2. CASE \E C \in Batches(MaxPoints) : Update(C) \/ Promote(C)
  <2>1. PICK C \in Batches(MaxPoints) : Update(C) \/ Promote(C)
    BY <1>2
  <2>2. C \in Seq(Signatures)
    BY BatchFacts
  <2> QED
    BY <2>1, <2>2, UpdateStep, PromoteStep
<1>3. CASE UNCHANGED vars
  BY <1>3 DEF vars, ParityInv, PyInv, RsFollows
<1> QED
  BY <1>1, <1>2, <1>3 DEF Next

\* In every history of calls the reference tables file what they should and the
\* compiled ones are the same, with offset tables of the tiers they stand for.
THEOREM ParityHolds == Spec => []ParityInv
<1>1. Init => ParityInv
  BY InitParity
<1>2. ParityInv /\ [Next]_vars => ParityInv'
  BY CallStep
<1> QED
  BY <1>1, <1>2, PTL DEF Spec

\* The tables of both backends are entry for entry the same.
THEOREM TablesSame == Spec => []SameTables
<1>1. ParityInv => SameTables
  BY DEF ParityInv, RsFollows, SameTables
<1> QED
  BY <1>1, ParityHolds, PTL

\* The reference tables are sorted and complete, and its row-order keys current.
THEOREM ReferenceSound == Spec => []ReferenceTablesSound
<1>1. ParityInv => ReferenceTablesSound
  <2> SUFFICES ASSUME ParityInv, NEW t \in Tables
               PROVE  /\ KeySorted(pyStat[t]) /\ FilesOnce(pyStat[t], Ids(0, pyStatic))
                      /\ KeySorted(pyCand[t]) /\ FilesOnce(pyCand[t], Ids(pyStatic, pyPoints))
                      /\ pyKeys[t] = [i \in 1..(pyPoints - pyStatic) |-> pyPts[pyStatic + i][t]]
    BY DEF ReferenceTablesSound
  <2>1. Tier(pyStat[t], Ids(0, pyStatic)) /\ Tier(pyCand[t], Ids(pyStatic, pyPoints))
    BY DEF ParityInv, PyInv, Filed
  <2>2. pyKeys[t] = [i \in 1..(pyPoints - pyStatic) |-> pyPts[pyStatic + i][t]]
    BY DEF ParityInv, PyInv, KeysOf
  <2> QED
    BY <2>1, <2>2 DEF Tier
<1> QED
  BY <1>1, ParityHolds, PTL

-----------------------------------------------------------------------------
\* Tiers that file `from`..`to` - 1, with the offset table of those tiers.
CanLookUp(tiers, offs, P, from, to) ==
    /\ P \in Seq(Signatures) /\ from \in Nat /\ to \in Nat /\ to <= Len(P)
    /\ Filed(tiers, P, from, to)
    /\ offs = Rs!BuildOffsets(tiers, to - from)

\* The ids of a tier that hash into buckets lo..lo + width - 1.
HashesIn(P, t, from, to, lo, width) ==
    UNION {{x \in Ids(from, to) : P[x + 1][t] = v} : v \in lo..(lo + width - 1)}

\* A lookup, by offsets or by search, of a tier that files `from`..`to` - 1.
LEMMA RangeCurrent ==
    ASSUME NEW tiers, NEW offs, NEW P, NEW from, NEW to,
           CanLookUp(tiers, offs, P, from, to),
           NEW t \in Tables, NEW lo \in Keys, NEW width \in 1..(KeySpace - lo)
    PROVE  /\ Rs!TierRange(tiers, offs, t, lo, width) = SearchedRange(tiers[t], lo, width)
           /\ FilesOnce(Rs!TierRange(tiers, offs, t, lo, width), HashesIn(P, t, from, to, lo, width))
<1> /\ P \in Seq(Signatures) /\ from \in Nat /\ to \in Nat /\ to <= Len(P)
    /\ Filed(tiers, P, from, to)
    /\ offs = Rs!BuildOffsets(tiers, to - from)
  BY DEF CanLookUp
<1> DEFINE tier == tiers[t]
           hi == lo + width
           found == Rs!TierRange(tiers, offs, t, lo, width)
           in == {j \in 1..Len(tier) : lo <= tier[j].key /\ tier[j].key < hi}
<1>1. KeySpace \in Nat /\ lo \in Nat /\ hi \in Nat /\ lo <= hi /\ lo \in 0..KeySpace /\ hi \in 0..KeySpace
      /\ hi - 1 = lo + width - 1
  BY ParityAssumption DEF Keys
<1>2. /\ Tier(tier, Ids(from, to))
      /\ \A i \in 1..Len(tier) : tier[i].key = P[tier[i].id + 1][t]
  BY DEF Filed
<1>3. offs # <<>> => offs[t][lo] = LowerBound(tier, lo) /\ offs[t][hi] = LowerBound(tier, hi)
  <2> SUFFICES ASSUME offs # <<>>
               PROVE  offs[t][lo] = LowerBound(tier, lo) /\ offs[t][hi] = LowerBound(tier, hi)
    OBVIOUS
  <2>1. offs = [u \in Tables |-> [v \in 0..KeySpace |-> Rs!LowerBound(tiers[u], v)]]
    BY DEF Rs!BuildOffsets, Rs!DirectSpace
  <2>2. offs[t] = [v \in 0..KeySpace |-> Rs!LowerBound(tier, v)]
    BY <2>1
  <2>3. offs[t][lo] = Rs!LowerBound(tier, lo) /\ offs[t][hi] = Rs!LowerBound(tier, hi)
    BY <1>1, <2>2
  <2> QED
    BY <2>3, SameOps
<1>4. SearchedRange(tier, lo, width) = SubSeq(tier, LowerBound(tier, lo) + 1, LowerBound(tier, hi))
  BY DEF SearchedRange
<1>5. found = SearchedRange(tier, lo, width)
  <2>1. Rs!SearchedRange(tiers[t], lo, width) = SearchedRange(tiers[t], lo, width)
    BY SameOps
  <2>2. CASE offs # <<>>
    BY <1>3, <1>4, <2>2 DEF Rs!TierRange
  <2>3. CASE offs = <<>>
    BY <2>1, <2>3 DEF Rs!TierRange
  <2> QED
    BY <2>2, <2>3
<1> HIDE DEF tier, found
<1>6. FilesOnce(found, {tier[i].id : i \in in})
  BY <1>1, <1>2, <1>4, <1>5, RangeFiles
<1>7. {tier[i].id : i \in in}
        = UNION {{x \in Ids(from, to) : P[x + 1][t] = v} : v \in lo..(hi - 1)}
  <2> DEFINE U == UNION {{x \in Ids(from, to) : P[x + 1][t] = v} : v \in lo..(hi - 1)}
  <2>1. /\ \A i \in 1..Len(tier) : tier[i].id \in Ids(from, to) /\ tier[i].key \in Int
        /\ \A x \in Ids(from, to) : \E i \in 1..Len(tier) : tier[i].id = x
    BY <1>2, TierFacts
  <2>2. ASSUME NEW i \in in PROVE tier[i].id \in U
    <3>1. i \in 1..Len(tier) /\ tier[i].key \in lo..(hi - 1)
      BY <1>1, <2>1, <2>2
    <3>2. tier[i].id \in Ids(from, to) /\ P[tier[i].id + 1][t] = tier[i].key
      BY <1>2, <2>1, <3>1
    <3> DEFINE x == tier[i].id
               v == tier[i].key
    <3> HIDE DEF x, v
    <3>3. x \in Ids(from, to) /\ P[x + 1][t] = v /\ v \in lo..(hi - 1)
      BY <3>1, <3>2 DEF x, v
    <3>4. x \in U
      BY <3>3
    <3> QED
      BY <3>4 DEF x
  <2>3. ASSUME NEW x \in U PROVE x \in {tier[i].id : i \in in}
    <3>1. PICK v \in lo..(hi - 1) : x \in Ids(from, to) /\ P[x + 1][t] = v
      BY <2>3
    <3>2. PICK i \in 1..Len(tier) : tier[i].id = x
      BY <2>1, <3>1
    <3>3. tier[i].key = v
      BY <1>2, <3>1, <3>2
    <3>4. i \in in
      BY <1>1, <3>1, <3>3, SMTT(30)
    <3> QED
      BY <3>2, <3>4
  <2> QED
    BY <2>2, <2>3
<1> QED
  BY <1>1, <1>5, <1>6, <1>7 DEF tier, found, HashesIn

\* Every lookup of the compiled core returns what hashes there now, each id once,
\* whether by offset table or by binary search.
THEOREM LookupsCurrent == Spec => []LookupsAreCurrent
<1>1. ParityInv => LookupsAreCurrent
  <2> SUFFICES ASSUME ParityInv, NEW t \in Tables, NEW lo \in Keys,
                      NEW width \in 1..(KeySpace - lo)
      PROVE  LET s == Rs!StaticRange(t, lo, width)
                 c == Rs!CandRange(t, lo, width)
                 expected(S) == UNION {Bucket(t, v, S) : v \in lo..(lo + width - 1)}
             IN  /\ FilesOnce(s, expected(Ids(0, rsStatic)))
                 /\ FilesOnce(c, expected(Ids(rsStatic, rsPoints)))
                 /\ s = SearchedRange(rsStat[t], lo, width)
                 /\ c = SearchedRange(rsCand[t], lo, width)
    BY DEF LookupsAreCurrent
  <2>1. /\ rsPts \in Seq(Signatures) /\ rsPoints = Len(rsPts) /\ rsStatic \in 0..rsPoints
        /\ Filed(rsStat, rsPts, 0, rsStatic) /\ Filed(rsCand, rsPts, rsStatic, rsPoints)
        /\ rsOffsS = Rs!BuildOffsets(rsStat, rsStatic)
        /\ rsOffsC = Rs!BuildOffsets(rsCand, rsPoints - rsStatic)
    BY DEF ParityInv, PyInv, RsFollows
  <2>2. /\ rsStatic \in Nat /\ rsPoints \in Nat /\ rsStatic <= rsPoints /\ rsStatic - 0 = rsStatic
        /\ 0 \in Nat /\ rsStatic <= Len(rsPts) /\ rsPoints <= Len(rsPts)
    BY <2>1, LenProperties
  <2>3. rsOffsS = Rs!BuildOffsets(rsStat, rsStatic - 0)
    BY <2>1, <2>2
  <2>4. /\ CanLookUp(rsStat, rsOffsS, rsPts, 0, rsStatic)
        /\ CanLookUp(rsCand, rsOffsC, rsPts, rsStatic, rsPoints)
    BY <2>1, <2>2, <2>3 DEF CanLookUp
  <2>5. /\ Rs!StaticRange(t, lo, width) = SearchedRange(rsStat[t], lo, width)
        /\ FilesOnce(Rs!StaticRange(t, lo, width), HashesIn(rsPts, t, 0, rsStatic, lo, width))
    BY <2>4, RangeCurrent DEF Rs!StaticRange
  <2>6. /\ Rs!CandRange(t, lo, width) = SearchedRange(rsCand[t], lo, width)
        /\ FilesOnce(Rs!CandRange(t, lo, width), HashesIn(rsPts, t, rsStatic, rsPoints, lo, width))
    BY <2>4, RangeCurrent DEF Rs!CandRange
  <2> QED
    BY <2>5, <2>6 DEF HashesIn, Bucket
<1> QED
  BY <1>1, ParityHolds, PTL

-----------------------------------------------------------------------------
\* A filed candidate tier is keyed by the row-order keys of its points.
LEMMA FiledByRow ==
    ASSUME NEW P \in Seq(Signatures), NEW ns \in 0..Len(P),
           NEW tiers, Filed(tiers, P, ns, Len(P)), NEW t \in Tables,
           NEW row, row = KeysOf(P, ns, Len(P))[t],
           NEW k, k = Len(P) - ns
    PROVE  /\ ns \in Nat /\ k \in Nat /\ row \in [1..k -> Int]
           /\ Tier(tiers[t], Ids(ns, ns + k)) /\ KeyedBy(tiers[t], row, ns)
<1>1. ns \in Nat /\ k \in Nat /\ ns + k = Len(P)
  BY LenProperties
<1>2. row = [i \in 1..k |-> P[ns + i][t]]
  BY DEF KeysOf
<1>3. \A i \in 1..k : P[ns + i][t] \in Int
  <2> SUFFICES ASSUME NEW i \in 1..k PROVE P[ns + i][t] \in Int
    OBVIOUS
  <2>1. ns + i \in 1..Len(P)
    BY <1>1
  <2> QED
    BY <2>1, SignatureKeys
<1>4. /\ Tier(tiers[t], Ids(ns, ns + k))
      /\ \A i \in 1..Len(tiers[t]) : tiers[t][i].key = P[tiers[t][i].id + 1][t]
  BY <1>1 DEF Filed
<1> HIDE DEF KeysOf
<1>5. KeyedBy(tiers[t], row, ns)
  <2> SUFFICES ASSUME NEW i \in 1..Len(tiers[t])
               PROVE  tiers[t][i].key = row[tiers[t][i].id - ns + 1]
    BY DEF KeyedBy
  <2> DEFINE r == tiers[t][i].id - ns + 1
  <2>1. tiers[t][i].id \in Ids(ns, ns + k)
    BY <1>4, TierFacts
  <2>2. r \in 1..k /\ ns + r = tiers[t][i].id + 1
    BY <1>1, <2>1, SMTT(30) DEF Ids
  <2>3. row[r] = P[ns + r][t]
    BY <1>2, <2>2
  <2> QED
    BY <1>4, <2>2, <2>3
<1> QED
  BY <1>1, <1>2, <1>3, <1>4, <1>5

\* The entries whose row kept its key.
Unmoved(tier, old, new, ns) ==
    Picked(tier, {p \in DOMAIN tier : new[tier[p].id - ns + 1] = old[tier[p].id - ns + 1]})

\* Refiling passes none of them by another.
LEMMA RefiledInOrder ==
    ASSUME NEW ns, NEW n, NEW old, NEW new, NEW tier, NEW in,
           CanRefile(tier, old, new, ns, n), in = Refiled(tier, old, new, ns, n)
    PROVE  Unmoved(in, old, new, ns) = Unmoved(tier, old, new, ns)
<1> DEFINE moved == Changed(old, new, n)
           kept == Staying(tier, moved, ns)
           fresh == Moving(new, moved, ns)
           Old == {x \in Ids(ns, ns + n) : x - ns + 1 \notin moved}
           New == {x \in Ids(ns, ns + n) : x - ns + 1 \in moved}
           K == {p \in 1..Len(in) : in[p].id \in Old}
<1>1. /\ ns \in Nat /\ n \in Nat /\ new \in [1..n -> Int]
      /\ Tier(tier, Ids(ns, ns + n)) /\ Tier(in, Ids(ns, ns + n))
  BY UpdatedTier DEF CanRefile
<1>2. \A x \in Ids(ns, ns + n) : x - ns + 1 \in 1..n
  BY <1>1 DEF Ids
<1>3. moved \in SUBSET (1..n) /\ \A i \in 1..n : i \notin moved <=> new[i] = old[i]
  BY DEF Changed
<1> HIDE DEF moved
<1>4. CASE moved = {}
  BY <1>4 DEF moved, Refiled
<1>5. CASE moved # {}
  <2>1. /\ Tier(kept, Old)
        /\ Tier(fresh, New)
    <3>1. Tier(Staying(tier, moved, ns), Old)
      BY <1>1, <1>3, StayingFacts
    <3>2. Tier(Moving(new, moved, ns), New)
      BY <1>1, <1>3, MovingFacts
    <3> QED
      BY <3>1, <3>2
  <2>2. Old \cap New = {}
    OBVIOUS
  <2>3. in = NumpyInsert(kept, fresh)
    BY <1>5 DEF moved, Refiled
  <2>4. DOMAIN tier = 1..Len(tier) /\ \A p \in 1..Len(tier) : tier[p].id \in Ids(ns, ns + n)
    BY <1>1, TierFacts
  <2>5. DOMAIN in = 1..Len(in) /\ \A p \in 1..Len(in) : in[p].id \in Ids(ns, ns + n)
    BY <1>1, TierFacts
  <2>6. {p \in DOMAIN in : new[in[p].id - ns + 1] = old[in[p].id - ns + 1]} = K
    BY <1>2, <1>3, <2>5
  <2>7. Unmoved(tier, old, new, ns) = kept
    <3>1. {p \in DOMAIN tier : new[tier[p].id - ns + 1] = old[tier[p].id - ns + 1]}
            = {p \in DOMAIN tier : tier[p].id - ns + 1 \notin moved}
      BY <1>2, <1>3, <2>4
    <3> QED
      BY <3>1 DEF Unmoved, Staying
  <2>8. Unmoved(in, old, new, ns) = Picked(in, K)
    BY <2>6 DEF Unmoved
  <2> HIDE DEF kept, fresh, Old, New
  <2>9. K = {p \in 1..Len(in) : in[p].id \in Old}
    OBVIOUS
  <2> HIDE DEF K
  <2>10. Picked(in, K) = kept
    BY <2>1, <2>2, <2>3, <2>9, MergeKeepsOrder
  <2> QED
    BY <2>7, <2>8, <2>10
<1> QED
  BY <1>4, <1>5

\* An update refiles every candidate tier, from rows' old keys to their new ones.
LEMMA UpdateRefiles ==
    ASSUME ParityInv, ParityInv', NEW C \in Seq(Signatures), Update(C), NEW t \in Tables
    PROVE  /\ pyCand'[t] = Refiled(pyCand[t], pyKeys[t], pyKeys'[t], pyStatic, pyPoints - pyStatic)
           /\ CanRefile(pyCand[t], pyKeys[t], pyKeys'[t], pyStatic, pyPoints - pyStatic)
<1> DEFINE P == pyPts'
           k == pyPoints - pyStatic
           new == KeysOf(P, pyStatic, pyPoints)
           moved == Changed(pyKeys[t], new[t], k)
<1>1. /\ pyPts \in Seq(Signatures) /\ pyPoints = Len(pyPts) /\ pyStatic \in 0..Len(pyPts)
      /\ pyIds = Py!IdRange(pyStatic, pyPoints)
      /\ pyKeys = KeysOf(pyPts, pyStatic, Len(pyPts))
      /\ Filed(pyCand, pyPts, pyStatic, Len(pyPts))
  BY DEF ParityInv, PyInv
<1>2. /\ P \in Seq(Signatures) /\ pyPoints' = Len(P) /\ pyStatic' \in 0..Len(P)
      /\ pyKeys' = KeysOf(P, pyStatic', pyPoints')
  BY DEF ParityInv, PyInv
<1>3. pyStatic \in Nat /\ pyPoints \in Nat
  BY <1>1, LenProperties
<1>4. /\ pyPoints' = pyPoints /\ pyStatic' = pyStatic
      /\ pyCand' = [u \in Tables |->
                       IF Py!MovedRows(Py!TierKeys(P, pyIds), u) = {} THEN pyCand[u]
                       ELSE Py!NumpyInsert(Py!Kept(Py!TierKeys(P, pyIds), u),
                                           Py!Fresh(Py!TierKeys(P, pyIds), u))]
  BY DEF Update, Py!Update
<1>5. Py!TierKeys(P, pyIds) = new
  BY <1>1, <1>3, RowKeys
<1>6. pyKeys' = new
  BY <1>2, <1>4
<1>7. /\ Py!MovedRows(new, t) = moved
      /\ Py!Kept(new, t) = Staying(pyCand[t], moved, pyStatic)
      /\ Py!Fresh(new, t) = Moving(new[t], moved, pyStatic)
  <2> HIDE DEF P
  <2> QED
    BY UpdateParts
<1> HIDE DEF P, new
<1>8. pyCand'[t] = IF Py!MovedRows(new, t) = {} THEN pyCand[t]
                   ELSE Py!NumpyInsert(Py!Kept(new, t), Py!Fresh(new, t))
  BY <1>4, <1>5
<1>9. pyCand'[t] = IF moved = {} THEN pyCand[t]
                   ELSE NumpyInsert(Staying(pyCand[t], moved, pyStatic),
                                    Moving(new[t], moved, pyStatic))
  BY <1>7, <1>8, SameOps
<1>10. pyCand'[t] = Refiled(pyCand[t], pyKeys[t], pyKeys'[t], pyStatic, k)
  BY <1>6, <1>9 DEF Refiled
<1>11. /\ pyStatic \in Nat /\ k \in Nat /\ pyKeys[t] \in [1..k -> Int]
       /\ Tier(pyCand[t], Ids(pyStatic, pyStatic + k)) /\ KeyedBy(pyCand[t], pyKeys[t], pyStatic)
  BY <1>1, FiledByRow
<1>12. pyKeys'[t] \in [1..k -> Int]
  <2>1. Filed(pyCand', P, pyStatic', Len(P))
    BY <1>2 DEF ParityInv, PyInv, P
  <2>2. pyKeys'[t] = KeysOf(P, pyStatic', Len(P))[t] /\ k = Len(P) - pyStatic'
    BY <1>2, <1>4
  <2> QED
    BY <1>2, <2>1, <2>2, FiledByRow
<1> QED
  BY <1>10, <1>11, <1>12 DEF CanRefile

\* Entries an update does not move keep their order, in the compiled core and,
\* its tables being the same, in the reference.
THEOREM OrderKept == Spec => UpdateKeepsOrder
<1> DEFINE Kept(tier, t) ==
              Picked(tier, {p \in DOMAIN tier : rsKeys'[t][tier[p].id - rsStatic + 1]
                                                   = rsKeys[t][tier[p].id - rsStatic + 1]})
<1>1. ASSUME ParityInv, ParityInv', Next, UNCHANGED <<rsPoints, rsStatic>>, NEW t \in Tables
      PROVE  Kept(rsCand'[t], t) = Kept(rsCand[t], t)
  <2>1. /\ rsPoints = pyPoints /\ rsStatic = pyStatic /\ rsKeys = pyKeys /\ rsCand = pyCand
        /\ rsPoints' = pyPoints' /\ rsStatic' = pyStatic' /\ rsKeys' = pyKeys' /\ rsCand' = pyCand'
    BY <1>1 DEF ParityInv, RsFollows
  <2>2. ASSUME NEW P \in Batches(MaxPoints) \ {<<>>}, NEW ns \in 0..Len(P), Build(P, ns)
        PROVE  FALSE
    <3>1. P \in Seq(Signatures) /\ P # <<>>
      BY <2>2, BatchFacts
    <3>2. Len(P) # 0
      BY <3>1, EmptySeq
    <3>3. pyPoints = 0 /\ pyPoints' = Len(P)
      BY <2>2 DEF Build, Py!Build
    <3> QED
      BY <1>1, <2>1, <3>2, <3>3
  <2>3. ASSUME NEW C \in Batches(MaxPoints), Promote(C)
        PROVE  rsCand'[t] = rsCand[t]
    <3>1. pyStatic' = pyPoints
      BY <2>3 DEF Promote, Py!Promote
    <3>2. pyStatic = pyPoints /\ pyStatic' = pyPoints'
      BY <1>1, <2>1, <3>1
    <3>3. Tier(pyCand[t], Ids(pyStatic, pyPoints)) /\ Tier(pyCand'[t], Ids(pyStatic', pyPoints'))
      BY <1>1 DEF ParityInv, PyInv, Filed
    <3>4. pyPoints \in Nat /\ pyPoints' \in Nat
      BY <1>1, LenProperties DEF ParityInv, PyInv
    <3>5. Ids(pyStatic, pyPoints) = {} /\ Ids(pyStatic', pyPoints') = {}
      <4>1. \A n \in Nat : Ids(n, n) = {}
        BY DEF Ids
      <4> QED
        BY <3>2, <3>4, <4>1
    <3>6. /\ pyCand[t] \in Seq(EntryType) /\ Len(pyCand[t]) = Cardinality({})
          /\ pyCand'[t] \in Seq(EntryType) /\ Len(pyCand'[t]) = Cardinality({})
      BY <3>3, <3>5, TierFacts
    <3>7. Len(pyCand[t]) = 0 /\ Len(pyCand'[t]) = 0
      BY <3>6, FS_EmptySet
    <3> QED
      BY <2>1, <3>6, <3>7, EmptySeq
  <2>4. ASSUME NEW C \in Batches(MaxPoints), Promote(C)
        PROVE  Kept(rsCand'[t], t) = Kept(rsCand[t], t)
    BY <2>3, <2>4
  <2>5. ASSUME NEW C \in Batches(MaxPoints), Update(C)
        PROVE  Kept(rsCand'[t], t) = Kept(rsCand[t], t)
    <3>1. C \in Seq(Signatures)
      BY BatchFacts
    <3>2. /\ pyCand'[t] = Refiled(pyCand[t], pyKeys[t], pyKeys'[t], pyStatic, pyPoints - pyStatic)
          /\ CanRefile(pyCand[t], pyKeys[t], pyKeys'[t], pyStatic, pyPoints - pyStatic)
      BY <1>1, <2>5, <3>1, UpdateRefiles
    <3>3. Unmoved(pyCand'[t], pyKeys[t], pyKeys'[t], pyStatic)
            = Unmoved(pyCand[t], pyKeys[t], pyKeys'[t], pyStatic)
      BY <3>2, RefiledInOrder
    <3>4. \A tier : Kept(tier, t) = Unmoved(tier, rsKeys[t], rsKeys'[t], rsStatic)
      BY DEF Unmoved
    <3>5. Unmoved(rsCand'[t], rsKeys[t], rsKeys'[t], rsStatic)
            = Unmoved(rsCand[t], rsKeys[t], rsKeys'[t], rsStatic)
      BY <2>1, <3>3
    <3> QED
      BY ONLY <3>4, <3>5
  <2> QED
    BY <1>1, <2>2, <2>4, <2>5 DEF Next
<1>2. ParityInv /\ ParityInv' /\ [Next]_vars
        => [UNCHANGED <<rsPoints, rsStatic>> => \A t \in Tables : Kept(rsCand'[t], t) = Kept(rsCand[t], t)]_vars
  BY <1>1
<1> QED
  BY <1>2, ParityHolds, PTL DEF Spec, UpdateKeepsOrder

-----------------------------------------------------------------------------
\* Joining two sequences brings together their elements, and nothing else.
Joins(all, u, v) ==
    /\ DOMAIN all = 1..Len(all)
    /\ \A j \in 1..Len(all) : \/ \E a \in 1..Len(u) : all[j] = u[a]
                              \/ \E b \in 1..Len(v) : all[j] = v[b]
    /\ \A a \in 1..Len(u) : \E j \in 1..Len(all) : all[j] = u[a]
    /\ \A b \in 1..Len(v) : \E j \in 1..Len(all) : all[j] = v[b]

LEMMA JoinedTiers ==
    ASSUME NEW T, NEW u \in Seq(T), NEW v \in Seq(T)
    PROVE  Joins(u \o v, u, v)
<1> DEFINE all == u \o v
           p == Len(u)
           q == Len(v)
<1>1. /\ all \in Seq(T) /\ p \in Nat /\ q \in Nat /\ Len(all) = p + q
      /\ \A i \in 1..(p + q) : all[i] = IF i <= p THEN u[i] ELSE v[i - p]
  BY ConcatProperties, LenProperties
<1>2. DOMAIN all = 1..Len(all)
  BY <1>1, LenProperties
<1> HIDE DEF all, p, q
<1>3. ASSUME NEW j \in 1..(p + q)
      PROVE  \/ \E a \in 1..p : all[j] = u[a]
             \/ \E b \in 1..q : all[j] = v[b]
  <2>1. CASE j <= p
    BY <1>1, <2>1
  <2>2. CASE ~(j <= p)
    <3> DEFINE b == j - p
    <3>1. b \in 1..q /\ all[j] = v[b]
      BY <1>1, <2>2
    <3> HIDE DEF b
    <3> QED
      BY <3>1
  <2> QED
    BY <2>1, <2>2
<1>4. ASSUME NEW a \in 1..p PROVE \E j \in 1..(p + q) : all[j] = u[a]
  <2>1. a \in 1..(p + q) /\ a <= p
    BY <1>1
  <2> QED
    BY <1>1, <2>1
<1>5. ASSUME NEW b \in 1..q PROVE \E j \in 1..(p + q) : all[j] = v[b]
  <2> DEFINE j == b + p
  <2>1. j \in 1..(p + q) /\ ~(j <= p) /\ j - p = b
    BY <1>1
  <2> HIDE DEF j
  <2>2. all[j] = v[b]
    BY <1>1, <2>1
  <2> QED
    BY <2>1, <2>2
<1>6. Joins(all, u, v)
  BY <1>1, <1>2, <1>3, <1>4, <1>5 DEF Joins, p, q
<1> QED
  BY <1>6 DEF all

\* Where the sorted tables file every id is its signature.
LEMMA FiledInIsPoints ==
    ASSUME NEW P \in Seq(Signatures), NEW n, n = Len(P), NEW ns \in 0..n,
           NEW s, NEW c, Filed(s, P, 0, ns), Filed(c, P, ns, n)
    PROVE  FiledIn(s, c, n) = P
<1> DEFINE found(i, t) == CHOOSE e \in ToSet(s[t] \o c[t]) : e.id = i - 1
<1>1. n \in Nat /\ ns \in Nat /\ ns <= n /\ P \in [1..n -> Signatures]
  BY LenProperties
<1>2. ASSUME NEW i \in 1..n, NEW t \in Tables PROVE found(i, t).key = P[i][t]
  <2> DEFINE all == s[t] \o c[t]
             x == i - 1
  <2>1. /\ Tier(s[t], Ids(0, ns)) /\ Tier(c[t], Ids(ns, n))
        /\ \A j \in 1..Len(s[t]) : s[t][j].key = P[s[t][j].id + 1][t]
        /\ \A j \in 1..Len(c[t]) : c[t][j].key = P[c[t][j].id + 1][t]
    BY DEF Filed
  <2>2. s[t] \in Seq(EntryType) /\ \A y \in Ids(0, ns) : \E j \in 1..Len(s[t]) : s[t][j].id = y
    BY <2>1, TierFacts
  <2>3. c[t] \in Seq(EntryType) /\ \A y \in Ids(ns, n) : \E j \in 1..Len(c[t]) : c[t][j].id = y
    <3>1. Tier(c[t], Ids(ns, n))
      BY <2>1
    <3> QED
      BY ONLY <3>1, TierFacts
  <2>4. Joins(all, s[t], c[t])
    <3>1. Joins(s[t] \o c[t], s[t], c[t])
      BY ONLY <2>2, <2>3, JoinedTiers
    <3> QED
      BY <3>1
  <2> HIDE DEF all
  <2>5. /\ \A j \in 1..Len(all) : all[j].key = P[all[j].id + 1][t]
        /\ \E j \in 1..Len(all) : all[j].id = x
    <3> DEFINE Good(e) == e.key = P[e.id + 1][t]
    <3>a. /\ \A j \in 1..Len(s[t]) : Good(s[t][j])
          /\ \A j \in 1..Len(c[t]) : Good(c[t][j])
      BY ONLY <2>1
    <3>b. \A j \in 1..Len(all) : \/ \E a \in 1..Len(s[t]) : all[j] = s[t][a]
                                \/ \E b \in 1..Len(c[t]) : all[j] = c[t][b]
      BY ONLY <2>4 DEF Joins
    <3> HIDE DEF Good
    <3>c. \A j \in 1..Len(all) : Good(all[j])
      BY ONLY <3>a, <3>b
    <3>1. \A j \in 1..Len(all) : all[j].key = P[all[j].id + 1][t]
      BY ONLY <3>c DEF Good
    <3>2. x \in Ids(0, ns) \/ x \in Ids(ns, n)
      BY <1>1 DEF Ids
    <3>3. \/ \E a \in 1..Len(s[t]) : s[t][a].id = x
          \/ \E b \in 1..Len(c[t]) : c[t][b].id = x
      BY <2>2, <2>3, <3>2
    <3>4. \E j \in 1..Len(all) : all[j].id = x
      BY <2>4, <3>3 DEF Joins
    <3> QED
      BY <3>1, <3>4
  <2>6. ToSet(all) = {all[j] : j \in 1..Len(all)}
    BY <2>4 DEF ToSet, Joins
  <2>7. found(i, t) = CHOOSE e \in ToSet(all) : e.id = x
    BY DEF all
  <2> DEFINE e == found(i, t)
  <2> HIDE DEF found, x
  <2>8. e \in ToSet(all) /\ e.id = x
    BY <2>5, <2>6, <2>7
  <2>9. e.key = P[e.id + 1][t]
    BY <2>5, <2>6, <2>8
  <2> QED
    BY <2>8, <2>9 DEF x
<1>3. FiledIn(s, c, n) = [i \in 1..n |-> [t \in Tables |-> found(i, t).key]]
  BY DEF FiledIn
<1> HIDE DEF found
<1>4. ASSUME NEW i \in 1..n PROVE P[i] = [t \in Tables |-> found(i, t).key]
  <2>1. P[i] \in [Tables -> Keys]
    BY <1>1 DEF Signatures
  <2> QED
    BY <1>2, <2>1
<1>5. P = [i \in 1..n |-> P[i]]
  BY <1>1
<1> QED
  BY <1>3, <1>4, <1>5

\* Each backend, seen through where its tables file every id, makes the calls of
\* the index contract: build files what it is given, update re-files the candidates
\* and no one else, promote freezes them and files the new batch.
THEOREM TablesImplementIndex == Spec => ImplementIndex
<1> DEFINE Calls ==
              /\ \A P \in Batches(MaxPoints) : \A ns \in 0..Len(P) :
                    Build(P, ns) => PyIx!Build(P, ns) /\ RsIx!Build(P, ns)
              /\ \A C \in Batches(MaxPoints) :
                    /\ Update(C) => PyIx!Update(C) /\ RsIx!Update(C)
                    /\ Promote(C) => PyIx!Promote(C) /\ RsIx!Promote(C)
           filedPy == FiledIn(pyStat, pyCand, pyPoints)
           filedRs == FiledIn(rsStat, rsCand, rsPoints)
<1>1. Init => PyIx!Init /\ RsIx!Init
  <2> SUFFICES ASSUME Init PROVE PyIx!Init /\ RsIx!Init
    OBVIOUS
  <2>1. pyPoints = 0 /\ pyStatic = 0 /\ rsPoints = 0 /\ rsStatic = 0
    BY DEF Init, Py!Init, Rs!Init
  <2>2. \A s, c : FiledIn(s, c, 0) = <<>>
    BY DEF FiledIn
  <2> QED
    BY <2>1, <2>2 DEF PyIx!Init, RsIx!Init
<1>2. ParityInv => filedPy = pyPts /\ filedRs = pyPts /\ rsStatic = pyStatic /\ rsPoints = pyPoints
  <2> SUFFICES ASSUME ParityInv
               PROVE  filedPy = pyPts /\ filedRs = pyPts /\ rsStatic = pyStatic /\ rsPoints = pyPoints
    OBVIOUS
  <2>1. /\ pyPts \in Seq(Signatures) /\ pyPoints = Len(pyPts) /\ pyStatic \in 0..pyPoints
        /\ Filed(pyStat, pyPts, 0, pyStatic) /\ Filed(pyCand, pyPts, pyStatic, pyPoints)
    BY DEF ParityInv, PyInv
  <2>2. filedPy = pyPts
    BY <2>1, FiledInIsPoints
  <2>3. rsStat = pyStat /\ rsCand = pyCand /\ rsPoints = pyPoints /\ rsStatic = pyStatic
    BY DEF ParityInv, RsFollows
  <2> QED
    BY <2>2, <2>3
<1>3. ParityInv' => filedPy' = pyPts' /\ filedRs' = pyPts' /\ rsStatic' = pyStatic'
  <2> SUFFICES ASSUME ParityInv'
               PROVE  filedPy' = pyPts' /\ filedRs' = pyPts' /\ rsStatic' = pyStatic'
    OBVIOUS
  <2>1. /\ pyPts' \in Seq(Signatures) /\ pyPoints' = Len(pyPts') /\ pyStatic' \in 0..pyPoints'
        /\ Filed(pyStat', pyPts', 0, pyStatic') /\ Filed(pyCand', pyPts', pyStatic', pyPoints')
    BY DEF ParityInv, PyInv
  <2>2. FiledIn(pyStat', pyCand', pyPoints') = pyPts'
    BY <2>1, FiledInIsPoints
  <2>3. filedPy' = FiledIn(pyStat', pyCand', pyPoints')
    BY DEF FiledIn
  <2>4. rsStat' = pyStat' /\ rsCand' = pyCand' /\ rsPoints' = pyPoints' /\ rsStatic' = pyStatic'
    BY DEF ParityInv, RsFollows
  <2>5. filedRs' = FiledIn(rsStat', rsCand', rsPoints')
    BY DEF FiledIn
  <2> QED
    BY <2>2, <2>3, <2>4, <2>5
<1>4. ParityInv /\ ParityInv' => [Calls]_vars
  <2> SUFFICES ASSUME ParityInv, ParityInv' PROVE Calls
    OBVIOUS
  <2>1. /\ filedPy = pyPts /\ filedRs = pyPts /\ rsStatic = pyStatic
        /\ filedPy' = pyPts' /\ filedRs' = pyPts' /\ rsStatic' = pyStatic'
        /\ pyPoints = Len(pyPts)
    BY <1>2, <1>3 DEF ParityInv, PyInv
  <2> HIDE DEF filedPy, filedRs
  <2>2. ASSUME NEW P \in Batches(MaxPoints), NEW ns \in 0..Len(P), Build(P, ns)
        PROVE  PyIx!Build(P, ns) /\ RsIx!Build(P, ns)
    <3>1. pyPts' = P /\ pyStatic' = ns
      BY <2>2 DEF Build, Py!Build
    <3> QED
      BY <2>1, <3>1 DEF PyIx!Build, RsIx!Build, filedPy, filedRs
  <2>3. ASSUME NEW C \in Batches(MaxPoints), Update(C)
        PROVE  PyIx!Update(C) /\ RsIx!Update(C)
    <3>1. /\ Len(C) = pyPoints - pyStatic /\ pyStatic' = pyStatic
          /\ pyPts' = SubSeq(pyPts, 1, pyStatic) \o C
      BY <2>3 DEF Update, Py!Update
    <3> QED
      BY <2>1, <3>1 DEF PyIx!Update, RsIx!Update, filedPy, filedRs
  <2>4. ASSUME NEW C \in Batches(MaxPoints), Promote(C)
        PROVE  PyIx!Promote(C) /\ RsIx!Promote(C)
    <3>1. pyStatic' = pyPoints /\ pyPts' = pyPts \o C
      BY <2>4 DEF Promote, Py!Promote
    <3> QED
      BY <2>1, <3>1 DEF PyIx!Promote, RsIx!Promote, filedPy, filedRs
  <2> QED
    BY <2>2, <2>3, <2>4
<1> QED
  BY <1>1, <1>4, ParityHolds, PTL DEF Spec, ImplementIndex
=============================================================================
