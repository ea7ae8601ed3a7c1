--------------------------- MODULE TableOps_proofs ---------------------------
(***************************************************************************)
(* What the operators behind the hash tables return, for tiers of any      *)
(* length: sorting, masking, searching, and the two programs for a merge.  *)
(***************************************************************************)
EXTENDS TableOps, FunctionTheorems, FiniteSetTheorems, SequenceTheorems, TLAPS

\* A nonempty set of naturals has a least member.
LEMMA LeastNatural ==
    ASSUME NEW S \in SUBSET Nat, S # {}
    PROVE  \E n \in S : \A m \in S : n <= m
<1> DEFINE R == OpToRel(<, Nat)
<1>1. IsWellFoundedOn(R, Nat)
  BY NatLessThanWellFounded
<1>2. \A x, y \in Nat : <<y, x>> \in R <=> y < x
  BY DEF OpToRel
<1> HIDE DEF R
<1>3. PICK n \in S : \A m \in S : <<m, n>> \notin R
  BY <1>1, WFMin
<1>4. \A m \in S : ~(m < n)
  BY <1>2, <1>3
<1>5. \A m \in S : n <= m
  BY <1>4
<1> QED
  BY <1>5

-----------------------------------------------------------------------------
\* Before[x] holds what precedes x in a strict total order of S.
StrictlyOrders(Before, S) ==
    /\ IsFiniteSet(S) /\ Before \in [S -> SUBSET S]
    /\ \A x \in S : x \notin Before[x]
    /\ \A x, y \in S : x = y \/ x \in Before[y] \/ y \in Before[x]
    /\ \A x, y, z \in S : x \in Before[y] /\ y \in Before[z] => x \in Before[z]

\* In a finite strict total order every element has its own rank.
LEMMA RankFacts ==
    ASSUME NEW S, NEW Before, StrictlyOrders(Before, S)
    PROVE  \E rank \in Bijection(S, 1..Cardinality(S)) :
              /\ \A x \in S : Cardinality(Before[x]) = rank[x] - 1
              /\ \A x, y \in S : x \in Before[y] <=> rank[x] < rank[y]
<1> DEFINE n == Cardinality(S)
           rank == [x \in S |-> Cardinality(Before[x]) + 1]
<1>a. /\ IsFiniteSet(S) /\ Before \in [S -> SUBSET S]
      /\ \A x \in S : x \notin Before[x]
      /\ \A x, y \in S : x = y \/ x \in Before[y] \/ y \in Before[x]
      /\ \A x, y, z \in S : x \in Before[y] /\ y \in Before[z] => x \in Before[z]
  BY DEF StrictlyOrders
<1>1. n \in Nat
  BY <1>a, FS_CardinalityType
<1> USE <1>a
<1>2. ASSUME NEW x \in S PROVE IsFiniteSet(Before[x]) /\ Cardinality(Before[x]) \in 0..(n - 1)
  <2>1. Before[x] \subseteq S \ {x}
    OBVIOUS
  <2>2. IsFiniteSet(S \ {x}) /\ Cardinality(S \ {x}) = n - 1
    BY FS_RemoveElement
  <2>3. IsFiniteSet(Before[x]) /\ Cardinality(Before[x]) <= n - 1
    BY <2>1, <2>2, FS_Subset
  <2> QED
    BY <1>1, <2>3, FS_CardinalityType
<1>3. ASSUME NEW x \in S, NEW y \in S, x \in Before[y]
      PROVE  Cardinality(Before[x]) < Cardinality(Before[y])
  <2>1. Before[x] \cup {x} \subseteq Before[y] /\ x \notin Before[x]
    BY <1>3
  <2>2. /\ IsFiniteSet(Before[x] \cup {x})
        /\ Cardinality(Before[x] \cup {x}) = Cardinality(Before[x]) + 1
    BY <1>2, <2>1, FS_AddElement
  <2>3. Cardinality(Before[x]) + 1 <= Cardinality(Before[y])
    BY <1>2, <2>1, <2>2, FS_Subset
  <2>4. Cardinality(Before[x]) \in Nat /\ Cardinality(Before[y]) \in Nat
    BY <1>2, FS_CardinalityType
  <2> QED
    BY <2>3, <2>4
<1>4. rank \in [S -> 1..n]
  <2> HIDE DEF n
  <2>1. \A x \in S : Cardinality(Before[x]) + 1 \in 1..n
    BY <1>1, <1>2
  <2> QED
    BY <2>1
<1>5. \A x, y \in S : x \in Before[y] <=> rank[x] < rank[y]
  <2> SUFFICES ASSUME NEW x \in S, NEW y \in S
               PROVE  x \in Before[y] <=> rank[x] < rank[y]
    OBVIOUS
  <2>1. rank[x] = Cardinality(Before[x]) + 1 /\ rank[y] = Cardinality(Before[y]) + 1
    OBVIOUS
  <2>2. Cardinality(Before[x]) \in Nat /\ Cardinality(Before[y]) \in Nat
    BY <1>2, FS_CardinalityType
  <2>3. x \in Before[y] => Cardinality(Before[x]) < Cardinality(Before[y])
    BY <1>3
  <2>4. y \in Before[x] => Cardinality(Before[y]) < Cardinality(Before[x])
    BY <1>3
  <2>5. x = y \/ x \in Before[y] \/ y \in Before[x]
    OBVIOUS
  <2>6. x = y => rank[x] = rank[y]
    OBVIOUS
  <2> HIDE DEF rank
  <2> QED
    BY <2>1, <2>2, <2>3, <2>4, <2>5, <2>6
<1>6. \A x, y \in S : rank[x] = rank[y] => x = y
  <2> HIDE DEF rank, n
  <2>1. \A x \in S : rank[x] \in Int
    BY <1>4
  <2>2. \A x, y \in S : rank[x] = rank[y] => ~(rank[x] < rank[y]) /\ ~(rank[y] < rank[x])
    BY <2>1
  <2> QED
    BY <1>5, <2>2
<1> HIDE DEF rank
<1>7. rank \in Injection(S, 1..n)
  BY <1>4, <1>6, Fun_IsInj
<1>8. IsFiniteSet(1..n) /\ Cardinality(1..n) = n
  BY <1>1, FS_Interval
<1>9. rank \in Surjection(S, 1..n)
  BY <1>7, <1>8, FS_Injection
<1>10. rank \in Bijection(S, 1..n)
  BY <1>7, <1>9 DEF Bijection
<1>11. \A x \in S : Cardinality(Before[x]) = rank[x] - 1
  <2> SUFFICES ASSUME NEW x \in S PROVE Cardinality(Before[x]) = rank[x] - 1
    OBVIOUS
  <2>1. Cardinality(Before[x]) \in Nat
    BY <1>2, FS_CardinalityType
  <2>2. rank[x] = Cardinality(Before[x]) + 1
    BY DEF rank
  <2> QED
    BY <2>1, <2>2
<1> QED
  BY <1>5, <1>10, <1>11

\* The i-th place is for the element that i - 1 others precede.
TakesByRank(s, Before, S, T) ==
    /\ s \in [1..Cardinality(S) -> T]
    /\ \A i \in 1..Cardinality(S) :
           (\E x \in S : Cardinality(Before[x]) = i - 1)
               => s[i] \in S /\ Cardinality(Before[s[i]]) = i - 1

\* So listing a set by rank lists all of it, each element once, in order.
LEMMA ListedByRank ==
    ASSUME NEW S, NEW Before, StrictlyOrders(Before, S),
           NEW T, NEW s, TakesByRank(s, Before, S, T)
    PROVE  /\ Cardinality(S) \in Nat
           /\ s \in [1..Cardinality(S) -> S]
           /\ \A x \in S : \E i \in 1..Cardinality(S) : s[i] = x
           /\ \A i, j \in 1..Cardinality(S) : s[i] \in Before[s[j]] <=> i < j
           /\ \A i, j \in 1..Cardinality(S) : s[i] = s[j] => i = j
<1> DEFINE n == Cardinality(S)
<1>a. IsFiniteSet(S) /\ Before \in [S -> SUBSET S]
  BY DEF StrictlyOrders
<1>1. n \in Nat
  BY <1>a, FS_CardinalityType
<1>2. PICK rank \in Bijection(S, 1..n) :
        /\ \A x \in S : Cardinality(Before[x]) = rank[x] - 1
        /\ \A x, y \in S : x \in Before[y] <=> rank[x] < rank[y]
  BY RankFacts
<1>b. s \in [1..n -> T]
  BY DEF TakesByRank
<1> HIDE DEF n
<1>3. /\ \A x \in S : rank[x] \in 1..n
      /\ \A x, y \in S : rank[x] = rank[y] => x = y
      /\ \A i \in 1..n : \E x \in S : rank[x] = i
  <2>1. rank \in [S -> 1..n]
    BY Fun_BijectionProperties
  <2>2. \A x, y \in S : rank[x] = rank[y] => x = y
    BY Fun_BijectionProperties
  <2>3. \A i \in 1..n : \E x \in S : rank[x] = i
    <3>1. rank \in Surjection(S, 1..n)
      BY Fun_BijectionProperties
    <3> QED
      BY <3>1 DEF Surjection
  <2> QED
    BY <2>1, <2>2, <2>3
<1>4. \A i \in 1..n : s[i] \in S /\ rank[s[i]] = i
  <2> SUFFICES ASSUME NEW i \in 1..n PROVE s[i] \in S /\ rank[s[i]] = i
    OBVIOUS
  <2>1. PICK x \in S : rank[x] = i
    BY <1>3
  <2>2. Cardinality(Before[x]) = i - 1
    BY <1>2, <2>1
  <2>4. s[i] \in S /\ Cardinality(Before[s[i]]) = i - 1
    BY <2>2 DEF n, TakesByRank
  <2>5. rank[s[i]] - 1 = i - 1 /\ rank[s[i]] \in Int /\ i \in Int
    BY <1>1, <1>2, <1>3, <2>4
  <2> QED
    BY <2>4, <2>5
<1>5. s \in [1..n -> S]
  <2>1. DOMAIN s = 1..n
    BY <1>b
  <2> QED
    BY <1>b, <1>4, <2>1
<1>6. ASSUME NEW x \in S PROVE \E i \in 1..n : s[i] = x
  <2>1. rank[x] \in 1..n
    BY <1>3
  <2>2. s[rank[x]] \in S /\ rank[s[rank[x]]] = rank[x]
    BY <1>4, <2>1
  <2>3. s[rank[x]] = x
    BY <1>3, <2>2
  <2> QED
    BY <2>1, <2>3
<1>7. \A i, j \in 1..n : s[i] \in Before[s[j]] <=> i < j
  <2> SUFFICES ASSUME NEW i \in 1..n, NEW j \in 1..n
               PROVE  s[i] \in Before[s[j]] <=> i < j
    OBVIOUS
  <2>1. s[i] \in S /\ rank[s[i]] = i /\ s[j] \in S /\ rank[s[j]] = j
    BY <1>4
  <2>2. s[i] \in Before[s[j]] <=> rank[s[i]] < rank[s[j]]
    BY <1>2, <2>1
  <2> QED
    BY <2>1, <2>2
<1>8. \A i, j \in 1..n : s[i] = s[j] => i = j
  <2> SUFFICES ASSUME NEW i \in 1..n, NEW j \in 1..n, s[i] = s[j] PROVE i = j
    OBVIOUS
  <2>1. rank[s[i]] = i
    BY <1>4
  <2>2. rank[s[j]] = j
    BY <1>4
  <2> QED
    BY <2>1, <2>2
<1> QED
  BY <1>1, <1>5, <1>6, <1>7, <1>8 DEF n

\* A finite set of entries in the order of a freshly sorted tier.
LEMMA OrderedEntries ==
    ASSUME NEW S \in SUBSET EntryType, IsFiniteSet(S),
           NEW T, NEW s \in [1..Cardinality(S) -> T],
           \A i \in 1..Cardinality(S) : \A x \in S :
              Cardinality({y \in S : KeyThenId(y, x)}) = i - 1
                 => s[i] \in S /\ Cardinality({y \in S : KeyThenId(y, s[i])}) = i - 1
    PROVE  /\ Cardinality(S) \in Nat
           /\ s \in [1..Cardinality(S) -> S]
           /\ \A x \in S : \E i \in 1..Cardinality(S) : s[i] = x
           /\ \A i, j \in 1..Cardinality(S) : KeyThenId(s[i], s[j]) <=> i < j
           /\ \A i, j \in 1..Cardinality(S) : s[i] = s[j] => i = j
<1> DEFINE Before == [x \in S |-> {y \in S : KeyThenId(y, x)}]
<1>1. Before \in [S -> SUBSET S] /\ \A x, y \in S : x \in Before[y] <=> KeyThenId(x, y)
  OBVIOUS
<1>2. \A x \in S : x.key \in Int /\ x.id \in Int
  BY DEF EntryType
<1>3. \A x, y \in S : x.key = y.key /\ x.id = y.id => x = y
  BY DEF EntryType
<1>4. \A i \in 1..Cardinality(S) :
         (\E x \in S : Cardinality(Before[x]) = i - 1)
            => s[i] \in S /\ Cardinality(Before[s[i]]) = i - 1
  OBVIOUS
<1> HIDE DEF Before
<1>5. \A x \in S : x \notin Before[x]
  BY <1>1, <1>2 DEF KeyThenId
<1>6. \A x, y \in S : x = y \/ x \in Before[y] \/ y \in Before[x]
  <2> SUFFICES ASSUME NEW x \in S, NEW y \in S
               PROVE  x = y \/ x \in Before[y] \/ y \in Before[x]
    OBVIOUS
  <2> QED
    BY <1>1, <1>2, <1>3 DEF KeyThenId
<1>7. \A x, y, z \in S : x \in Before[y] /\ y \in Before[z] => x \in Before[z]
  BY <1>1, <1>2 DEF KeyThenId
<1>8. /\ Cardinality(S) \in Nat
      /\ s \in [1..Cardinality(S) -> S]
      /\ \A x \in S : \E i \in 1..Cardinality(S) : s[i] = x
      /\ \A i, j \in 1..Cardinality(S) : s[i] \in Before[s[j]] <=> i < j
      /\ \A i, j \in 1..Cardinality(S) : s[i] = s[j] => i = j
  <2>1. StrictlyOrders(Before, S)
    BY <1>1, <1>5, <1>6, <1>7 DEF StrictlyOrders
  <2>2. TakesByRank(s, Before, S, T)
    BY <1>4 DEF TakesByRank
  <2> QED
    BY <2>1, <2>2, ListedByRank
<1> QED
  BY <1>1, <1>8

\* A finite set of places, ascending.
LEMMA OrderedPlaces ==
    ASSUME NEW S, IsFiniteSet(S), \A x \in S : x \in Int,
           NEW T, NEW s \in [1..Cardinality(S) -> T],
           \A i \in 1..Cardinality(S) : \A x \in S :
              Cardinality({y \in S : Below(y, x)}) = i - 1
                 => s[i] \in S /\ Cardinality({y \in S : Below(y, s[i])}) = i - 1
    PROVE  /\ Cardinality(S) \in Nat
           /\ s \in [1..Cardinality(S) -> S]
           /\ \A x \in S : \E i \in 1..Cardinality(S) : s[i] = x
           /\ \A i, j \in 1..Cardinality(S) : s[i] < s[j] <=> i < j
<1> DEFINE Before == [x \in S |-> {y \in S : Below(y, x)}]
<1>1. Before \in [S -> SUBSET S] /\ \A x, y \in S : x \in Before[y] <=> Below(x, y)
  OBVIOUS
<1>2. \A i \in 1..Cardinality(S) :
         (\E x \in S : Cardinality(Before[x]) = i - 1)
            => s[i] \in S /\ Cardinality(Before[s[i]]) = i - 1
  OBVIOUS
<1> HIDE DEF Before
<1>3. \A x \in S : x \notin Before[x]
  BY <1>1 DEF Below
<1>4. \A x, y \in S : x = y \/ x \in Before[y] \/ y \in Before[x]
  BY <1>1 DEF Below
<1>5. \A x, y, z \in S : x \in Before[y] /\ y \in Before[z] => x \in Before[z]
  BY <1>1 DEF Below
<1>6. /\ Cardinality(S) \in Nat
      /\ s \in [1..Cardinality(S) -> S]
      /\ \A x \in S : \E i \in 1..Cardinality(S) : s[i] = x
      /\ \A i, j \in 1..Cardinality(S) : s[i] \in Before[s[j]] <=> i < j
      /\ \A i, j \in 1..Cardinality(S) : s[i] = s[j] => i = j
  <2>1. StrictlyOrders(Before, S)
    BY <1>1, <1>3, <1>4, <1>5 DEF StrictlyOrders
  <2>2. TakesByRank(s, Before, S, T)
    BY <1>2 DEF TakesByRank
  <2> QED
    BY <2>1, <2>2, ListedByRank
<1> QED
  BY <1>1, <1>6 DEF Below

\* The k places, in ascending order.
Lists(place, places, k) ==
    /\ place \in [1..k -> places]
    /\ \A p \in places : \E i \in 1..k : place[i] = p
    /\ \A i, j \in 1..k : place[i] < place[j] <=> i < j

\* A finite set of numbers, ascending.
LEMMA AscendingFacts ==
    ASSUME NEW places, IsFiniteSet(places), \A x \in places : x \in Int
    PROVE  /\ Cardinality(places) \in Nat
           /\ Lists(Ordered(places, Below), places, Cardinality(places))
           /\ DOMAIN Ordered(places, Below) = 1..Cardinality(places)
<1> DEFINE n == Cardinality(places)
           nth(i) == CHOOSE x \in places : Cardinality({y \in places : Below(y, x)}) = i - 1
           place == [i \in 1..n |-> nth(i)]
           all == {nth(i) : i \in 1..n}
<1>1. Ordered(places, Below) = place
  BY DEF Ordered
<1>2. ASSUME NEW i \in 1..n, NEW x \in places, Cardinality({y \in places : Below(y, x)}) = i - 1
      PROVE  nth(i) \in places /\ Cardinality({y \in places : Below(y, nth(i))}) = i - 1
  BY <1>2
<1> HIDE DEF nth
<1>3. place \in [1..n -> all] /\ \A i \in 1..n : place[i] = nth(i)
  OBVIOUS
<1> HIDE DEF place, all
<1>4. \A i \in 1..n : \A x \in places :
         Cardinality({y \in places : Below(y, x)}) = i - 1
            => place[i] \in places /\ Cardinality({y \in places : Below(y, place[i])}) = i - 1
  BY <1>2, <1>3
<1>5. /\ n \in Nat
      /\ place \in [1..n -> places]
      /\ \A x \in places : \E i \in 1..n : place[i] = x
      /\ \A i, j \in 1..n : place[i] < place[j] <=> i < j
  BY <1>3, <1>4, OrderedPlaces
<1> QED
  BY <1>1, <1>5 DEF Lists

\* Masking keeps what stands at the places, and its order.
LEMMA PickedFacts ==
    ASSUME NEW T, NEW seq \in Seq(T), NEW places \in SUBSET (1..Len(seq))
    PROVE  /\ Cardinality(places) \in Nat
           /\ Picked(seq, places) \in Seq(T)
           /\ Len(Picked(seq, places)) = Cardinality(places)
           /\ \E place :
                 /\ Lists(place, places, Cardinality(places))
                 /\ \A i \in 1..Cardinality(places) : Picked(seq, places)[i] = seq[place[i]]
<1> DEFINE n == Cardinality(places)
           place == Ordered(places, Below)
<1>1. Len(seq) \in Nat
  BY LenProperties
<1>2. IsFiniteSet(1..Len(seq)) /\ \A x \in places : x \in Int
  BY <1>1, FS_Interval
<1>3. IsFiniteSet(places)
  BY <1>2, FS_Subset
<1>4. Picked(seq, places) = [i \in DOMAIN place |-> seq[place[i]]]
  BY DEF Picked
<1> HIDE DEF place
<1>5. n \in Nat /\ Lists(place, places, n) /\ DOMAIN place = 1..n
  BY <1>2, <1>3, AscendingFacts DEF place
<1>7. /\ n \in Nat
      /\ place \in [1..n -> places]
      /\ \A x \in places : \E i \in 1..n : place[i] = x
      /\ \A i, j \in 1..n : place[i] < place[j] <=> i < j
  BY <1>5 DEF Lists
<1> HIDE DEF n
<1>8. Picked(seq, places) = [i \in 1..n |-> seq[place[i]]]
  BY <1>4, <1>7
<1>9. \A i \in 1..n : seq[place[i]] \in T
  <2> SUFFICES ASSUME NEW i \in 1..n PROVE seq[place[i]] \in T
    OBVIOUS
  <2>1. place[i] \in places
    BY <1>7
  <2>2. place[i] \in 1..Len(seq)
    BY <2>1
  <2> QED
    BY <2>2, ElementOfSeq
<1>10. Picked(seq, places) \in [1..n -> T]
  BY <1>8, <1>9
<1>11. Picked(seq, places) \in Seq(T)
  BY <1>7, <1>10, SeqDef
<1>12. Len(Picked(seq, places)) = n
  BY <1>7, <1>8, <1>11, LenProperties
<1>13. Lists(place, places, n) /\ \A i \in 1..n : Picked(seq, places)[i] = seq[place[i]]
  BY <1>7, <1>8 DEF Lists
<1> QED
  BY <1>7, <1>11, <1>12, <1>13 DEF n

-----------------------------------------------------------------------------
\* A tier, and the ids it files.
Tier(tier, ids) == tier \in Seq(EntryType) /\ KeySorted(tier) /\ FilesOnce(tier, ids)

\* Its entries, place by place.
LEMMA EntryPlaces ==
    ASSUME NEW tier \in Seq(EntryType)
    PROVE  /\ Len(tier) \in Nat /\ DOMAIN tier = 1..Len(tier)
           /\ \A i \in 1..Len(tier) :
                 tier[i] \in EntryType /\ tier[i].key \in Int /\ tier[i].id \in Nat
<1>1. Len(tier) \in Nat /\ DOMAIN tier = 1..Len(tier)
  BY LenProperties
<1>2. \A i \in 1..Len(tier) : tier[i] \in EntryType
  BY ElementOfSeq
<1> QED
  BY <1>1, <1>2 DEF EntryType

\* As many ids as places means that no id is filed twice, and the other way round.
LEMMA FiledOnce ==
    ASSUME NEW tier \in Seq(EntryType), NEW ids, {tier[i].id : i \in DOMAIN tier} = ids
    PROVE  FilesOnce(tier, ids) <=> \A i, j \in 1..Len(tier) : tier[i].id = tier[j].id => i = j
<1>1. Len(tier) \in Nat /\ DOMAIN tier = 1..Len(tier)
  BY EntryPlaces
<1> DEFINE D == 1..Len(tier)
           f == [i \in D |-> tier[i].id]
<1>2. IsFiniteSet(D) /\ Cardinality(D) = Len(tier)
  BY <1>1, FS_Interval
<1>3. f \in [D -> ids] /\ \A x \in ids : \E i \in D : f[i] = x
  BY <1>1
<1>4. \A i \in D : f[i] = tier[i].id
  OBVIOUS
<1> HIDE DEF f, D
<1>5. f \in Surjection(D, ids)
  BY <1>3, Fun_IsSurj
<1>6. Cardinality(ids) = Len(tier) <=> f \in Injection(D, ids)
  BY <1>2, <1>5, FS_Surjection
<1>7. f \in Injection(D, ids) <=> \A i, j \in D : f[i] = f[j] => i = j
  <2>1. DOMAIN f = D
    BY <1>3
  <2> QED
    BY <1>3, <2>1 DEF Injection, IsInjective
<1>8. FilesOnce(tier, ids) <=> \A i, j \in D : tier[i].id = tier[j].id => i = j
  BY <1>4, <1>6, <1>7 DEF FilesOnce
<1> QED
  BY <1>8 DEF D

\* A tier's ids are finite, each at one place.
LEMMA TierFacts ==
    ASSUME NEW tier, NEW ids, Tier(tier, ids)
    PROVE  /\ tier \in Seq(EntryType) /\ Len(tier) \in Nat /\ DOMAIN tier = 1..Len(tier)
           /\ \A i \in 1..Len(tier) : tier[i] \in EntryType /\ tier[i].key \in Int
                                      /\ tier[i].id \in Nat /\ tier[i].id \in ids
           /\ \A i, j \in 1..Len(tier) : i <= j => tier[i].key <= tier[j].key
           /\ \A i, j \in 1..Len(tier) : tier[i].id = tier[j].id => i = j
           /\ \A x \in ids : \E i \in 1..Len(tier) : tier[i].id = x
           /\ Len(tier) = Cardinality(ids) /\ IsFiniteSet(ids)
<1>1. tier \in Seq(EntryType) /\ KeySorted(tier) /\ FilesOnce(tier, ids)
  BY DEF Tier
<1>2. /\ Len(tier) \in Nat /\ DOMAIN tier = 1..Len(tier)
      /\ \A i \in 1..Len(tier) :
            tier[i] \in EntryType /\ tier[i].key \in Int /\ tier[i].id \in Nat
  BY <1>1, EntryPlaces
<1>3. {tier[i].id : i \in DOMAIN tier} = ids /\ Len(tier) = Cardinality(ids)
  BY <1>1 DEF FilesOnce
<1>4. \A i, j \in 1..Len(tier) : tier[i].id = tier[j].id => i = j
  BY <1>1, <1>3, FiledOnce
<1>5. \A i, j \in 1..Len(tier) : i <= j => tier[i].key <= tier[j].key
  BY <1>1, <1>2 DEF KeySorted
<1>6. \A x \in ids : \E i \in 1..Len(tier) : tier[i].id = x
  BY <1>2, <1>3
<1>7. \A i \in 1..Len(tier) : tier[i].id \in ids
  BY <1>2, <1>3
<1>8. IsFiniteSet(ids)
  <2> DEFINE D == 1..Len(tier)
             f == [i \in D |-> tier[i].id]
  <2>1. f \in [D -> ids] /\ \A x \in ids : \E i \in D : f[i] = x
    BY <1>6, <1>7
  <2>2. IsFiniteSet(D)
    BY <1>2, FS_Interval
  <2> HIDE DEF D, f
  <2>3. f \in Surjection(D, ids)
    BY <2>1, Fun_IsSurj
  <2> QED
    BY <2>2, <2>3, FS_Surjection
<1> QED
  BY <1>1, <1>2, <1>3, <1>4, <1>5, <1>6, <1>7, <1>8

\* Entries of different ids, sorted, are a tier.
LEMMA SortedTier ==
    ASSUME NEW S \in SUBSET EntryType, IsFiniteSet(S),
           \A x, y \in S : x.id = y.id => x = y
    PROVE  /\ Tier(Ordered(S, KeyThenId), {x.id : x \in S})
           /\ \A i \in 1..Len(Ordered(S, KeyThenId)) : Ordered(S, KeyThenId)[i] \in S
<1> DEFINE n == Cardinality(S)
           nth(i) == CHOOSE x \in S : Cardinality({y \in S : KeyThenId(y, x)}) = i - 1
           s == [i \in 1..n |-> nth(i)]
           all == {nth(i) : i \in 1..n}
<1>1. Ordered(S, KeyThenId) = s
  BY DEF Ordered
<1>2. ASSUME NEW i \in 1..n, NEW x \in S, Cardinality({y \in S : KeyThenId(y, x)}) = i - 1
      PROVE  nth(i) \in S /\ Cardinality({y \in S : KeyThenId(y, nth(i))}) = i - 1
  BY <1>2
<1> HIDE DEF nth
<1>3. s \in [1..n -> all] /\ \A i \in 1..n : s[i] = nth(i)
  OBVIOUS
<1> HIDE DEF s, all
<1>4. /\ n \in Nat
      /\ s \in [1..n -> S]
      /\ \A x \in S : \E i \in 1..n : s[i] = x
      /\ \A i, j \in 1..n : KeyThenId(s[i], s[j]) <=> i < j
      /\ \A i, j \in 1..n : s[i] = s[j] => i = j
  <2>1. \A i \in 1..n : \A x \in S :
           Cardinality({y \in S : KeyThenId(y, x)}) = i - 1
              => s[i] \in S /\ Cardinality({y \in S : KeyThenId(y, s[i])}) = i - 1
    BY <1>2, <1>3
  <2>2. S \in SUBSET EntryType /\ IsFiniteSet(S) /\ s \in [1..Cardinality(S) -> all]
    BY <1>3
  <2>3. \A i \in 1..Cardinality(S) : \A x \in S :
           Cardinality({y \in S : KeyThenId(y, x)}) = i - 1
              => s[i] \in S /\ Cardinality({y \in S : KeyThenId(y, s[i])}) = i - 1
    BY <2>1
  <2> HIDE DEF n
  <2>4. /\ Cardinality(S) \in Nat
        /\ s \in [1..Cardinality(S) -> S]
        /\ \A x \in S : \E i \in 1..Cardinality(S) : s[i] = x
        /\ \A i, j \in 1..Cardinality(S) : KeyThenId(s[i], s[j]) <=> i < j
        /\ \A i, j \in 1..Cardinality(S) : s[i] = s[j] => i = j
    BY ONLY <2>2, <2>3, OrderedEntries
  <2> QED
    BY <2>4 DEF n
<1> HIDE DEF n
<1>5. s \in Seq(EntryType) /\ Len(s) = n /\ DOMAIN s = 1..n
  <2>1. s \in [1..n -> EntryType]
    BY <1>4
  <2>2. s \in Seq(EntryType) /\ DOMAIN s = 1..n
    BY <1>4, <2>1, SeqDef
  <2> QED
    BY <1>4, <2>2, LenProperties
<1>6. KeySorted(s)
  <2> SUFFICES ASSUME NEW i \in 1..n, NEW j \in 1..n, i <= j PROVE s[i].key <= s[j].key
    BY <1>5 DEF KeySorted
  <2>1. s[i].key \in Int /\ s[j].key \in Int
    BY <1>5, EntryPlaces
  <2>2. CASE i = j
    BY <2>1, <2>2
  <2>3. CASE i < j
    BY <1>4, <2>1, <2>3 DEF KeyThenId
  <2> QED
    BY <2>2, <2>3
<1>7. {s[i].id : i \in DOMAIN s} = {x.id : x \in S}
  <2>1. \A i \in DOMAIN s : s[i] \in S
    BY <1>4, <1>5
  <2>2. \A x \in S : \E i \in DOMAIN s : s[i] = x
    BY <1>4, <1>5
  <2> QED
    BY <2>1, <2>2
<1>8. \A i, j \in 1..Len(s) : s[i].id = s[j].id => i = j
  BY <1>4, <1>5
<1>9. FilesOnce(s, {x.id : x \in S})
  BY <1>5, <1>7, <1>8, FiledOnce
<1> QED
  BY <1>1, <1>4, <1>5, <1>6, <1>9 DEF Tier

\* A tier sorted from zero files every row under its key.
LEMMA SortTierFacts ==
    ASSUME NEW n \in Nat, NEW rowKeys \in [1..n -> Int], NEW id0 \in Nat
    PROVE  /\ Tier(SortTier(rowKeys, id0), id0..(id0 + n - 1))
           /\ \A i \in 1..Len(SortTier(rowKeys, id0)) :
                 SortTier(rowKeys, id0)[i].key = rowKeys[SortTier(rowKeys, id0)[i].id - id0 + 1]
<1> DEFINE e(i) == Entry(rowKeys[i], id0 + i - 1)
           S == {e(i) : i \in 1..n}
           s == SortTier(rowKeys, id0)
<1>1. \A i \in 1..n : e(i) \in EntryType /\ e(i).id = id0 + i - 1 /\ e(i).key = rowKeys[i]
  BY DEF Entry, EntryType
<1>2. s = Ordered(S, KeyThenId)
  BY DEF SortTier
<1> DEFINE f == [i \in 1..n |-> e(i)]
<1> HIDE DEF e, s
<1>3. IsFiniteSet(S)
  <2>1. f \in [1..n -> S] /\ \A x \in S : \E i \in 1..n : f[i] = x
    OBVIOUS
  <2>2. IsFiniteSet(1..n)
    BY FS_Interval
  <2> HIDE DEF f, S
  <2>3. f \in Surjection(1..n, S)
    BY <2>1, Fun_IsSurj
  <2> QED
    BY <2>2, <2>3, FS_Surjection
<1>4. S \subseteq EntryType /\ \A x, y \in S : x.id = y.id => x = y
  BY <1>1
<1>5. {x.id : x \in S} = id0..(id0 + n - 1)
  <2>1. \A x \in S : x.id \in id0..(id0 + n - 1)
    BY <1>1
  <2>2. ASSUME NEW j \in id0..(id0 + n - 1) PROVE \E x \in S : x.id = j
    <3>1. j - id0 + 1 \in 1..n
      OBVIOUS
    <3>2. e(j - id0 + 1).id = j
      BY <1>1, <3>1
    <3> QED
      BY <3>1, <3>2
  <2> HIDE DEF S
  <2> QED
    BY <2>1, <2>2
<1>6. \A x \in S : x.key = rowKeys[x.id - id0 + 1]
  <2> SUFFICES ASSUME NEW i \in 1..n PROVE e(i).key = rowKeys[e(i).id - id0 + 1]
    OBVIOUS
  <2>1. e(i).id - id0 + 1 = i
    BY <1>1
  <2> QED
    BY <1>1, <2>1
<1> HIDE DEF S
<1>7. /\ Tier(s, {x.id : x \in S})
      /\ \A i \in 1..Len(s) : s[i] \in S
  BY <1>2, <1>3, <1>4, SortedTier
<1> QED
  BY <1>5, <1>6, <1>7 DEF s

-----------------------------------------------------------------------------
\* The insertion point splits a sorted tier: smaller keys before it, the rest after.
LEMMA LowerBoundFacts ==
    ASSUME NEW tier \in Seq(EntryType), KeySorted(tier), NEW v \in Int
    PROVE  /\ LowerBound(tier, v) \in 0..Len(tier)
           /\ \A i \in 1..Len(tier) : i <= LowerBound(tier, v) <=> tier[i].key < v
<1> DEFINE at == {j \in DOMAIN tier : tier[j].key >= v}
           P == {i - 1 : i \in at} \cup {Len(tier)}
           p == LowerBound(tier, v)
<1>1. /\ Len(tier) \in Nat /\ DOMAIN tier = 1..Len(tier)
      /\ \A i \in 1..Len(tier) : tier[i].key \in Int
  BY EntryPlaces
<1>2. \A i, j \in 1..Len(tier) : i <= j => tier[i].key <= tier[j].key
  BY <1>1 DEF KeySorted
<1>3. P \in SUBSET Nat /\ P # {}
  BY <1>1
<1>4. p = CHOOSE x \in P : \A y \in P : x <= y
  BY DEF LowerBound, Min
<1> HIDE DEF P, p
<1>5. p \in P /\ \A y \in P : p <= y
  <2>1. \E x \in P : \A y \in P : x <= y
    BY <1>3, LeastNatural
  <2> QED
    BY <1>4, <2>1
<1> USE DEF P
<1>6. p \in 0..Len(tier)
  BY <1>1, <1>5
<1>7. ASSUME NEW i \in 1..Len(tier), i <= p PROVE tier[i].key < v
  <2>1. ~(i - 1 \in P)
    BY <1>5, <1>6, <1>7
  <2> QED
    BY <1>1, <2>1
<1>8. ASSUME NEW i \in 1..Len(tier), p < i PROVE ~(tier[i].key < v)
  <2>1. PICK j \in at : p = j - 1
    BY <1>1, <1>5, <1>8
  <2>2. j \in 1..Len(tier) /\ j <= i
    BY <1>1, <1>8, <2>1
  <2> QED
    BY <1>1, <1>2, <2>1, <2>2
<1> QED
  BY <1>1, <1>6, <1>7, <1>8 DEF p

-----------------------------------------------------------------------------
(***************************************************************************)
(* The merge.  A fresh entry's slot is its insertion point among the kept  *)
(* ones, moved up by the fresh entries before it.                          *)
(***************************************************************************)
Slot(kept, fresh) == [j \in DOMAIN fresh |-> LowerBound(kept, fresh[j].key) + j]
Opened(kept, fresh, i) == Cardinality({j \in DOMAIN fresh : Slot(kept, fresh)[j] < i})

\* Slots increase, by one or more; none is beyond the merged length.
LEMMA SlotFacts ==
    ASSUME NEW kept \in Seq(EntryType), NEW fresh \in Seq(EntryType),
           KeySorted(kept), KeySorted(fresh)
    PROVE  /\ Len(kept) \in Nat /\ Len(fresh) \in Nat /\ DOMAIN fresh = 1..Len(fresh)
           /\ \A j \in 1..Len(fresh) :
                 /\ Slot(kept, fresh)[j] = LowerBound(kept, fresh[j].key) + j
                 /\ LowerBound(kept, fresh[j].key) \in 0..Len(kept)
                 /\ Slot(kept, fresh)[j] \in j..(Len(kept) + j)
           /\ \A j, k \in 1..Len(fresh) :
                 j <= k => Slot(kept, fresh)[j] - j <= Slot(kept, fresh)[k] - k
<1>1. /\ Len(kept) \in Nat /\ Len(fresh) \in Nat /\ DOMAIN fresh = 1..Len(fresh)
      /\ \A j \in 1..Len(fresh) : fresh[j].key \in Int
      /\ \A i \in 1..Len(kept) : kept[i].key \in Int
  BY EntryPlaces
<1>2. \A j \in 1..Len(fresh) :
         /\ Slot(kept, fresh)[j] = LowerBound(kept, fresh[j].key) + j
         /\ LowerBound(kept, fresh[j].key) \in 0..Len(kept)
         /\ \A i \in 1..Len(kept) :
               i <= LowerBound(kept, fresh[j].key) <=> kept[i].key < fresh[j].key
  BY <1>1, LowerBoundFacts DEF Slot
<1>3. ASSUME NEW j \in 1..Len(fresh), NEW k \in 1..Len(fresh), j <= k
      PROVE  LowerBound(kept, fresh[j].key) <= LowerBound(kept, fresh[k].key)
  <2> DEFINE p == LowerBound(kept, fresh[j].key)
             q == LowerBound(kept, fresh[k].key)
  <2>1. fresh[j].key <= fresh[k].key /\ fresh[j].key \in Int /\ fresh[k].key \in Int
    BY <1>1, <1>3 DEF KeySorted
  <2>2. /\ p \in 0..Len(kept) /\ q \in 0..Len(kept)
        /\ \A i \in 1..Len(kept) : i <= p <=> kept[i].key < fresh[j].key
        /\ \A i \in 1..Len(kept) : i <= q <=> kept[i].key < fresh[k].key
    BY <1>2
  <2> HIDE DEF p, q
  <2>3. p \in Int /\ q \in Int /\ p \in 0..Len(kept) /\ Len(kept) \in Nat
    BY <1>1, <2>2
  <2>4. ASSUME p \in 1..Len(kept) PROVE p <= q
    <3>1. p <= p
      BY <2>3
    <3>2. kept[p].key < fresh[j].key
      BY <2>2, <2>4, <3>1
    <3>3. kept[p].key \in Int
      BY <1>1, <2>4
    <3>4. kept[p].key < fresh[k].key
      BY <2>1, <3>2, <3>3
    <3> QED
      BY <2>2, <2>4, <3>4
  <2>5. p <= q
    <3>1. CASE p = 0
      BY <2>2, <3>1
    <3>2. p = 0 \/ p \in 1..Len(kept)
      BY <2>3
    <3> QED
      BY <2>4, <3>1, <3>2
  <2> QED
    BY <2>5 DEF p, q
<1>4. \A j \in 1..Len(fresh) : Slot(kept, fresh)[j] \in j..(Len(kept) + j)
  BY <1>1, <1>2
<1>5. \A j, k \in 1..Len(fresh) :
         j <= k => Slot(kept, fresh)[j] - j <= Slot(kept, fresh)[k] - k
  BY <1>1, <1>2, <1>3
<1> QED
  BY <1>1, <1>2, <1>4, <1>5

\* The slots below a place are those of the first fresh entries.
LEMMA OpenedFacts ==
    ASSUME NEW kept \in Seq(EntryType), NEW fresh \in Seq(EntryType),
           KeySorted(kept), KeySorted(fresh),
           NEW i \in 1..(Len(kept) + Len(fresh) + 1)
    PROVE  /\ Opened(kept, fresh, i) \in 0..Len(fresh)
           /\ i - 1 - Opened(kept, fresh, i) \in 0..Len(kept)
           /\ \A j \in 1..Len(fresh) : Slot(kept, fresh)[j] < i <=> j <= Opened(kept, fresh, i)
<1> DEFINE m == Len(fresh)
           n == Len(kept)
           s == Slot(kept, fresh)
           A == {j \in DOMAIN fresh : s[j] < i}
           N == {c \in Nat : ~(c + 1 \in A)}
<1>1. /\ n \in Nat /\ m \in Nat /\ DOMAIN fresh = 1..m
      /\ \A j \in 1..m : s[j] \in j..(n + j)
      /\ \A j, k \in 1..m : j <= k => s[j] - j <= s[k] - k
  BY SlotFacts
<1>2. i \in 1..(n + m + 1)
  OBVIOUS
<1>3. Opened(kept, fresh, i) = Cardinality(A)
  BY DEF Opened
<1> HIDE DEF m, n, s
<1>4. m \in N
  BY <1>1
<1>5. PICK c \in N : \A d \in N : c <= d
  <2>1. N \in SUBSET Nat /\ N # {}
    BY <1>4
  <2> HIDE DEF N
  <2> QED
    BY <2>1, LeastNatural
<1>6. c \in 0..m
  <2>1. c \in Nat
    BY <1>5
  <2> HIDE DEF N
  <2>2. c <= m
    BY <1>4, <1>5
  <2> QED
    BY <1>1, <2>1, <2>2
<1>7. ASSUME NEW j \in 1..m PROVE s[j] < i <=> j <= c
  <2>1. ASSUME j <= c PROVE s[j] < i
    <3>1. j - 1 \in Nat /\ ~(c <= j - 1) /\ j - 1 + 1 = j
      BY <1>1, <1>6, <2>1
    <3>2. ~(j - 1 \in N)
      <4> HIDE DEF N
      <4> QED
        BY <1>5, <3>1
    <3>3. j \in A
      BY <3>1, <3>2
    <3> QED
      BY <3>3
  <2>2. ASSUME ~(j <= c), s[j] < i PROVE FALSE
    <3>1. c + 1 \in 1..m /\ c + 1 <= j
      BY <1>1, <1>6, <2>2
    <3>2. s[c + 1] - (c + 1) <= s[j] - j
      BY <1>1, <3>1
    <3>3. s[c + 1] \in Int /\ s[j] \in Int
      BY <1>1, <3>1
    <3>4. s[c + 1] < i
      BY <1>2, <1>6, <2>2, <3>1, <3>2, <3>3
    <3>5. c + 1 \in A
      BY <1>1, <3>1, <3>4
    <3> QED
      BY <1>5, <3>5
  <2> QED
    BY <2>1, <2>2
<1>8. A = 1..c
  BY <1>1, <1>6, <1>7
<1> HIDE DEF A, N
<1>9. Opened(kept, fresh, i) = c
  BY <1>3, <1>6, <1>8, FS_Interval
<1>10. i - 1 - c \in 0..n
  <2>1. c <= i - 1
    <3>1. CASE c = 0
      BY <1>2, <3>1
    <3>2. CASE c \in 1..m
      <4>1. s[c] < i /\ s[c] \in c..(n + c)
        BY <1>1, <1>6, <1>7, <3>2
      <4> QED
        BY <1>1, <1>2, <1>6, <4>1
    <3> QED
      BY <1>1, <1>6, <3>1, <3>2
  <2>2. i - 1 - c <= n
    <3>1. CASE c = m
      BY <1>1, <1>2, <3>1
    <3>2. CASE c + 1 \in 1..m
      <4>1. ~(s[c + 1] < i) /\ s[c + 1] \in (c + 1)..(n + c + 1)
        BY <1>1, <1>6, <1>7, <3>2
      <4> QED
        BY <1>1, <1>2, <1>6, <4>1
    <3> QED
      BY <1>1, <1>6, <3>1, <3>2
  <2> QED
    BY <1>1, <1>2, <1>6, <2>1, <2>2
<1> QED
  BY <1>6, <1>7, <1>9, <1>10 DEF m, n, s

\* Slots that climb by one or more and end within n of their number; the c of
\* them that are below a place.
Climbs(n, m, s) ==
    /\ s \in [1..m -> Int]
    /\ \A j \in 1..m : s[j] <= n + j
    /\ \A j, k \in 1..m : j <= k => s[j] - j <= s[k] - k
Splits(m, s, i, c) == 0 <= c /\ c <= m /\ \A j \in 1..m : s[j] < i <=> j <= c

\* Going up one place passes at most one slot: the next one, or none.
LEMMA SlotStep ==
    ASSUME NEW n \in Int, NEW m \in Int, NEW s, NEW i \in Int, NEW c \in Int, NEW d \in Int,
           NEW up \in Int, up = i + 1,
           Climbs(n, m, s), Splits(m, s, i, c), Splits(m, s, up, d),
           c <= i - 1, i - 1 - c <= n, i <= n + m
    PROVE  \/ c + 1 \in 1..m /\ s[c + 1] = i /\ d = c + 1
           \/ i - c \in 1..n /\ d = c /\ \A j \in 1..m : s[j] # i
<1> USE DEF Climbs, Splits
<1>1. CASE c = m
  <2>1. \A j \in 1..m : s[j] \in Int /\ s[j] < i
    BY <1>1
  <2>2. d = c
    <3>1. m \in 1..m => m <= d
      BY <2>1
    <3> QED
      BY <1>1, <3>1
  <2>3. i - c \in 1..n
    BY <1>1
  <2> QED
    BY <2>1, <2>2, <2>3
<1>2. CASE c < m
  <2> DEFINE e == c + 1
  <2>1. e \in 1..m /\ e \in Int /\ ~(e <= c)
    BY <1>2
  <2> HIDE DEF e
  <2>2. /\ s[e] \in Int /\ ~(s[e] < i) /\ s[e] <= n + e
        /\ s[e] < i + 1 <=> e <= d
    BY <2>1
  <2>3. \A j \in 1..m : j # e /\ s[j] < i + 1 => s[j] < i
    <3> SUFFICES ASSUME NEW j \in 1..m, j # e, s[j] < i + 1, ~(s[j] < i) PROVE FALSE
      OBVIOUS
    <3>1. s[j] \in Int /\ ~(j <= c) /\ j \in Int
      OBVIOUS
    <3>2. e <= j
      BY <3>1 DEF e
    <3>3. s[e] - e <= s[j] - j
      BY <2>1, <3>2
    <3> QED
      BY <2>1, <2>2, <3>1, <3>2, <3>3
  <2>4. d = c \/ d = e
    <3>1. \A j \in 1..m : j # e /\ j <= d => j <= c
      BY <2>3
    <3>2. \A j \in 1..m : j <= c => j <= d
      <4> SUFFICES ASSUME NEW j \in 1..m, j <= c PROVE j <= d
        OBVIOUS
      <4>1. s[j] \in Int /\ s[j] < i
        OBVIOUS
      <4> QED
        BY <4>1
    <3>3. d \in 1..m /\ d # e => d <= c
      BY <3>1
    <3>4. c \in 1..m => c <= d
      BY <3>2
    <3> QED
      BY <2>1, <3>3, <3>4
  <2>5. CASE s[e] = i
    <3>1. e <= d
      BY <2>2, <2>5
    <3> QED
      BY <2>1, <2>4, <2>5, <3>1 DEF e
  <2>6. CASE s[e] # i
    <3>1. d = c
      BY <2>1, <2>2, <2>4, <2>6
    <3>2. i - c \in 1..n
      BY <2>1, <2>2, <2>6 DEF e
    <3>3. \A j \in 1..m : s[j] # i
      <4> SUFFICES ASSUME NEW j \in 1..m, s[j] = i PROVE FALSE
        OBVIOUS
      <4>1. j # e /\ s[j] < i + 1 /\ ~(s[j] < i)
        BY <2>6
      <4> QED
        BY <2>3, <4>1
    <3> QED
      BY <3>1, <3>2, <3>3
  <2> QED
    BY <2>5, <2>6
<1> QED
  BY <1>1, <1>2

\* What both merges put at place i: the next fresh entry, if the loop would take
\* it, and otherwise the next kept one.
LEMMA MergeStep ==
    ASSUME NEW kept \in Seq(EntryType), NEW fresh \in Seq(EntryType),
           KeySorted(kept), KeySorted(fresh),
           NEW i \in 1..(Len(kept) + Len(fresh)),
           NEW c \in Int, c = Opened(kept, fresh, i)
    PROVE  \/ /\ TakesFresh(fresh, kept, c, i - 1 - c)
              /\ c + 1 \in 1..Len(fresh)
              /\ Slot(kept, fresh)[c + 1] = i
              /\ Opened(kept, fresh, i + 1) = c + 1
              /\ NumpyInsert(kept, fresh)[i] = fresh[c + 1]
           \/ /\ ~TakesFresh(fresh, kept, c, i - 1 - c)
              /\ i - c \in 1..Len(kept)
              /\ \A j \in 1..Len(fresh) : Slot(kept, fresh)[j] # i
              /\ Opened(kept, fresh, i + 1) = c
              /\ NumpyInsert(kept, fresh)[i] = kept[i - c]
<1> DEFINE m == Len(fresh)
           n == Len(kept)
           s == Slot(kept, fresh)
           d == Opened(kept, fresh, i + 1)
<1>1. /\ n \in Nat /\ m \in Nat /\ DOMAIN fresh = 1..m
      /\ \A j \in 1..m : s[j] = LowerBound(kept, fresh[j].key) + j
      /\ \A j \in 1..m : LowerBound(kept, fresh[j].key) \in 0..n
      /\ \A j \in 1..m : s[j] \in j..(n + j)
      /\ \A j, k \in 1..m : j <= k => s[j] - j <= s[k] - k
  BY SlotFacts
<1>2. i \in 1..(n + m) /\ i \in 1..(n + m + 1) /\ i + 1 \in 1..(n + m + 1)
  BY <1>1
<1>3. /\ c \in 0..m /\ i - 1 - c \in 0..n
      /\ \A j \in 1..m : s[j] < i <=> j <= c
  BY <1>2, OpenedFacts
<1>4. /\ d \in 0..m
      /\ \A j \in 1..m : s[j] < i + 1 <=> j <= d
  BY <1>2, OpenedFacts
<1>5. NumpyInsert(kept, fresh)[i] = IF \E j \in 1..m : s[j] = i THEN fresh[c + 1]
                                                                 ELSE kept[i - c]
  BY <1>1 DEF NumpyInsert, Slot, Opened
<1>6. \A j \in 1..m : \A l \in 1..n :
         l <= LowerBound(kept, fresh[j].key) <=> kept[l].key < fresh[j].key
  BY LowerBoundFacts, EntryPlaces
<1>7. /\ \A j \in 1..m : fresh[j].key \in Int
      /\ \A l \in 1..n : kept[l].key \in Int
  BY EntryPlaces
<1>8. s \in [1..m -> Int]
  <2>1. s = [j \in 1..m |-> LowerBound(kept, fresh[j].key) + j]
    BY <1>1 DEF Slot
  <2>2. \A j \in 1..m : LowerBound(kept, fresh[j].key) + j \in Int
    BY <1>1
  <2> HIDE DEF s
  <2> QED
    BY <2>1, <2>2
<1>9. TakesFresh(fresh, kept, c, i - 1 - c)
         <=> c < m /\ (i - 1 - c < n => fresh[c + 1].key <= kept[i - 1 - c + 1].key)
  BY DEF TakesFresh
<1> HIDE DEF m, n, s, d
<1>10. /\ n \in Int /\ m \in Int /\ i \in Int /\ c \in Int /\ d \in Int
       /\ 0 <= c /\ c <= m /\ c <= i - 1 /\ i - 1 - c <= n /\ 0 <= d /\ d <= m /\ i <= n + m
  BY <1>1, <1>2, <1>3, <1>4
<1>11. \/ c + 1 \in 1..m /\ s[c + 1] = i /\ d = c + 1
       \/ i - c \in 1..n /\ d = c /\ \A j \in 1..m : s[j] # i
  <2>1. Climbs(n, m, s)
    BY <1>1, <1>8 DEF Climbs
  <2>2. Splits(m, s, i, c)
    BY <1>3, <1>10 DEF Splits
  <2> DEFINE up == i + 1
  <2>3. up = i + 1 /\ up \in Int /\ Splits(m, s, up, d)
    BY <1>4, <1>10 DEF Splits
  <2> HIDE DEF up
  <2> QED
    BY ONLY <1>10, <2>1, <2>2, <2>3, SlotStep
<1>12. CASE c + 1 \in 1..m /\ s[c + 1] = i /\ d = c + 1
  <2> DEFINE e == c + 1
             p == LowerBound(kept, fresh[e].key)
             b == i - 1 - c + 1
  <2>1. e \in 1..m /\ s[e] = i
    BY <1>12
  <2>2. s[e] = p + e /\ p \in 0..n
    BY <1>1, <2>1
  <2>3. p = i - 1 - c
    BY <1>10, <2>1, <2>2
  <2>4. ASSUME i - 1 - c < n PROVE fresh[e].key <= kept[b].key
    <3>1. b \in 1..n /\ ~(b <= p)
      BY <1>10, <2>3, <2>4
    <3>2. ~(kept[b].key < fresh[e].key)
      BY <1>6, <2>1, <3>1
    <3> QED
      BY <1>7, <2>1, <3>1, <3>2
  <2>5. TakesFresh(fresh, kept, c, i - 1 - c)
    BY <1>9, <1>10, <1>12, <2>4
  <2>6. NumpyInsert(kept, fresh)[i] = fresh[c + 1]
    BY <1>5, <1>12
  <2> QED
    BY <1>12, <2>5, <2>6 DEF m, n, s, d
<1>13. CASE i - c \in 1..n /\ d = c /\ \A j \in 1..m : s[j] # i
  <2>1. NumpyInsert(kept, fresh)[i] = kept[i - c]
    BY <1>5, <1>13
  <2>2. ASSUME TakesFresh(fresh, kept, c, i - 1 - c) PROVE FALSE
    <3> DEFINE e == c + 1
               p == LowerBound(kept, fresh[e].key)
               b == i - 1 - c + 1
    <3>1. e \in 1..m /\ b \in 1..n /\ i - 1 - c < n
      BY <1>9, <1>10, <1>13, <2>2
    <3>2. fresh[e].key <= kept[b].key
      BY <1>9, <2>2, <3>1
    <3>3. fresh[e].key \in Int /\ kept[b].key \in Int
      BY <1>7, <3>1
    <3>4. ~(b <= p)
      BY <1>6, <3>1, <3>2, <3>3
    <3>5. s[e] = p + e /\ p \in 0..n
      BY <1>1, <3>1
    <3>6. s[e] # i /\ ~(s[e] < i)
      BY <1>3, <1>10, <1>13, <3>1, SMTT(30)
    <3> QED
      BY <1>10, <3>4, <3>5, <3>6, SMTT(30)
  <2> QED
    BY <1>13, <2>1, <2>2 DEF m, n, s, d
<1> QED
  BY <1>11, <1>12, <1>13

\* The loop's `a` after i outputs is the number of fresh entries whose slot is
\* at most i: the recursion has this one solution.
LEMMA TakenIsOpened ==
    ASSUME NEW kept \in Seq(EntryType), NEW fresh \in Seq(EntryType),
           KeySorted(kept), KeySorted(fresh),
           NEW taken,
           taken = [i \in 0..(Len(fresh) + Len(kept)) |->
                      IF i = 0 THEN 0
                      ELSE IF TakesFresh(fresh, kept, taken[i - 1], i - 1 - taken[i - 1])
                           THEN taken[i - 1] + 1 ELSE taken[i - 1]]
    PROVE  \A i \in 0..(Len(fresh) + Len(kept)) : taken[i] = Opened(kept, fresh, i + 1)
<1> DEFINE N == Len(fresh) + Len(kept)
           Odd == {i \in 0..N : taken[i] # Opened(kept, fresh, i + 1)}
<1>1. /\ Len(fresh) \in Nat /\ Len(kept) \in Nat /\ N \in Nat
      /\ 0..N \subseteq Nat /\ N = Len(kept) + Len(fresh)
  BY LenProperties
<1>2. /\ 0 \in 0..N => taken[0] = 0
      /\ \A i \in 1..N :
            taken[i] = IF TakesFresh(fresh, kept, taken[i - 1], i - 1 - taken[i - 1])
                       THEN taken[i - 1] + 1 ELSE taken[i - 1]
  <2>1. 1..N \subseteq 0..N /\ \A i \in 1..N : i # 0
    BY <1>1
  <2> HIDE DEF N
  <2> QED
    BY <2>1 DEF N
<1>3. SUFFICES ASSUME Odd # {} PROVE FALSE
  OBVIOUS
<1>4. PICK i \in Odd : \A l \in Odd : i <= l
  <2>1. Odd \in SUBSET Nat
    BY <1>1
  <2> HIDE DEF Odd
  <2> QED
    BY <1>3, <2>1, LeastNatural
<1>5. i \in 0..N /\ i \in Nat /\ taken[i] # Opened(kept, fresh, i + 1)
  BY <1>1, <1>4
<1>6. CASE i = 0
  <2>1. 1 \in 1..(Len(kept) + Len(fresh) + 1)
    BY <1>1
  <2>2. /\ Opened(kept, fresh, 1) \in 0..Len(fresh)
        /\ 1 - 1 - Opened(kept, fresh, 1) \in 0..Len(kept)
    BY <2>1, OpenedFacts
  <2>3. Opened(kept, fresh, 1) = 0
    BY <1>1, <2>2
  <2>4. taken[0] = 0
    BY <1>1, <1>2
  <2> QED
    BY <1>5, <1>6, <2>3, <2>4
<1>7. CASE i \in 1..N
  <2> DEFINE c == taken[i - 1]
  <2>1. i - 1 \in 0..N /\ ~(i <= i - 1) /\ i - 1 + 1 = i
    BY <1>1, <1>7
  <2>2. ~(i - 1 \in Odd)
    <3> HIDE DEF Odd
    <3> QED
      BY <1>4, <2>1
  <2>3. c = Opened(kept, fresh, i)
    BY <2>1, <2>2
  <2>4. i \in 1..(Len(kept) + Len(fresh)) /\ i \in 1..(Len(kept) + Len(fresh) + 1)
    BY <1>1, <1>7
  <2>5. c \in Int
    <3>1. c \in 0..Len(fresh)
      BY <2>3, <2>4, OpenedFacts
    <3> QED
      BY <1>1, <3>1
  <2>6. taken[i] = IF TakesFresh(fresh, kept, c, i - 1 - c) THEN c + 1 ELSE c
    BY <1>2, <1>7
  <2> HIDE DEF c
  <2>7. \/ TakesFresh(fresh, kept, c, i - 1 - c) /\ Opened(kept, fresh, i + 1) = c + 1
        \/ ~TakesFresh(fresh, kept, c, i - 1 - c) /\ Opened(kept, fresh, i + 1) = c
    BY <2>3, <2>4, <2>5, MergeStep
  <2> QED
    BY <1>5, <2>6, <2>7
<1> QED
  BY <1>1, <1>5, <1>6, <1>7

\* The recursion has a solution.
LEMMA TakenExists ==
    ASSUME NEW kept \in Seq(EntryType), NEW fresh \in Seq(EntryType),
           KeySorted(kept), KeySorted(fresh)
    PROVE  \E taken :
              taken = [i \in 0..(Len(fresh) + Len(kept)) |->
                         IF i = 0 THEN 0
                         ELSE IF TakesFresh(fresh, kept, taken[i - 1], i - 1 - taken[i - 1])
                              THEN taken[i - 1] + 1 ELSE taken[i - 1]]
<1> DEFINE N == Len(fresh) + Len(kept)
           o(i) == Opened(kept, fresh, i)
           count == [i \in 0..N |-> o(i + 1)]
<1>1. Len(fresh) \in Nat /\ Len(kept) \in Nat /\ N \in Nat /\ N = Len(kept) + Len(fresh)
  BY LenProperties
<1>2. o(1) = 0
  <2>1. 1 \in 1..(Len(kept) + Len(fresh) + 1)
    BY <1>1
  <2>2. o(1) \in 0..Len(fresh) /\ 1 - 1 - o(1) \in 0..Len(kept)
    BY <2>1, OpenedFacts
  <2> HIDE DEF o
  <2> QED
    BY <1>1, <2>2
<1>3. ASSUME NEW i \in 1..N
      PROVE  o(i + 1) = IF TakesFresh(fresh, kept, o(i), i - 1 - o(i)) THEN o(i) + 1 ELSE o(i)
  <2> DEFINE c == o(i)
  <2>1. i \in 1..(Len(kept) + Len(fresh)) /\ i \in 1..(Len(kept) + Len(fresh) + 1)
    BY <1>1
  <2>2. c \in Int /\ c = Opened(kept, fresh, i)
    <3>1. c \in 0..Len(fresh)
      BY <2>1, OpenedFacts
    <3> QED
      BY <1>1, <3>1
  <2> HIDE DEF c
  <2>3. \/ TakesFresh(fresh, kept, c, i - 1 - c) /\ Opened(kept, fresh, i + 1) = c + 1
        \/ ~TakesFresh(fresh, kept, c, i - 1 - c) /\ Opened(kept, fresh, i + 1) = c
    BY <2>1, <2>2, MergeStep
  <2> QED
    BY <2>2, <2>3
<1> HIDE DEF o
<1>4. \A i \in 0..N : count[i] = o(i + 1)
  OBVIOUS
<1>5. \A i \in 0..N :
         o(i + 1) = IF i = 0 THEN 0
                    ELSE IF TakesFresh(fresh, kept, count[i - 1], i - 1 - count[i - 1])
                         THEN count[i - 1] + 1 ELSE count[i - 1]
  <2> SUFFICES ASSUME NEW i \in 0..N, i # 0
               PROVE  o(i + 1) = IF TakesFresh(fresh, kept, count[i - 1], i - 1 - count[i - 1])
                                 THEN count[i - 1] + 1 ELSE count[i - 1]
    BY <1>2
  <2>1. i \in 1..N /\ i - 1 \in 0..N /\ i - 1 + 1 = i
    BY <1>1
  <2>2. count[i - 1] = o(i)
    BY <1>4, <2>1
  <2> QED
    BY <1>3, <2>1, <2>2
<1>6. count = [i \in 0..N |->
                 IF i = 0 THEN 0
                 ELSE IF TakesFresh(fresh, kept, count[i - 1], i - 1 - count[i - 1])
                      THEN count[i - 1] + 1 ELSE count[i - 1]]
  BY <1>5
<1> QED
  BY <1>6

\* `np.insert` at the searched places and Rust's two-pointer loop are the same
\* merge, whatever the lengths and the ties.
THEOREM MergeSame ==
    ASSUME NEW kept \in Seq(EntryType), NEW fresh \in Seq(EntryType),
           KeySorted(kept), KeySorted(fresh)
    PROVE  NumpyInsert(kept, fresh) = TwoPointerMerge(fresh, kept)
<1> DEFINE N == Len(fresh) + Len(kept)
           taken == CHOOSE taken :
              taken = [i \in 0..N |->
                         IF i = 0 THEN 0
                         ELSE IF TakesFresh(fresh, kept, taken[i - 1], i - 1 - taken[i - 1])
                              THEN taken[i - 1] + 1 ELSE taken[i - 1]]
           in == NumpyInsert(kept, fresh)
<1>1. Len(fresh) \in Nat /\ Len(kept) \in Nat /\ N \in Nat /\ N = Len(kept) + Len(fresh)
  BY LenProperties
<1>2. taken = [i \in 0..N |->
                 IF i = 0 THEN 0
                 ELSE IF TakesFresh(fresh, kept, taken[i - 1], i - 1 - taken[i - 1])
                      THEN taken[i - 1] + 1 ELSE taken[i - 1]]
  BY TakenExists
<1>3. TwoPointerMerge(fresh, kept) =
         [i \in 1..N |-> IF taken[i] > taken[i - 1] THEN fresh[taken[i]] ELSE kept[i - taken[i]]]
  BY DEF TwoPointerMerge
<1> HIDE DEF taken
<1>4. \A i \in 0..N : taken[i] = Opened(kept, fresh, i + 1)
  BY <1>2, TakenIsOpened
<1>5. in = [i \in 1..N |-> in[i]]
  BY <1>1 DEF NumpyInsert
<1>6. ASSUME NEW i \in 1..N
      PROVE  in[i] = IF taken[i] > taken[i - 1] THEN fresh[taken[i]] ELSE kept[i - taken[i]]
  <2> DEFINE c == taken[i - 1]
  <2>1. i \in 1..(Len(kept) + Len(fresh)) /\ i \in 1..(Len(kept) + Len(fresh) + 1)
    BY <1>1
  <2>2. i \in 0..N /\ i - 1 \in 0..N /\ i - 1 + 1 = i
    BY <1>1
  <2>3. c = Opened(kept, fresh, i) /\ taken[i] = Opened(kept, fresh, i + 1)
    BY <1>4, <2>2
  <2>4. c \in Int
    <3>1. c \in 0..Len(fresh)
      BY <2>1, <2>3, OpenedFacts
    <3> QED
      BY <1>1, <3>1
  <2> HIDE DEF c
  <2>5. \/ taken[i] = c + 1 /\ in[i] = fresh[c + 1]
        \/ taken[i] = c /\ in[i] = kept[i - c]
    BY <2>1, <2>3, <2>4, MergeStep
  <2>6. CASE taken[i] = c + 1 /\ in[i] = fresh[c + 1]
    BY <2>4, <2>6 DEF c
  <2>7. CASE taken[i] = c /\ in[i] = kept[i - c]
    BY <2>4, <2>7 DEF c
  <2> QED
    BY <2>5, <2>6, <2>7
<1> HIDE DEF in
<1> QED
  BY <1>3, <1>5, <1>6 DEF in

\* Of the outputs from place i on, the fresh ones come after those before i, and
\* so do the kept ones.
LEMMA OpenedClimbs ==
    ASSUME NEW kept \in Seq(EntryType), NEW fresh \in Seq(EntryType),
           KeySorted(kept), KeySorted(fresh),
           NEW i \in 1..(Len(kept) + Len(fresh) + 1), NEW k \in 1..(Len(kept) + Len(fresh) + 1),
           i <= k
    PROVE  /\ Opened(kept, fresh, i) <= Opened(kept, fresh, k)
           /\ i - Opened(kept, fresh, i) <= k - Opened(kept, fresh, k)
<1> DEFINE m == Len(fresh)
           s == Slot(kept, fresh)
           c == Opened(kept, fresh, i)
           d == Opened(kept, fresh, k)
<1>1. m \in Nat /\ i \in Int /\ k \in Int
  BY SlotFacts
<1>2. /\ \A j \in 1..m : s[j] \in Int
      /\ \A j, l \in 1..m : j <= l => s[j] - j <= s[l] - l
  BY SlotFacts
<1>3. c \in 0..m /\ \A j \in 1..m : s[j] < i <=> j <= c
  BY OpenedFacts
<1>4. d \in 0..m /\ \A j \in 1..m : s[j] < k <=> j <= d
  BY OpenedFacts
<1> HIDE DEF m, s, c, d
<1>5. c <= d
  <2>1. ASSUME c \in 1..m PROVE c <= d
    <3>1. s[c] < i /\ s[c] \in Int
      BY <1>2, <1>3, <2>1
    <3>2. s[c] < k
      BY <1>1, <3>1
    <3> QED
      BY <1>4, <2>1, <3>2
  <2> QED
    BY <1>1, <1>3, <1>4, <2>1
<1>6. i - c <= k - d
  <2>1. CASE c = d
    BY <1>1, <1>3, <2>1
  <2>2. CASE c < d
    <3> DEFINE e == c + 1
    <3>1. e \in 1..m /\ d \in 1..m /\ e <= d /\ ~(e <= c)
      BY <1>1, <1>3, <1>4, <2>2
    <3>2. ~(s[e] < i) /\ s[d] < k
      BY <1>3, <1>4, <3>1
    <3>3. s[e] - e <= s[d] - d
      BY <1>2, <3>1
    <3>4. s[e] \in Int /\ s[d] \in Int
      BY <1>2, <3>1
    <3> QED
      BY <1>1, <1>3, <1>4, <3>2, <3>3, <3>4
  <2> QED
    BY <1>1, <1>3, <1>4, <1>5, <2>1, <2>2
<1> QED
  BY <1>5, <1>6 DEF c, d

\* What is put at place i has the least key of what is left to put.
LEMMA MergeHeads ==
    ASSUME NEW kept \in Seq(EntryType), NEW fresh \in Seq(EntryType),
           KeySorted(kept), KeySorted(fresh),
           NEW i \in 1..(Len(kept) + Len(fresh))
    PROVE  /\ \A j \in 1..Len(fresh) : Opened(kept, fresh, i) < j
                 => NumpyInsert(kept, fresh)[i].key <= fresh[j].key
           /\ \A b \in 1..Len(kept) : i - Opened(kept, fresh, i) <= b
                 => NumpyInsert(kept, fresh)[i].key <= kept[b].key
<1> DEFINE m == Len(fresh)
           n == Len(kept)
           c == Opened(kept, fresh, i)
           out == NumpyInsert(kept, fresh)[i]
<1>1. /\ m \in Nat /\ n \in Nat /\ i \in Int
      /\ \A j \in 1..m : fresh[j].key \in Int
      /\ \A b \in 1..n : kept[b].key \in Int
      /\ \A j, l \in 1..m : j <= l => fresh[j].key <= fresh[l].key
      /\ \A a, b \in 1..n : a <= b => kept[a].key <= kept[b].key
  BY EntryPlaces DEF KeySorted
<1>2. c \in Int /\ c \in 0..m /\ i - 1 - c \in 0..n
  <2>1. i \in 1..(n + m + 1)
    BY <1>1
  <2>2. c \in 0..m /\ i - 1 - c \in 0..n
    BY <2>1, OpenedFacts
  <2> HIDE DEF c
  <2> QED
    BY <1>1, <2>2
<1>3. \/ TakesFresh(fresh, kept, c, i - 1 - c) /\ c + 1 \in 1..m /\ out = fresh[c + 1]
      \/ ~TakesFresh(fresh, kept, c, i - 1 - c) /\ i - c \in 1..n /\ out = kept[i - c]
  BY <1>2, MergeStep
<1>4. TakesFresh(fresh, kept, c, i - 1 - c)
         <=> c < m /\ (i - 1 - c < n => fresh[c + 1].key <= kept[i - 1 - c + 1].key)
  BY DEF TakesFresh
<1> HIDE DEF m, n, c, out
<1>5. i - 1 - c + 1 = i - c
  BY <1>1, <1>2
<1>6. ASSUME TakesFresh(fresh, kept, c, i - 1 - c), c + 1 \in 1..m, out = fresh[c + 1]
      PROVE  /\ \A j \in 1..m : c < j => out.key <= fresh[j].key
             /\ \A b \in 1..n : i - c <= b => out.key <= kept[b].key
  <2>1. \A j \in 1..m : c < j => out.key <= fresh[j].key
    <3> SUFFICES ASSUME NEW j \in 1..m, c < j PROVE out.key <= fresh[j].key
      OBVIOUS
    <3>1. c + 1 <= j
      BY <1>2
    <3> QED
      BY <1>1, <1>6, <3>1
  <2>2. \A b \in 1..n : i - c <= b => out.key <= kept[b].key
    <3> SUFFICES ASSUME NEW b \in 1..n, i - c <= b PROVE out.key <= kept[b].key
      OBVIOUS
    <3> DEFINE a == i - c
    <3>1. a \in 1..n /\ i - 1 - c < n
      BY <1>1, <1>2
    <3>2. fresh[c + 1].key <= kept[a].key
      BY <1>4, <1>5, <1>6, <3>1
    <3>3. kept[a].key <= kept[b].key
      BY <1>1, <3>1
    <3>4. fresh[c + 1].key \in Int /\ kept[a].key \in Int /\ kept[b].key \in Int
      BY <1>1, <1>6, <3>1
    <3> QED
      BY <1>6, <3>2, <3>3, <3>4
  <2> QED
    BY <2>1, <2>2
<1>7. ASSUME ~TakesFresh(fresh, kept, c, i - 1 - c), i - c \in 1..n, out = kept[i - c]
      PROVE  /\ \A j \in 1..m : c < j => out.key <= fresh[j].key
             /\ \A b \in 1..n : i - c <= b => out.key <= kept[b].key
  <2>1. \A b \in 1..n : i - c <= b => out.key <= kept[b].key
    BY <1>1, <1>7
  <2>2. \A j \in 1..m : c < j => out.key <= fresh[j].key
    <3> SUFFICES ASSUME NEW j \in 1..m, c < j PROVE out.key <= fresh[j].key
      OBVIOUS
    <3> DEFINE e == c + 1
               a == i - c
    <3>1. e \in 1..m /\ e <= j /\ c < m
      BY <1>1, <1>2
    <3>2. ~(fresh[e].key <= kept[a].key)
      BY <1>4, <1>5, <1>7, <3>1
    <3>3. fresh[e].key <= fresh[j].key
      BY <1>1, <3>1
    <3>4. fresh[e].key \in Int /\ kept[a].key \in Int /\ fresh[j].key \in Int
      BY <1>1, <1>7, <3>1
    <3> QED
      BY <1>7, <3>2, <3>3, <3>4
  <2> QED
    BY <2>1, <2>2
<1>8. /\ \A j \in 1..m : c < j => out.key <= fresh[j].key
      /\ \A b \in 1..n : i - c <= b => out.key <= kept[b].key
  BY <1>3, <1>6, <1>7
<1> QED
  BY <1>8 DEF m, n, c, out

\* Every fresh entry and every kept one is put somewhere.
LEMMA MergePutsAll ==
    ASSUME NEW kept \in Seq(EntryType), NEW fresh \in Seq(EntryType),
           KeySorted(kept), KeySorted(fresh)
    PROVE  /\ \A j \in 1..Len(fresh) :
                 \E i \in 1..(Len(kept) + Len(fresh)) : NumpyInsert(kept, fresh)[i] = fresh[j]
           /\ \A b \in 1..Len(kept) :
                 \E i \in 1..(Len(kept) + Len(fresh)) : NumpyInsert(kept, fresh)[i] = kept[b]
<1> DEFINE m == Len(fresh)
           n == Len(kept)
           N == n + m
           s == Slot(kept, fresh)
           o(i) == Opened(kept, fresh, i)
           in == NumpyInsert(kept, fresh)
<1>1. /\ n \in Nat /\ m \in Nat /\ N \in Nat
      /\ \A j \in 1..m : s[j] \in j..(n + j)
      /\ \A j, l \in 1..m : j <= l => s[j] - j <= s[l] - l
  BY SlotFacts
<1>2. \A i \in 1..(N + 1) : o(i) \in 0..m /\ i - 1 - o(i) \in 0..n
  BY OpenedFacts
<1>3. \A i \in 1..N : \/ o(i) + 1 \in 1..m /\ s[o(i) + 1] = i /\ o(i + 1) = o(i) + 1
                         /\ in[i] = fresh[o(i) + 1]
                      \/ i - o(i) \in 1..n /\ o(i + 1) = o(i) /\ in[i] = kept[i - o(i)]
                         /\ \A j \in 1..m : s[j] # i
  <2> SUFFICES ASSUME NEW i \in 1..N
               PROVE  \/ o(i) + 1 \in 1..m /\ s[o(i) + 1] = i /\ o(i + 1) = o(i) + 1
                         /\ in[i] = fresh[o(i) + 1]
                      \/ i - o(i) \in 1..n /\ o(i + 1) = o(i) /\ in[i] = kept[i - o(i)]
                         /\ \A j \in 1..m : s[j] # i
    OBVIOUS
  <2> DEFINE c == o(i)
  <2>1. c \in Int /\ c = Opened(kept, fresh, i)
    <3>1. i \in 1..(N + 1)
      BY <1>1
    <3>2. c \in 0..m
      BY <1>2, <3>1
    <3> QED
      BY <1>1, <3>2
  <2> HIDE DEF c
  <2>2. \/ c + 1 \in 1..m /\ s[c + 1] = i /\ o(i + 1) = c + 1 /\ in[i] = fresh[c + 1]
        \/ i - c \in 1..n /\ o(i + 1) = c /\ in[i] = kept[i - c] /\ \A j \in 1..m : s[j] # i
    BY <2>1, MergeStep
  <2> QED
    BY <2>2 DEF c
<1> HIDE DEF m, n, s, o, in
<1>4. ASSUME NEW j \in 1..m PROVE \E i \in 1..N : in[i] = fresh[j]
  <2> DEFINE i == s[j]
             e == o(i) + 1
  <2>1. i \in 1..N /\ i \in Int
    BY <1>1
  <2>2. e \in 1..m /\ s[e] = i /\ in[i] = fresh[e]
    BY <1>3, <2>1
  <2> HIDE DEF e
  <2>3. e = j
    <3>1. e <= j => s[e] - e <= s[j] - j
      BY <1>1, <2>2
    <3>2. j <= e => s[j] - j <= s[e] - e
      BY <1>1, <2>2
    <3> QED
      BY <1>1, <2>1, <2>2, <3>1, <3>2
  <2> QED
    BY <2>1, <2>2, <2>3
<1>5. ASSUME NEW b \in 1..n PROVE \E i \in 1..N : in[i] = kept[b]
  <2> DEFINE Put == {i \in 1..N : b <= i - o(i + 1)}
  <2>1. N \in Put
    <3> DEFINE top == N + 1
    <3>1. top \in 1..(N + 1)
      BY <1>1
    <3> HIDE DEF top
    <3>2. o(top) \in 0..m /\ top - 1 - o(top) \in 0..n
      BY <1>2, <3>1
    <3>3. N - o(top) = n
      BY <1>1, <3>2 DEF top
    <3> QED
      BY <1>1, <3>3 DEF top
  <2>2. PICK i \in Put : \A l \in Put : i <= l
    <3>1. Put \in SUBSET Nat
      BY <1>1
    <3> HIDE DEF Put
    <3> QED
      BY <2>1, <3>1, LeastNatural
  <2> DEFINE c == o(i)
  <2>3. i \in 1..N /\ i \in Int /\ b <= i - o(i + 1)
    BY <1>1, <2>2
  <2>4. c \in Int /\ 0 <= c /\ i - 1 - c \in 0..n
    <3>1. i \in 1..(N + 1)
      BY <1>1, <2>3
    <3>2. c \in 0..m /\ i - 1 - c \in 0..n
      BY <1>2, <3>1
    <3> QED
      BY <1>1, <3>2
  <2>5. i - 1 - c < b
    <3>1. CASE i = 1
      BY <1>1, <2>4, <3>1
    <3>2. CASE i # 1
      <4>1. i - 1 \in 1..N /\ ~(i <= i - 1) /\ i - 1 + 1 = i
        BY <1>1, <2>3, <3>2
      <4>2. ~(i - 1 \in Put)
        <5> HIDE DEF Put
        <5> QED
          BY <2>2, <4>1
      <4>3. ~(b <= i - 1 - c)
        BY <4>1, <4>2
      <4> QED
        BY <1>1, <2>3, <2>4, <4>3
    <3> QED
      BY <3>1, <3>2
  <2>6. \/ o(i + 1) = c + 1
        \/ o(i + 1) = c /\ in[i] = kept[i - c]
    BY <1>3, <2>3
  <2> HIDE DEF c
  <2>7. o(i + 1) = c /\ i - c = b
    BY <1>1, <2>3, <2>4, <2>5, <2>6
  <2> QED
    BY <2>3, <2>4, <2>6, <2>7
<1> QED
  BY <1>4, <1>5 DEF m, n, in

\* Nothing in the merged array is new.
DrawnFrom(out, kept, fresh) ==
    \A i \in 1..Len(out) : \/ \E b \in 1..Len(kept) : out[i] = kept[b]
                           \/ \E j \in 1..Len(fresh) : out[i] = fresh[j]

\* Merging two tiers of different ids files all their entries, sorted, each once.
THEOREM MergedTier ==
    ASSUME NEW kept, NEW fresh, NEW Old, NEW New,
           Tier(kept, Old), Tier(fresh, New), Old \cap New = {}
    PROVE  /\ Tier(NumpyInsert(kept, fresh), Old \cup New)
           /\ DrawnFrom(NumpyInsert(kept, fresh), kept, fresh)
<1> DEFINE m == Len(fresh)
           n == Len(kept)
           N == n + m
           o(i) == Opened(kept, fresh, i)
           in == NumpyInsert(kept, fresh)
<1>1. /\ kept \in Seq(EntryType) /\ KeySorted(kept) /\ n \in Nat /\ n = Cardinality(Old)
      /\ IsFiniteSet(Old)
      /\ \A i \in 1..n : kept[i] \in EntryType /\ kept[i].id \in Old
      /\ \A x \in Old : \E i \in 1..n : kept[i].id = x
  <2>1. kept \in Seq(EntryType) /\ KeySorted(kept)
    BY DEF Tier
  <2> QED
    BY <2>1, TierFacts
<1>2. /\ fresh \in Seq(EntryType) /\ KeySorted(fresh) /\ m \in Nat /\ m = Cardinality(New)
      /\ IsFiniteSet(New)
      /\ \A j \in 1..m : fresh[j] \in EntryType /\ fresh[j].id \in New
      /\ \A x \in New : \E j \in 1..m : fresh[j].id = x
  <2>1. fresh \in Seq(EntryType) /\ KeySorted(fresh)
    BY DEF Tier
  <2> QED
    BY <2>1, TierFacts
<1>3. N \in Nat /\ N = m + n
  BY <1>1, <1>2
<1>4. \A i \in 1..N : \/ o(i) + 1 \in 1..m /\ in[i] = fresh[o(i) + 1]
                      \/ i - o(i) \in 1..n /\ in[i] = kept[i - o(i)]
  <2> SUFFICES ASSUME NEW i \in 1..N
               PROVE  \/ o(i) + 1 \in 1..m /\ in[i] = fresh[o(i) + 1]
                      \/ i - o(i) \in 1..n /\ in[i] = kept[i - o(i)]
    OBVIOUS
  <2> DEFINE c == o(i)
  <2>1. c \in Int /\ c = Opened(kept, fresh, i)
    <3>1. i \in 1..(N + 1)
      BY <1>3
    <3>2. c \in 0..m
      BY <1>1, <1>2, <3>1, OpenedFacts
    <3> QED
      BY <1>2, <3>2
  <2> HIDE DEF c
  <2>2. \/ c + 1 \in 1..m /\ in[i] = fresh[c + 1]
        \/ i - c \in 1..n /\ in[i] = kept[i - c]
    BY <1>1, <1>2, <2>1, MergeStep
  <2> QED
    BY <2>2 DEF c
<1>5. \A i \in 1..N : \/ \E b \in 1..n : in[i] = kept[b]
                      \/ \E j \in 1..m : in[i] = fresh[j]
  BY <1>4
<1>6. in = [i \in 1..N |-> in[i]]
  BY DEF NumpyInsert
<1> HIDE DEF in
<1>7. in \in Seq(EntryType) /\ Len(in) = N /\ DOMAIN in = 1..N
  <2>1. in \in [1..N -> EntryType]
    BY <1>1, <1>2, <1>5, <1>6
  <2>2. in \in Seq(EntryType) /\ DOMAIN in = 1..N
    BY <1>3, <2>1, SeqDef
  <2> QED
    BY <1>3, <2>2, LenProperties
<1>8. KeySorted(in)
  <2> SUFFICES ASSUME NEW i \in 1..N, NEW k \in 1..N, i <= k PROVE in[i].key <= in[k].key
    BY <1>7 DEF KeySorted
  <2>1. /\ \A j \in 1..m : o(i) < j => in[i].key <= fresh[j].key
        /\ \A b \in 1..n : i - o(i) <= b => in[i].key <= kept[b].key
    BY <1>1, <1>2, MergeHeads DEF in
  <2>2. i \in 1..(N + 1) /\ k \in 1..(N + 1) /\ i \in Int /\ k \in Int
    BY <1>3
  <2>3. o(i) <= o(k) /\ i - o(i) <= k - o(k)
    BY <1>1, <1>2, <2>2, OpenedClimbs
  <2>4. o(i) \in 0..m /\ o(k) \in 0..m
    BY <1>1, <1>2, <2>2, OpenedFacts
  <2> HIDE DEF o
  <2>5. o(i) \in Int /\ o(k) \in Int
    BY <1>2, <2>4
  <2>6. CASE o(k) + 1 \in 1..m /\ in[k] = fresh[o(k) + 1]
    <3>1. o(i) < o(k) + 1
      BY <2>3, <2>5
    <3> QED
      BY <2>1, <2>6, <3>1
  <2>7. CASE k - o(k) \in 1..n /\ in[k] = kept[k - o(k)]
    BY <2>1, <2>3, <2>7
  <2>8. \/ o(k) + 1 \in 1..m /\ in[k] = fresh[o(k) + 1]
        \/ k - o(k) \in 1..n /\ in[k] = kept[k - o(k)]
    BY <1>4 DEF o
  <2> QED
    BY <2>6, <2>7, <2>8
<1>9. FilesOnce(in, Old \cup New)
  <2>1. Cardinality(Old \cup New) = N
    <3>1. Cardinality(Old \cup New)
             = Cardinality(Old) + Cardinality(New) - Cardinality(Old \cap New)
      BY <1>1, <1>2, FS_Union
    <3>2. Cardinality(Old \cap New) = 0
      BY FS_EmptySet
    <3> QED
      BY <1>1, <1>2, <3>1, <3>2
  <2>2. \A i \in 1..N : in[i].id \in Old \cup New
    BY <1>1, <1>2, <1>5
  <2>3. \A x \in Old \cup New : \E i \in 1..N : in[i].id = x
    <3>1. /\ \A j \in 1..m : \E i \in 1..N : in[i] = fresh[j]
          /\ \A b \in 1..n : \E i \in 1..N : in[i] = kept[b]
      BY <1>1, <1>2, MergePutsAll DEF in
    <3>2. ASSUME NEW x \in Old PROVE \E i \in 1..N : in[i].id = x
      <4>1. PICK b \in 1..n : kept[b].id = x
        BY <1>1
      <4>2. PICK i \in 1..N : in[i] = kept[b]
        BY <3>1
      <4> QED
        BY <4>1, <4>2
    <3>3. ASSUME NEW x \in New PROVE \E i \in 1..N : in[i].id = x
      <4>1. PICK j \in 1..m : fresh[j].id = x
        BY <1>2
      <4>2. PICK i \in 1..N : in[i] = fresh[j]
        BY <3>1
      <4> QED
        BY <4>1, <4>2
    <3> QED
      BY <3>2, <3>3
  <2> HIDE DEF N
  <2> QED
    BY <1>7, <2>1, <2>2, <2>3 DEF FilesOnce
<1>10. Tier(in, Old \cup New)
  BY <1>7, <1>8, <1>9 DEF Tier
<1> QED
  BY <1>5, <1>7, <1>10 DEF in, DrawnFrom

-----------------------------------------------------------------------------
\* A masked tier is a tier of the ids that stay, entries untouched.
LEMMA PickedTier ==
    ASSUME NEW tier, NEW ids, Tier(tier, ids), NEW places \in SUBSET (1..Len(tier))
    PROVE  /\ Tier(Picked(tier, places), {tier[p].id : p \in places})
           /\ \A i \in 1..Len(Picked(tier, places)) :
                 \E p \in places : Picked(tier, places)[i] = tier[p]
<1> DEFINE s == Picked(tier, places)
           k == Cardinality(places)
<1>1. /\ tier \in Seq(EntryType) /\ Len(tier) \in Nat
      /\ \A i \in 1..Len(tier) : tier[i] \in EntryType /\ tier[i].key \in Int
      /\ \A i, j \in 1..Len(tier) : i <= j => tier[i].key <= tier[j].key
      /\ \A i, j \in 1..Len(tier) : tier[i].id = tier[j].id => i = j
  BY TierFacts
<1>2. k \in Nat /\ s \in Seq(EntryType) /\ Len(s) = k
  BY <1>1, PickedFacts
<1>3. PICK place : /\ Lists(place, places, k)
                   /\ \A i \in 1..k : s[i] = tier[place[i]]
  BY <1>1, PickedFacts
<1> HIDE DEF s, k
<1>4. DOMAIN s = 1..k /\ \A i \in 1..k : place[i] \in places /\ place[i] \in 1..Len(tier)
  BY <1>2, <1>3, LenProperties DEF Lists
<1>5. KeySorted(s)
  <2> SUFFICES ASSUME NEW i \in 1..k, NEW j \in 1..k, i <= j PROVE s[i].key <= s[j].key
    BY <1>4 DEF KeySorted
  <2>1. place[i] \in 1..Len(tier) /\ place[j] \in 1..Len(tier) /\ ~(place[j] < place[i])
    BY <1>2, <1>3, <1>4 DEF Lists
  <2>2. place[i] <= place[j]
    BY <1>1, <2>1
  <2> QED
    BY <1>1, <1>3, <2>1, <2>2
<1>6. {s[i].id : i \in DOMAIN s} = {tier[p].id : p \in places}
  <2>1. \A i \in 1..k : s[i].id = tier[place[i]].id
    BY <1>3
  <2>2. ASSUME NEW i \in 1..k PROVE \E p \in places : s[i].id = tier[p].id
    BY <1>4, <2>1
  <2>3. ASSUME NEW p \in places PROVE \E i \in 1..k : s[i].id = tier[p].id
    BY <1>3, <2>1 DEF Lists
  <2> DEFINE A == {s[i].id : i \in 1..k}
             B == {tier[p].id : p \in places}
  <2>4. \A x \in A : x \in B
    BY <2>2
  <2>5. \A x \in B : x \in A
    BY <2>3
  <2> HIDE DEF B
  <2>6. A = B
    BY <2>4, <2>5
  <2> QED
    BY <1>4, <2>6 DEF B
<1>7. \A i, j \in 1..k : s[i].id = s[j].id => i = j
  <2> SUFFICES ASSUME NEW i \in 1..k, NEW j \in 1..k, s[i].id = s[j].id PROVE i = j
    OBVIOUS
  <2>1. place[i] = place[j]
    BY <1>1, <1>3, <1>4
  <2>2. place[i] \in Int
    BY <1>1, <1>4
  <2>3. ~(i < j) /\ ~(j < i)
    BY <1>3, <2>1, <2>2 DEF Lists
  <2> QED
    BY <1>2, <2>3
<1>8. FilesOnce(s, {tier[p].id : p \in places})
  BY <1>2, <1>6, <1>7, FiledOnce
<1>9. Tier(s, {tier[p].id : p \in places})
  BY <1>2, <1>5, <1>8 DEF Tier
<1> QED
  BY <1>2, <1>3, <1>4, <1>9 DEF s

\* What stands between two insertion points is what is filed under the keys
\* between them, each id once.
LEMMA RangeFiles ==
    ASSUME NEW tier, NEW ids, Tier(tier, ids), NEW lo \in Int, NEW hi \in Int, lo <= hi
    PROVE  FilesOnce(SubSeq(tier, LowerBound(tier, lo) + 1, LowerBound(tier, hi)),
                     {tier[i].id : i \in {j \in 1..Len(tier) : lo <= tier[j].key /\ tier[j].key < hi}})
<1> DEFINE p == LowerBound(tier, lo)
           q == LowerBound(tier, hi)
           s == SubSeq(tier, p + 1, q)
           in == {j \in 1..Len(tier) : lo <= tier[j].key /\ tier[j].key < hi}
<1>1. /\ tier \in Seq(EntryType) /\ Len(tier) \in Nat /\ DOMAIN tier = 1..Len(tier)
      /\ \A i \in 1..Len(tier) : tier[i] \in EntryType /\ tier[i].key \in Int
      /\ \A i, j \in 1..Len(tier) : tier[i].id = tier[j].id => i = j
      /\ KeySorted(tier)
  BY TierFacts DEF Tier
<1>2. /\ p \in 0..Len(tier) /\ q \in 0..Len(tier)
      /\ \A i \in 1..Len(tier) : i <= p <=> tier[i].key < lo
      /\ \A i \in 1..Len(tier) : i <= q <=> tier[i].key < hi
  BY <1>1, LowerBoundFacts
<1> HIDE DEF p, q
<1>3. p <= q
  <2>1. ASSUME p \in 1..Len(tier) PROVE p <= q
    <3>1. p <= p
      BY <1>1, <1>2
    <3>2. tier[p].key < lo /\ tier[p].key \in Int
      BY <1>1, <1>2, <2>1, <3>1
    <3>3. tier[p].key < hi
      BY <3>2
    <3> QED
      BY <1>2, <2>1, <3>3
  <2> QED
    BY <1>1, <1>2, <2>1
<1>4. /\ s \in Seq(EntryType) /\ Len(s) = q - p /\ DOMAIN s = 1..(q - p)
      /\ \A i \in 1..(q - p) : s[i] = tier[i + p]
  <2>1. s = [i \in 1..(q - p) |-> tier[i + p]]
    <3>1. p \in Int /\ q \in Int
      BY <1>1, <1>2
    <3>2. s = [i \in 1..(q - (p + 1) + 1) |-> tier[i + (p + 1) - 1]]
      BY <1>1, <1>2, <1>3
    <3>3. q - (p + 1) + 1 = q - p /\ \A i \in 1..(q - p) : i + (p + 1) - 1 = i + p
      BY <3>1
    <3> QED
      BY <3>2, <3>3
  <2>2. \A i \in 1..(q - p) : i + p \in 1..Len(tier)
    BY <1>1, <1>2
  <2>3. s \in [1..(q - p) -> EntryType]
    BY <1>1, <2>1, <2>2
  <2>4. q - p \in Nat
    BY <1>1, <1>2, <1>3
  <2> HIDE DEF s
  <2>5. s \in Seq(EntryType) /\ DOMAIN s = 1..(q - p)
    BY <2>3, <2>4, SeqDef
  <2> QED
    BY <2>1, <2>4, <2>5, LenProperties
<1> HIDE DEF s
<1>5. \A i \in 1..(q - p) : i + p \in in
  <2> SUFFICES ASSUME NEW i \in 1..(q - p) PROVE i + p \in in
    OBVIOUS
  <2> DEFINE j == i + p
  <2>1. j \in 1..Len(tier) /\ ~(j <= p) /\ j <= q
    BY <1>1, <1>2
  <2> HIDE DEF j
  <2>2. ~(tier[j].key < lo) /\ tier[j].key < hi /\ tier[j].key \in Int
    BY <1>1, <1>2, <2>1
  <2>3. j \in in
    BY <2>1, <2>2
  <2> QED
    BY <2>3 DEF j
<1>6. ASSUME NEW j \in in PROVE j - p \in 1..(q - p) /\ s[j - p] = tier[j]
  <2>1. tier[j].key \in Int /\ lo <= tier[j].key /\ tier[j].key < hi /\ j \in 1..Len(tier)
    BY <1>1
  <2>2. ~(j <= p) /\ j <= q
    BY <1>2, <2>1
  <2>3. j - p \in 1..(q - p) /\ j - p + p = j
    BY <1>1, <1>2, <2>1, <2>2
  <2> QED
    BY <1>4, <2>3
<1>7. {s[i].id : i \in DOMAIN s} = {tier[i].id : i \in in}
  <2>1. ASSUME NEW i \in 1..(q - p) PROVE \E j \in in : s[i].id = tier[j].id
    BY <1>4, <1>5
  <2>2. ASSUME NEW j \in in PROVE \E i \in 1..(q - p) : s[i].id = tier[j].id
    BY <1>6
  <2> DEFINE A == {s[i].id : i \in 1..(q - p)}
             B == {tier[i].id : i \in in}
  <2> HIDE DEF in
  <2>3. \A x \in A : x \in B
    BY <2>1
  <2>4. \A x \in B : x \in A
    BY <2>2
  <2> HIDE DEF B
  <2>5. A = B
    BY <2>3, <2>4
  <2> QED
    BY <1>4, <2>5 DEF B
<1>8. \A i, j \in 1..(q - p) : s[i].id = s[j].id => i = j
  <2> SUFFICES ASSUME NEW i \in 1..(q - p), NEW j \in 1..(q - p), s[i].id = s[j].id
               PROVE  i = j
    OBVIOUS
  <2>1. i + p \in 1..Len(tier) /\ j + p \in 1..Len(tier)
    BY <1>5
  <2>2. i + p = j + p
    BY <1>1, <1>4, <2>1
  <2> QED
    BY <1>1, <1>2, <2>2
<1>9. FilesOnce(s, {tier[i].id : i \in in})
  BY <1>4, <1>7, <1>8, FiledOnce
<1> QED
  BY <1>9 DEF s, p, q

-----------------------------------------------------------------------------
\* A way through 1..n that never goes back or stands still.
Rises(g, n) ==
    /\ n \in Nat /\ g \in [1..n -> 1..n]
    /\ \A i, j \in 1..n : i < j => g[i] < g[j]

\* There is only one, the n steps themselves.
LEMMA RisingIsIdentity ==
    ASSUME NEW n, NEW g, Rises(g, n)
    PROVE  \A i \in 1..n : g[i] = i
<1> n \in Nat /\ g \in [1..n -> 1..n] /\ \A i, j \in 1..n : i < j => g[i] < g[j]
  BY DEF Rises
<1> DEFINE Low == {i \in 1..n : g[i] < i}
           High == {d \in 0..(n - 1) : g[n - d] > n - d}
<1>1. Low = {}
  <2> SUFFICES ASSUME Low # {} PROVE FALSE
    OBVIOUS
  <2>1. Low \in SUBSET Nat
    OBVIOUS
  <2>2. PICK i \in Low : \A j \in Low : i <= j
    <3> HIDE DEF Low
    <3> QED
      BY <2>1, LeastNatural
  <2>3. i \in 1..n /\ g[i] \in 1..n /\ g[i] < i
    BY <2>2
  <2> DEFINE h == i - 1
  <2>4. h \in 1..n /\ h < i /\ g[h] \in 1..n
    BY <2>3
  <2>5. g[h] < g[i]
    BY <2>3, <2>4
  <2>6. g[h] < h
    BY <2>3, <2>4, <2>5
  <2>7. h \in Low
    BY <2>4, <2>6
  <2> QED
    BY <2>2, <2>3, <2>4, <2>7
<1>2. High = {}
  <2> SUFFICES ASSUME High # {} PROVE FALSE
    OBVIOUS
  <2>1. High \in SUBSET Nat
    OBVIOUS
  <2>2. PICK d \in High : \A e \in High : d <= e
    <3> HIDE DEF High
    <3> QED
      BY <2>1, LeastNatural
  <2> DEFINE i == n - d
  <2>3. d \in 0..(n - 1) /\ i \in 1..n /\ g[i] \in 1..n /\ g[i] > i
    BY <2>2
  <2> DEFINE e == d - 1
             h == n - e
  <2>4. h \in 1..n /\ i < h /\ g[h] \in 1..n /\ e \in 0..(n - 1) /\ e < d /\ h = i + 1
    <3>1. i \in 1..n /\ g[i] \in 1..n /\ g[i] > i
      BY <2>3
    <3>2. i < n
      <4> HIDE DEF i
      <4> QED
        BY <3>1
    <3>3. d \in Int /\ 1 <= d /\ d <= n - 1
      BY <2>3, <3>2
    <3>4. h \in 1..n /\ i < h /\ e \in 0..(n - 1) /\ e < d /\ h = i + 1
      BY <3>1, <3>3
    <3> QED
      BY <3>4
  <2>5. g[i] < g[h]
    BY <2>3, <2>4
  <2>6. g[h] > h
    <3> HIDE DEF i, h
    <3> QED
      BY <2>3, <2>4, <2>5
  <2>7. e \in High
    BY <2>4, <2>6
  <2>8. d <= e
    BY <2>2, <2>7
  <2> HIDE DEF e
  <2> QED
    BY <2>3, <2>4, <2>8
<1> SUFFICES ASSUME NEW i \in 1..n PROVE g[i] = i
  OBVIOUS
<1>3. g[i] \in 1..n /\ ~(g[i] < i)
  BY <1>1
<1>4. ~(g[i] > i)
  <2> DEFINE d == n - i
  <2>1. d \in 0..(n - 1) /\ n - d = i
    OBVIOUS
  <2>2. d \notin High
    BY <1>2
  <2> HIDE DEF d
  <2> QED
    BY <2>1, <2>2
<1> QED
  BY <1>3, <1>4

\* Merging moves no kept entry past another one.
LEMMA MergeKeepsOrder ==
    ASSUME NEW kept, NEW fresh, NEW Old, NEW New,
           Tier(kept, Old), Tier(fresh, New), Old \cap New = {},
           NEW in, in = NumpyInsert(kept, fresh),
           NEW K, K = {p \in 1..Len(in) : in[p].id \in Old}
    PROVE  Picked(in, K) = kept
<1> DEFINE m == Len(fresh)
           n == Len(kept)
           N == n + m
           k == Cardinality(K)
           s == Picked(in, K)
           from(p) == p - Opened(kept, fresh, p)
<1>1. /\ kept \in Seq(EntryType) /\ KeySorted(kept) /\ n \in Nat /\ n = Cardinality(Old)
      /\ \A x \in Old : \E i \in 1..n : kept[i].id = x
  <2>1. kept \in Seq(EntryType) /\ KeySorted(kept)
    BY DEF Tier
  <2> QED
    BY <2>1, TierFacts
<1>2. /\ fresh \in Seq(EntryType) /\ KeySorted(fresh) /\ m \in Nat
      /\ \A j \in 1..m : fresh[j].id \in New
  <2>1. fresh \in Seq(EntryType) /\ KeySorted(fresh)
    BY DEF Tier
  <2> QED
    BY <2>1, TierFacts
<1>3. Tier(in, Old \cup New)
  <2>1. Tier(NumpyInsert(kept, fresh), Old \cup New)
    BY MergedTier
  <2> QED
    BY <2>1
<1>4. /\ in \in Seq(EntryType) /\ Len(in) \in Nat
      /\ \A i \in 1..Len(in) : in[i].id \in Old \cup New
      /\ \A i, j \in 1..Len(in) : in[i].id = in[j].id => i = j
      /\ \A x \in Old \cup New : \E i \in 1..Len(in) : in[i].id = x
  BY <1>3, TierFacts
<1>5. Len(in) = N
  <2>1. in = [i \in 1..N |-> in[i]]
    BY DEF NumpyInsert
  <2>2. DOMAIN in = 1..N
    BY <2>1
  <2> HIDE DEF N
  <2>3. N \in Nat
    BY <1>1, <1>2 DEF N
  <2> QED
    BY <1>4, <2>2, <2>3, LenProperties
<1> HIDE DEF s, n, m
<1>6. ASSUME NEW p \in K PROVE from(p) \in 1..n /\ in[p] = kept[from(p)]
  <2> DEFINE c == Opened(kept, fresh, p)
  <2>1. p \in 1..N /\ p \in 1..(N + 1) /\ N = Len(kept) + Len(fresh)
    BY <1>1, <1>2, <1>5 DEF n, m
  <2>2. c \in Int
    <3>1. c \in 0..Len(fresh)
      BY <1>1, <1>2, <2>1, OpenedFacts
    <3> QED
      BY <1>2, <3>1 DEF m
  <2>3. c = Opened(kept, fresh, p)
    OBVIOUS
  <2> HIDE DEF c
  <2>4. \/ c + 1 \in 1..m /\ in[p] = fresh[c + 1]
        \/ p - c \in 1..n /\ in[p] = kept[p - c]
    <3>1. p \in 1..(Len(kept) + Len(fresh))
      BY <2>1
    <3>2. \/ c + 1 \in 1..Len(fresh) /\ NumpyInsert(kept, fresh)[p] = fresh[c + 1]
          \/ p - c \in 1..Len(kept) /\ NumpyInsert(kept, fresh)[p] = kept[p - c]
      BY ONLY <1>1, <1>2, <2>2, <2>3, <3>1, MergeStep
    <3>3. in[p] = NumpyInsert(kept, fresh)[p]
      OBVIOUS
    <3> QED
      BY ONLY <3>2, <3>3 DEF m, n
  <2>5. in[p].id \in Old
    OBVIOUS
  <2> QED
    BY <1>2, <2>3, <2>4, <2>5
<1>7. ASSUME NEW p \in K, NEW q \in K, p < q PROVE from(p) < from(q)
  <2>1. p \in 1..(Len(kept) + Len(fresh) + 1) /\ q \in 1..(Len(kept) + Len(fresh) + 1) /\ p <= q
    BY <1>1, <1>2, <1>5, <1>7 DEF n, m
  <2>2. from(p) <= from(q)
    BY <1>1, <1>2, <2>1, OpenedClimbs
  <2>3. from(p) \in 1..n /\ from(q) \in 1..n /\ in[p] = kept[from(p)] /\ in[q] = kept[from(q)]
    BY <1>6
  <2>4. in[p].id # in[q].id
    BY <1>4, <1>7, <1>5
  <2> HIDE DEF from
  <2> QED
    BY <1>1, <2>2, <2>3, <2>4
<1>8. K \in SUBSET (1..Len(in)) /\ {in[p].id : p \in K} = Old
  <2>1. \A p \in K : in[p].id \in Old
    OBVIOUS
  <2>2. \A x \in Old : \E p \in K : in[p].id = x
    BY <1>4
  <2> QED
    BY <2>1, <2>2
<1> HIDE DEF k, from
<1>9. k \in Nat /\ s \in Seq(EntryType) /\ Len(s) = k
      /\ \E place : Lists(place, K, k) /\ \A i \in 1..k : s[i] = in[place[i]]
  <2>1. /\ Cardinality(K) \in Nat /\ Picked(in, K) \in Seq(EntryType)
        /\ Len(Picked(in, K)) = Cardinality(K)
        /\ \E place : /\ Lists(place, K, Cardinality(K))
                      /\ \A i \in 1..Cardinality(K) : Picked(in, K)[i] = in[place[i]]
    BY ONLY <1>4, <1>8, PickedFacts
  <2> QED
    BY ONLY <2>1 DEF k, s
<1>10. k = n
  <2>1. Tier(s, {in[p].id : p \in K})
    BY <1>3, <1>8, PickedTier DEF s
  <2>2. Tier(s, Old)
    BY <1>8, <2>1
  <2> QED
    BY <1>1, <1>9, <2>2, TierFacts
<1>11. PICK place : Lists(place, K, k) /\ \A i \in 1..k : s[i] = in[place[i]]
  BY <1>9
<1> DEFINE g == [i \in 1..n |-> from(place[i])]
<1>12. \A i \in 1..n : place[i] \in K
  BY <1>10, <1>11 DEF Lists
<1>13. \A i, j \in 1..n : i < j => place[i] < place[j]
  BY <1>10, <1>11 DEF Lists
<1>14. Rises(g, n)
  BY <1>1, <1>6, <1>7, <1>12, <1>13 DEF Rises
<1> HIDE DEF g
<1>15. \A i \in 1..n : g[i] = i
  BY <1>14, RisingIsIdentity
<1>16. \A i \in 1..n : s[i] = kept[i]
  <2>1. \A i \in 1..n : g[i] = from(place[i])
    BY DEF g
  <2> QED
    BY <1>6, <1>10, <1>11, <1>12, <1>15, <2>1
<1> QED
  BY <1>1, <1>9, <1>10, <1>16, SeqEqual DEF n, s

-----------------------------------------------------------------------------
\* The least of two numbers.
LEMMA LesserOf ==
    ASSUME NEW a \in Int, NEW b \in Int
    PROVE  Min({a, b}) = IF a <= b THEN a ELSE b
<1> DEFINE m == IF a <= b THEN a ELSE b
<1>1. m \in {a, b} /\ \A y \in {a, b} : m <= y
  OBVIOUS
<1>2. \A x \in {a, b} : (\A y \in {a, b} : x <= y) => x = m
  OBVIOUS
<1>3. Min({a, b}) = CHOOSE x \in {a, b} : \A y \in {a, b} : x <= y
  BY DEF Min
<1> HIDE DEF m
<1>4. Min({a, b}) = m
  BY ONLY <1>1, <1>2, <1>3
<1> QED
  BY <1>4 DEF m

\* The greater of two numbers.
LEMMA GreaterOf ==
    ASSUME NEW a \in Int, NEW b \in Int
    PROVE  Max({a, b}) = IF a >= b THEN a ELSE b
<1> DEFINE m == IF a >= b THEN a ELSE b
<1>1. m \in {a, b} /\ \A y \in {a, b} : m >= y
  OBVIOUS
<1>2. \A x \in {a, b} : (\A y \in {a, b} : x >= y) => x = m
  OBVIOUS
<1>3. Max({a, b}) = CHOOSE x \in {a, b} : \A y \in {a, b} : x >= y
  BY DEF Max
<1> HIDE DEF m
<1>4. Max({a, b}) = m
  BY ONLY <1>1, <1>2, <1>3
<1> QED
  BY <1>4 DEF m

\* A finite nonempty set of numbers has a least and a greatest member.
LEMMA Extremes ==
    ASSUME NEW X, IsFiniteSet(X), X # {}, \A x \in X : x \in Int
    PROVE  /\ Min(X) \in X /\ \A y \in X : Min(X) <= y
           /\ Max(X) \in X /\ \A y \in X : Max(X) >= y
<1> DEFINE Before == [x \in X |-> {y \in X : y < x}]
           n == Cardinality(X)
<1>1. /\ Before \in [X -> SUBSET X]
      /\ \A x \in X : x \notin Before[x]
      /\ \A x, y \in X : x = y \/ x \in Before[y] \/ y \in Before[x]
      /\ \A x, y, z \in X : x \in Before[y] /\ y \in Before[z] => x \in Before[z]
  OBVIOUS
<1>2. \A x, y \in X : x \in Before[y] <=> x < y
  OBVIOUS
<1>3. n \in Nat /\ n # 0
  BY FS_CardinalityType, FS_EmptySet
<1> HIDE DEF Before
<1>4. PICK rank \in Bijection(X, 1..n) : \A x, y \in X : x \in Before[y] <=> rank[x] < rank[y]
  <2>1. StrictlyOrders(Before, X)
    BY <1>1 DEF StrictlyOrders
  <2> QED
    BY <2>1, RankFacts
<1>5. rank \in Surjection(X, 1..n) /\ rank \in [X -> 1..n]
  BY <1>4 DEF Bijection, Injection, Surjection
<1>6. \E a \in X : rank[a] = 1
  <2>1. 1 \in 1..n
    BY <1>3
  <2> QED
    BY <1>5, <2>1 DEF Surjection
<1>7. \E b \in X : rank[b] = n
  <2>1. n \in 1..n
    BY <1>3
  <2> QED
    BY <1>5, <2>1 DEF Surjection
<1>8. \E a \in X : \A y \in X : a <= y
  <2>1. PICK a \in X : rank[a] = 1
    BY <1>6
  <2>2. ASSUME NEW y \in X PROVE a <= y
    <3>1. ~(rank[y] < rank[a])
      BY <1>3, <1>5, <2>1
    <3>2. ~(y < a)
      BY <1>2, <1>4, <3>1
    <3> QED
      BY <3>2
  <2> QED
    BY <2>2
<1>9. \E b \in X : \A y \in X : b >= y
  <2>1. PICK b \in X : rank[b] = n
    BY <1>7
  <2>2. ASSUME NEW y \in X PROVE b >= y
    <3>1. ~(rank[b] < rank[y])
      BY <1>3, <1>5, <2>1
    <3>2. ~(b < y)
      BY <1>2, <1>4, <3>1
    <3> QED
      BY <3>2
  <2> QED
    BY <2>2
<1>10. Min(X) \in X /\ \A y \in X : Min(X) <= y
  BY ONLY <1>8 DEF Min
<1>11. Max(X) \in X /\ \A y \in X : Max(X) >= y
  BY ONLY <1>9 DEF Max
<1> QED
  BY <1>10, <1>11

-----------------------------------------------------------------------------
(***************************************************************************)
(* Ranking ids by (distance, id): g[i] is the distance of id i.            *)
(***************************************************************************)
Closer(g, i, j) == g[i] < g[j] \/ (g[i] = g[j] /\ i < j)
Passed(g, ids, i) == {j \in ids : Closer(g, j, i)}
TopOf(g, ids, k) == {i \in ids : Cardinality(Passed(g, ids, i)) < k}
Rankable(g, ids) == IsFiniteSet(ids) /\ \A i \in ids : i \in Int /\ g[i] \in Int

\* The order is strict and total.
LEMMA CloserFacts ==
    ASSUME NEW g, NEW ids, Rankable(g, ids), NEW x \in ids, NEW y \in ids, NEW z \in ids
    PROVE  /\ ~Closer(g, x, x)
           /\ Closer(g, x, y) => ~Closer(g, y, x)
           /\ x = y \/ Closer(g, x, y) \/ Closer(g, y, x)
           /\ Closer(g, x, y) /\ Closer(g, y, z) => Closer(g, x, z)
BY DEF Closer, Rankable

\* How many are passed is a number, and less for one that is passed itself.
LEMMA PassedFacts ==
    ASSUME NEW g, NEW ids, Rankable(g, ids)
    PROVE  /\ \A i : IsFiniteSet(Passed(g, ids, i)) /\ Cardinality(Passed(g, ids, i)) \in Nat
           /\ \A x, y \in ids : Closer(g, x, y)
                 => Cardinality(Passed(g, ids, x)) < Cardinality(Passed(g, ids, y))
<1>1. IsFiniteSet(ids)
  BY DEF Rankable
<1>2. ASSUME NEW i PROVE IsFiniteSet(Passed(g, ids, i)) /\ Cardinality(Passed(g, ids, i)) \in Nat
  <2>1. Passed(g, ids, i) \subseteq ids
    BY DEF Passed
  <2> QED
    BY <1>1, <2>1, FS_Subset, FS_CardinalityType
<1>3. ASSUME NEW x \in ids, NEW y \in ids, Closer(g, x, y)
      PROVE  Cardinality(Passed(g, ids, x)) < Cardinality(Passed(g, ids, y))
  <2> DEFINE X == Passed(g, ids, x)
             Y == Passed(g, ids, y)
  <2>1. X \subseteq Y /\ x \in Y /\ x \notin X
    BY <1>3, CloserFacts DEF Passed
  <2>2. IsFiniteSet(X) /\ IsFiniteSet(Y) /\ Cardinality(X) \in Nat /\ Cardinality(Y) \in Nat
    BY <1>2
  <2> HIDE DEF X, Y
  <2>3. IsFiniteSet(X \cup {x}) /\ Cardinality(X \cup {x}) = Cardinality(X) + 1
    BY <2>1, <2>2, FS_AddElement
  <2>4. X \cup {x} \subseteq Y
    BY <2>1
  <2>5. Cardinality(X) + 1 <= Cardinality(Y)
    BY <2>2, <2>3, <2>4, FS_Subset
  <2>6. Cardinality(X) < Cardinality(Y)
    BY <2>2, <2>5
  <2> QED
    BY <2>6 DEF X, Y
<1> QED
  BY <1>2, <1>3

\* An id that is not among the k nearest has k of them before it.
LEMMA TurnedAwayFor ==
    ASSUME NEW g, NEW ids, Rankable(g, ids), NEW k \in Nat,
           NEW y \in ids, y \notin TopOf(g, ids, k)
    PROVE  Cardinality(Passed(g, TopOf(g, ids, k), y)) >= k
<1> DEFINE c(x) == Cardinality(Passed(g, ids, x))
           Out == {c(x) : x \in ids \ TopOf(g, ids, k)}
<1>1. \A x \in ids : c(x) \in Nat
  BY PassedFacts
<1>2. Out \in SUBSET Nat /\ Out # {}
  BY <1>1
<1>3. PICK n \in Out : \A m \in Out : n <= m
  <2> HIDE DEF Out
  <2> QED
    BY <1>2, LeastNatural
<1>4. PICK x \in ids \ TopOf(g, ids, k) : n = c(x)
  OBVIOUS
<1>5. \A z \in ids \ TopOf(g, ids, k) : c(x) <= c(z)
  BY <1>3, <1>4
<1>6. c(x) >= k /\ c(x) \in Nat
  BY <1>1, <1>4 DEF TopOf
<1>7. ASSUME NEW z \in Passed(g, ids, x) PROVE z \in Passed(g, TopOf(g, ids, k), y)
  <2>1. z \in ids /\ Closer(g, z, x)
    BY DEF Passed
  <2>2. c(z) < c(x) /\ c(z) \in Nat
    BY <1>1, <1>4, <2>1, PassedFacts
  <2>3. z \in TopOf(g, ids, k)
    BY <1>5, <1>6, <2>1, <2>2
  <2>4. ~Closer(g, y, x)
    <3>1. SUFFICES ASSUME Closer(g, y, x) PROVE FALSE
      OBVIOUS
    <3>2. c(y) < c(x)
      BY <1>4, <3>1, PassedFacts
    <3> HIDE DEF c
    <3> QED
      BY <1>1, <1>4, <1>5, <3>2
  <2>5. Closer(g, z, y)
    <3>1. x = y \/ Closer(g, x, y)
      BY <1>4, <2>4, CloserFacts
    <3> QED
      BY <1>4, <2>1, <3>1, CloserFacts
  <2> QED
    BY <2>3, <2>5 DEF Passed
<1>8. IsFiniteSet(Passed(g, TopOf(g, ids, k), y))
  <2>1. Passed(g, TopOf(g, ids, k), y) \subseteq ids /\ IsFiniteSet(ids)
    BY DEF Passed, TopOf, Rankable
  <2> QED
    BY <2>1, FS_Subset
<1>9. c(x) <= Cardinality(Passed(g, TopOf(g, ids, k), y))
  BY <1>7, <1>8, FS_Subset
<1>10. Cardinality(Passed(g, TopOf(g, ids, k), y)) \in Nat
  BY <1>8, FS_CardinalityType
<1> HIDE DEF c
<1> QED
  BY <1>6, <1>9, <1>10

WithOne(all, ids, i) == all = ids \cup {i}

\* The k nearest of what is held and one more are the k nearest of all.
LEMMA TopOfOneMore ==
    ASSUME NEW g, NEW ids, NEW i, NEW k \in Nat,
           NEW all, WithOne(all, ids, i), Rankable(g, all),
           NEW held, WithOne(held, TopOf(g, ids, k), i)
    PROVE  TopOf(g, held, k) = TopOf(g, all, k)
<1> all = ids \cup {i} /\ held = TopOf(g, ids, k) \cup {i}
  BY DEF WithOne
<1>1. /\ IsFiniteSet(all) /\ ids \subseteq all /\ held \subseteq all
      /\ Rankable(g, all)
  BY DEF TopOf, Rankable
<1>2. IsFiniteSet(ids) /\ IsFiniteSet(held) /\ Rankable(g, ids) /\ Rankable(g, held)
  <2>1. IsFiniteSet(ids) /\ IsFiniteSet(held)
    BY <1>1, FS_Subset
  <2> QED
    BY <1>1, <2>1 DEF Rankable
<1>3. ASSUME NEW x PROVE
         /\ Cardinality(Passed(g, held, x)) \in Nat
         /\ Cardinality(Passed(g, ids, x)) \in Nat
         /\ Cardinality(Passed(g, all, x)) \in Nat
         /\ Cardinality(Passed(g, held, x)) <= Cardinality(Passed(g, all, x))
         /\ Cardinality(Passed(g, ids, x)) <= Cardinality(Passed(g, all, x))
  <2>1. /\ Passed(g, held, x) \subseteq Passed(g, all, x)
        /\ Passed(g, ids, x) \subseteq Passed(g, all, x)
    BY <1>1 DEF Passed
  <2>2. IsFiniteSet(Passed(g, all, x))
    BY <1>1, PassedFacts
  <2>3. /\ Cardinality(Passed(g, held, x)) <= Cardinality(Passed(g, all, x))
        /\ Cardinality(Passed(g, ids, x)) <= Cardinality(Passed(g, all, x))
    BY <2>1, <2>2, FS_Subset
  <2> QED
    BY <1>1, <1>2, <2>3, PassedFacts
<1>4. ASSUME NEW x \in TopOf(g, all, k) PROVE x \in TopOf(g, held, k)
  <2>1. x \in all /\ Cardinality(Passed(g, all, x)) < k
    BY DEF TopOf
  <2>2. Cardinality(Passed(g, held, x)) < k /\ Cardinality(Passed(g, ids, x)) < k
    BY <1>3, <2>1
  <2>3. x \in held
    BY <2>1, <2>2 DEF TopOf
  <2> QED
    BY <2>2, <2>3 DEF TopOf
<1>5. ASSUME NEW x \in TopOf(g, held, k) PROVE x \in TopOf(g, all, k)
  <2>1. x \in held /\ x \in all /\ Cardinality(Passed(g, held, x)) < k
    BY <1>1 DEF TopOf
  <2>2. ASSUME Passed(g, all, x) \subseteq held PROVE x \in TopOf(g, all, k)
    <3>1. Passed(g, all, x) = Passed(g, held, x)
      BY <1>1, <2>2 DEF Passed
    <3> QED
      BY <2>1, <3>1 DEF TopOf
  <2>3. ASSUME NEW y \in Passed(g, all, x), y \notin held PROVE FALSE
    <3>1. y \in ids /\ y \notin TopOf(g, ids, k) /\ y \in all /\ Closer(g, y, x)
      BY <2>3 DEF Passed
    <3>2. Cardinality(Passed(g, TopOf(g, ids, k), y)) >= k
      BY <1>2, <3>1, TurnedAwayFor
    <3>3. Passed(g, TopOf(g, ids, k), y) \subseteq Passed(g, held, x)
      <4>1. ASSUME NEW z \in Passed(g, TopOf(g, ids, k), y) PROVE z \in Passed(g, held, x)
        <5>1. z \in held /\ z \in all /\ Closer(g, z, y)
          BY <1>1 DEF Passed
        <5>2. Closer(g, z, x)
          BY <1>1, <2>1, <3>1, <5>1, CloserFacts
        <5> QED
          BY <5>1, <5>2 DEF Passed
      <4> QED
        BY <4>1
    <3>4. IsFiniteSet(Passed(g, held, x))
      BY <1>2, PassedFacts
    <3>5. /\ Cardinality(Passed(g, TopOf(g, ids, k), y)) <= Cardinality(Passed(g, held, x))
          /\ Cardinality(Passed(g, TopOf(g, ids, k), y)) \in Nat
      BY <3>3, <3>4, FS_Subset, FS_CardinalityType
    <3> QED
      BY <1>3, <2>1, <3>2, <3>5
  <2> QED
    BY <2>2, <2>3
<1> QED
  BY <1>4, <1>5

\* With k held, one that is farther than all of them changes nothing.
LEMMA TopOfFull ==
    ASSUME NEW g, NEW ids, NEW i, Rankable(g, ids \cup {i}), NEW k \in Nat,
           Cardinality(TopOf(g, ids, k)) = k,
           \A j \in TopOf(g, ids, k) : Closer(g, j, i)
    PROVE  TopOf(g, ids \cup {i}, k) = TopOf(g, ids, k)
<1> DEFINE all == ids \cup {i}
           held == TopOf(g, ids, k)
<1>1. CASE i \in ids
  <2>1. all = ids
    BY <1>1
  <2> QED
    BY <2>1
<1>2. CASE i \notin ids
  <2>1. Rankable(g, all) /\ IsFiniteSet(all) /\ ids \subseteq all /\ i \in all
    BY DEF Rankable
  <2>2. IsFiniteSet(ids) /\ Rankable(g, ids)
    <3>1. IsFiniteSet(ids)
      BY <2>1, FS_Subset
    <3> QED
      BY <2>1, <3>1 DEF Rankable
  <2>3. /\ held \subseteq ids
        /\ \A j \in held : Closer(g, j, i)
    BY DEF TopOf
  <2> HIDE DEF all
  <2>4. ASSUME NEW x \in held PROVE Passed(g, all, x) = Passed(g, ids, x)
    <3>1. x \in ids /\ x \in all /\ Closer(g, x, i)
      BY <2>1, <2>3
    <3>2. ~Closer(g, i, x)
      BY <2>1, <3>1, CloserFacts
    <3>3. \A j \in all : j \in ids \/ j = i
      BY DEF all
    <3> QED
      BY <2>1, <3>2, <3>3 DEF Passed
  <2>5. i \notin TopOf(g, all, k)
    <3>1. held \subseteq Passed(g, all, i)
      BY <2>1, <2>3 DEF Passed
    <3>2. /\ IsFiniteSet(Passed(g, all, i))
          /\ Cardinality(Passed(g, all, i)) \in Nat
      BY <2>1, PassedFacts
    <3>3. k <= Cardinality(Passed(g, all, i))
      BY <3>1, <3>2, FS_Subset
    <3> QED
      BY <3>2, <3>3 DEF TopOf
  <2>6. ASSUME NEW x \in TopOf(g, all, k) PROVE x \in held
    <3>1. x \in ids /\ Cardinality(Passed(g, all, x)) < k
      BY <2>5 DEF TopOf, all
    <3>2. Passed(g, ids, x) \subseteq Passed(g, all, x)
      BY <2>1 DEF Passed
    <3>3. /\ IsFiniteSet(Passed(g, all, x))
          /\ Cardinality(Passed(g, all, x)) \in Nat
          /\ Cardinality(Passed(g, ids, x)) \in Nat
      BY <2>1, <2>2, PassedFacts
    <3>4. Cardinality(Passed(g, ids, x)) <= Cardinality(Passed(g, all, x))
      BY <3>2, <3>3, FS_Subset
    <3> QED
      BY <3>1, <3>3, <3>4 DEF TopOf
  <2>7. ASSUME NEW x \in held PROVE x \in TopOf(g, all, k)
    <3>1. x \in ids /\ x \in all /\ Cardinality(Passed(g, ids, x)) < k
      BY <2>1 DEF TopOf
    <3>2. Passed(g, all, x) = Passed(g, ids, x)
      BY <2>4
    <3> QED
      BY <3>1, <3>2 DEF TopOf
  <2>8. TopOf(g, all, k) = held
    BY <2>6, <2>7
  <2> QED
    BY <2>8 DEF all
<1> QED
  BY <1>1, <1>2

\* The n-th place is for the id that passes n - 1 others.
ListsByRank(s, g, ids) ==
    \A n \in 1..Cardinality(ids) :
        (\E i \in ids : Cardinality(Passed(g, ids, i)) = n - 1)
            => s[n] \in ids /\ Cardinality(Passed(g, ids, s[n])) = n - 1

\* Listing ids by rank lists each once, nearest first.
LEMMA RankedFacts ==
    ASSUME NEW g, NEW ids, Rankable(g, ids),
           NEW T, NEW s \in [1..Cardinality(ids) -> T],
           ListsByRank(s, g, ids)
    PROVE  /\ Cardinality(ids) \in Nat
           /\ s \in [1..Cardinality(ids) -> ids]
           /\ \A i \in ids : \E n \in 1..Cardinality(ids) : s[n] = i
           /\ \A m, n \in 1..Cardinality(ids) : Closer(g, s[m], s[n]) <=> m < n
           /\ \A m, n \in 1..Cardinality(ids) : s[m] = s[n] => m = n
<1> DEFINE Before == [x \in ids |-> Passed(g, ids, x)]
<1>1. /\ Before \in [ids -> SUBSET ids] /\ \A x \in ids : Before[x] = Passed(g, ids, x)
      /\ \A x, y \in ids : x \in Before[y] <=> Closer(g, x, y)
  BY DEF Passed
<1> HIDE DEF Before
<1>2. \A x \in ids : x \notin Before[x]
  BY <1>1, CloserFacts
<1>a. \A x, y \in ids : x = y \/ x \in Before[y] \/ y \in Before[x]
  BY <1>1, CloserFacts
<1>b. \A x, y, z \in ids : x \in Before[y] /\ y \in Before[z] => x \in Before[z]
  BY <1>1, CloserFacts
<1>c. Before \in [ids -> SUBSET ids]
  BY <1>1
<1>3. \A n \in 1..Cardinality(ids) :
         (\E x \in ids : Cardinality(Before[x]) = n - 1)
            => s[n] \in ids /\ Cardinality(Before[s[n]]) = n - 1
  <2> SUFFICES ASSUME NEW n \in 1..Cardinality(ids), NEW x \in ids,
                      Cardinality(Before[x]) = n - 1
               PROVE  s[n] \in ids /\ Cardinality(Before[s[n]]) = n - 1
    OBVIOUS
  <2>1. Cardinality(Passed(g, ids, x)) = n - 1
    BY <1>1
  <2>2. s[n] \in ids /\ Cardinality(Passed(g, ids, s[n])) = n - 1
    BY <2>1 DEF ListsByRank
  <2> QED
    BY <1>1, <2>2
<1>4. IsFiniteSet(ids)
  BY DEF Rankable
<1>5. /\ Cardinality(ids) \in Nat
      /\ s \in [1..Cardinality(ids) -> ids]
      /\ \A x \in ids : \E i \in 1..Cardinality(ids) : s[i] = x
      /\ \A i, j \in 1..Cardinality(ids) : s[i] \in Before[s[j]] <=> i < j
      /\ \A i, j \in 1..Cardinality(ids) : s[i] = s[j] => i = j
  <2>1. StrictlyOrders(Before, ids)
    BY <1>2, <1>a, <1>b, <1>c, <1>4 DEF StrictlyOrders
  <2>2. TakesByRank(s, Before, ids, T)
    BY <1>3 DEF TakesByRank
  <2> QED
    BY <2>1, <2>2, ListedByRank
<1> QED
  BY <1>1, <1>5

\* No rank is left out.
LEMMA RanksTaken ==
    ASSUME NEW g, NEW ids, Rankable(g, ids), NEW n \in 1..Cardinality(ids)
    PROVE  \E i \in ids : Cardinality(Passed(g, ids, i)) = n - 1
<1> DEFINE Before == [x \in ids |-> Passed(g, ids, x)]
<1>1. /\ Before \in [ids -> SUBSET ids] /\ \A x \in ids : Before[x] = Passed(g, ids, x)
      /\ \A x, y \in ids : x \in Before[y] <=> Closer(g, x, y)
  BY DEF Passed
<1> HIDE DEF Before
<1>2. \A x \in ids : x \notin Before[x]
  BY <1>1, CloserFacts
<1>3. \A x, y \in ids : x = y \/ x \in Before[y] \/ y \in Before[x]
  BY <1>1, CloserFacts
<1>4. \A x, y, z \in ids : x \in Before[y] /\ y \in Before[z] => x \in Before[z]
  BY <1>1, CloserFacts
<1>5. IsFiniteSet(ids) /\ Before \in [ids -> SUBSET ids]
  BY <1>1 DEF Rankable
<1> DEFINE c == Cardinality(ids)
<1>6. PICK rank \in Bijection(ids, 1..c) : \A x \in ids : Cardinality(Before[x]) = rank[x] - 1
  <2>1. StrictlyOrders(Before, ids)
    BY <1>2, <1>3, <1>4, <1>5 DEF StrictlyOrders
  <2> QED
    BY <2>1, RankFacts
<1> HIDE DEF c
<1>7. \E i \in ids : rank[i] = n
  BY <1>6 DEF Bijection, Surjection, c
<1>8. \E i \in ids : Cardinality(Before[i]) = n - 1
  BY <1>6, <1>7
<1> QED
  BY <1>1, <1>8

-----------------------------------------------------------------------------
(***************************************************************************)
(* Recursive functions over 0..n.                                          *)
(***************************************************************************)
\* A loop over 1..n that starts from a and turns a value of D into another has
\* a value in D after every turn.
Loops(s, D, n, a, step) ==
    /\ s \in [0..n -> D]
    /\ s[0] = a
    /\ \A i \in 1..n : s[i] = step[i][s[i - 1]]

\* Every recursive function over 0..n with such turns is such a loop.
LEMMA Iterates ==
    ASSUME NEW D, NEW n \in Nat, NEW a \in D, NEW step \in [1..n -> [D -> D]]
    PROVE  \E s : Loops(s, D, n, a, step)
<1> DEFINE Runs(s, m) == Loops(s, D, m, a, step)
           Bad == {m \in 0..n : \A s : ~Runs(s, m)}
<1>1. SUFFICES Bad = {}
  <2>1. n \in 0..n
    OBVIOUS
  <2>2. \E s : Runs(s, n)
    BY <1>1, <2>1
  <2> QED
    BY <2>2
<1>2. SUFFICES ASSUME Bad # {} PROVE FALSE
  OBVIOUS
<1>3. PICK m \in Bad : \A x \in Bad : m <= x
  <2>1. Bad \in SUBSET Nat
    OBVIOUS
  <2> HIDE DEF Bad
  <2> QED
    BY <1>2, <2>1, LeastNatural
<1>4. m \in 0..n /\ \A s : ~Runs(s, m)
  OBVIOUS
<1>5. m # 0
  <2> DEFINE s == [i \in 0..0 |-> a]
  <2>1. s \in [0..0 -> D] /\ s[0] = a /\ 1..0 = {}
    OBVIOUS
  <2>2. Runs(s, 0)
    BY <2>1 DEF Loops
  <2> QED
    BY <1>4, <2>2
<1>6. m - 1 \in 0..n /\ m - 1 \notin Bad /\ m \in 1..n
  <2>1. m - 1 \in 0..n /\ m \in 1..n /\ ~(m <= m - 1)
    BY <1>4, <1>5
  <2> HIDE DEF Bad
  <2> QED
    BY <1>3, <2>1
<1>7. PICK s : Runs(s, m - 1)
  BY <1>6
<1>8. /\ s \in [0..(m - 1) -> D] /\ s[0] = a
      /\ \A i \in 1..(m - 1) : s[i] = step[i][s[i - 1]]
  BY <1>7 DEF Loops
<1> DEFINE t == [i \in 0..m |-> IF i = m THEN step[m][s[m - 1]] ELSE s[i]]
<1>9. m - 1 \in 0..(m - 1) /\ s[m - 1] \in D /\ step[m] \in [D -> D] /\ step[m][s[m - 1]] \in D
  BY <1>6, <1>8
<1>10. ASSUME NEW i \in 0..m
       PROVE  t[i] \in D /\ t[i] = IF i = 0 THEN a ELSE step[i][t[i - 1]]
  <2>1. CASE i = m
    <3>1. t[i] = step[m][s[m - 1]] /\ t[m - 1] = s[m - 1]
      BY <1>6, <2>1
    <3> QED
      BY <1>6, <1>9, <2>1, <3>1
  <2>2. CASE i # m
    <3>1. i \in 0..(m - 1) /\ (i # 0 => i - 1 \in 0..m /\ i - 1 # m)
      BY <1>6, <2>2
    <3>2. t[i] = s[i] /\ (i # 0 => t[i - 1] = s[i - 1])
      BY <2>2, <3>1
    <3>3. i # 0 => i \in 1..(m - 1)
      BY <3>1
    <3> QED
      BY <1>8, <3>1, <3>2, <3>3
  <2> QED
    BY <2>1, <2>2
<1>11. t \in [0..m -> D] /\ t = [i \in 0..m |-> t[i]]
  <2>1. t = [i \in 0..m |-> t[i]]
    OBVIOUS
  <2> HIDE DEF t
  <2> QED
    BY <1>10, <2>1
<1> HIDE DEF t
<1>12. Runs(t, m)
  <2>1. 0 \in 0..m /\ \A i \in 1..m : i \in 0..m /\ i # 0
    BY <1>4
  <2> QED
    BY <1>10, <1>11, <2>1 DEF Loops
<1> QED
  BY <1>4, <1>12
=============================================================================
