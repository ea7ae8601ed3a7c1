------------------------- MODULE Algorithms_proofs -------------------------
(***************************************************************************)
(* The algorithms MCAlgorithms checks on small inputs, for inputs of any   *)
(* size: the merge of two tiers, toroidal_separation, _plan_tables,        *)
(* tune_thresholds and the backend that serves, the ablation's arms, the   *)
(* scripts' recalls, the order the metrics add up in, the candidate heap,  *)
(* the exact scans; and that the runs' batches are RowArrays_proofs's.     *)
(***************************************************************************)
EXTENDS MCAlgorithms, RowArrays_proofs

-----------------------------------------------------------------------------
(***************************************************************************)
(* The merge of two sorted tiers: for key-sorted inputs of any length, the *)
(* two-index loop of the compiled core puts every entry where the          *)
(* reference's searchsorted-and-insert puts it.                            *)
(***************************************************************************)
\* What a member of Tiers is, index by index.
LEMMA LoopTiers ==
    ASSUME NEW T \in Tiers
    PROVE  /\ T \in Seq(EntryType)
           /\ Len(T) \in Nat
           /\ \A i \in 1..Len(T) : T[i] \in EntryType /\ T[i].key \in Int
           /\ \A i, j \in 1..Len(T) : i <= j => T[i].key <= T[j].key
<1>1. T \in Seq(EntryType) /\ KeySorted(T)
  BY TiersAssumption
<1>2. Len(T) \in Nat /\ DOMAIN T = 1..Len(T)
  BY <1>1, LenProperties
<1>3. \A i \in 1..Len(T) : T[i] \in EntryType
  BY <1>1, ElementOfSeq
<1>4. \A i \in 1..Len(T) : T[i].key \in Int
  BY <1>3 DEF EntryType
<1> QED
  BY <1>1, <1>2, <1>3, <1>4 DEF KeySorted

\* The array after one more output.
LEMMA AppendFacts ==
    ASSUME NEW o \in Seq(EntryType), NEW e \in EntryType
    PROVE  /\ Append(o, e) \in Seq(EntryType)
           /\ Len(Append(o, e)) = Len(o) + 1
           /\ \A i \in 1..Len(o) : Append(o, e)[i] = o[i]
           /\ Append(o, e)[Len(o) + 1] = e
BY AppendProperties

\* The loop takes a kept entry only when there is one left.
LEMMA KeptRemains ==
    ASSUME TypeOK, TakeKept
    PROVE  b + 1 \in 1..Len(kept)
<1>1. Len(fresh) \in Nat /\ Len(kept) \in Nat
  BY LoopTiers DEF TypeOK
<1>2. a + b < Len(fresh) + Len(kept)
  BY DEF TypeOK, TakeKept, Running
<1>3. CASE a < Len(fresh)
  BY <1>1, <1>3 DEF TypeOK, TakeKept, TakesFresh
<1>4. CASE ~(a < Len(fresh))
  BY <1>1, <1>2, <1>4 DEF TypeOK
<1> QED
  BY <1>3, <1>4

\* The loop variables keep their types, and a + b counts the outputs.
THEOREM TypeCorrect == Spec => []TypeOK
<1>1. Init => TypeOK
  <2> SUFFICES ASSUME Init PROVE TypeOK
    OBVIOUS
  <2>1. Len(fresh) \in Nat /\ Len(kept) \in Nat
    BY LoopTiers DEF Init
  <2>2. <<>> \in Seq(EntryType) /\ Len(<<>>) = 0
    BY EmptySeq
  <2> QED
    BY <2>1, <2>2 DEF Init, TypeOK
<1>2. TypeOK /\ [Next]_vars => TypeOK'
  <2> SUFFICES ASSUME TypeOK, [Next]_vars PROVE TypeOK'
    OBVIOUS
  <2>0. Len(fresh) \in Nat /\ Len(kept) \in Nat
    BY LoopTiers DEF TypeOK
  <2>1. CASE TakeFresh
    <3>1. a + 1 \in 1..Len(fresh)
      BY <2>0, <2>1 DEF TypeOK, TakeFresh, TakesFresh
    <3>2. fresh[a + 1] \in EntryType
      BY <3>1, LoopTiers DEF TypeOK
    <3>3. out' \in Seq(EntryType) /\ Len(out') = Len(out) + 1
      BY <2>1, <3>2, AppendFacts DEF TypeOK, TakeFresh
    <3> QED
      BY <2>0, <2>1, <3>1, <3>3 DEF TypeOK, TakeFresh
  <2>2. CASE TakeKept
    <3>1. b + 1 \in 1..Len(kept)
      BY <2>2, KeptRemains
    <3>2. kept[b + 1] \in EntryType
      BY <3>1, LoopTiers DEF TypeOK
    <3>3. out' \in Seq(EntryType) /\ Len(out') = Len(out) + 1
      BY <2>2, <3>2, AppendFacts DEF TypeOK, TakeKept
    <3> QED
      BY <2>0, <2>2, <3>1, <3>3 DEF TypeOK, TakeKept
  <2>3. CASE UNCHANGED vars
    BY <2>3 DEF TypeOK, vars
  <2> QED
    BY <2>1, <2>2, <2>3 DEF Next
<1> QED
  BY <1>1, <1>2, PTL DEF Spec

-----------------------------------------------------------------------------
\* What one step reads and writes, index by index: the facts every invariance
\* proof below needs of an action.
LEMMA TakeFreshFacts ==
    ASSUME TypeOK, TakeFresh
    PROVE  /\ a + 1 \in 1..Len(fresh)
           /\ b + 1 \in 1..Len(kept) => fresh[a + 1].key <= kept[b + 1].key
           /\ a' = a + 1 /\ b' = b /\ fresh' = fresh /\ kept' = kept
           /\ Len(out') = a + b + 1
           /\ \A i \in 1..(a + b) : out'[i] = out[i]
           /\ out'[a + b + 1] = fresh[a + 1]
<1>0. Len(fresh) \in Nat /\ Len(kept) \in Nat
  BY LoopTiers DEF TypeOK
<1>1. a + 1 \in 1..Len(fresh)
  BY <1>0 DEF TypeOK, TakeFresh, TakesFresh
<1>2. fresh[a + 1] \in EntryType
  BY <1>1, LoopTiers DEF TypeOK
<1>3. /\ Len(out') = Len(out) + 1
      /\ \A i \in 1..Len(out) : out'[i] = out[i]
      /\ out'[Len(out) + 1] = fresh[a + 1]
  BY <1>2, AppendFacts DEF TypeOK, TakeFresh
<1> QED
  BY <1>0, <1>1, <1>3 DEF TypeOK, TakeFresh, TakesFresh

\* The same of a turn that takes a kept entry.
LEMMA TakeKeptFacts ==
    ASSUME TypeOK, TakeKept
    PROVE  /\ b + 1 \in 1..Len(kept)
           /\ a + 1 \in 1..Len(fresh) => kept[b + 1].key < fresh[a + 1].key
           /\ a' = a /\ b' = b + 1 /\ fresh' = fresh /\ kept' = kept
           /\ Len(out') = a + b + 1
           /\ \A i \in 1..(a + b) : out'[i] = out[i]
           /\ out'[a + b + 1] = kept[b + 1]
<1>0. Len(fresh) \in Nat /\ Len(kept) \in Nat
  BY LoopTiers DEF TypeOK
<1>1. b + 1 \in 1..Len(kept)
  BY KeptRemains
<1>2. kept[b + 1] \in EntryType /\ kept[b + 1].key \in Int
  BY <1>1, LoopTiers DEF TypeOK
<1>3. /\ Len(out') = Len(out) + 1
      /\ \A i \in 1..Len(out) : out'[i] = out[i]
      /\ out'[Len(out) + 1] = kept[b + 1]
  BY <1>2, AppendFacts DEF TypeOK, TakeKept
<1>4. ASSUME a + 1 \in 1..Len(fresh) PROVE kept[b + 1].key < fresh[a + 1].key
  <2>1. fresh[a + 1].key \in Int
    BY <1>4, LoopTiers DEF TypeOK
  <2> QED
    BY <1>0, <1>2, <1>4, <2>1 DEF TypeOK, TakeKept, TakesFresh
<1> QED
  BY <1>0, <1>1, <1>3, <1>4 DEF TypeOK, TakeKept

\* The two index facts behind the placement theorems.
LEMMA HeadsStep ==
    ASSUME TypeOK, Heads, [Next]_vars
    PROVE  Heads'
<1>0. /\ Len(fresh) \in Nat /\ Len(kept) \in Nat /\ a \in Nat /\ b \in Nat
      /\ a <= Len(fresh) /\ b <= Len(kept)
      /\ \A i \in 1..Len(fresh) : fresh[i].key \in Int
      /\ \A i \in 1..Len(kept) : kept[i].key \in Int
      /\ \A i, j \in 1..Len(fresh) : i <= j => fresh[i].key <= fresh[j].key
      /\ \A i, j \in 1..Len(kept) : i <= j => kept[i].key <= kept[j].key
  BY LoopTiers DEF TypeOK
<1>1. CASE TakeFresh
  <2> USE <1>1, TakeFreshFacts
  <2>1. ASSUME a' < Len(fresh'), NEW j \in 1..b' PROVE kept'[j].key < fresh'[a' + 1].key
    <3>1. kept[j].key < fresh[a + 1].key
      BY <1>0, <2>1 DEF Heads
    <3>2. a + 1 \in 1..Len(fresh) /\ a + 2 \in 1..Len(fresh) /\ a' + 1 = a + 2
      BY <1>0, <2>1
    <3>3. fresh[a + 1].key <= fresh[a + 2].key
      BY ONLY <1>0, <3>2
    <3>4. j \in 1..Len(kept)
      BY <1>0, <2>1
    <3> QED
      BY <1>0, <3>1, <3>2, <3>3, <3>4
  <2>2. ASSUME b' < Len(kept'), NEW j \in 1..a' PROVE fresh'[j].key <= kept'[b' + 1].key
    <3>1. CASE j = a + 1
      BY <1>0, <2>2, <3>1
    <3>2. CASE j \in 1..a
      BY <1>0, <2>2, <3>2 DEF Heads
    <3> QED
      BY <1>0, <3>1, <3>2
  <2> QED
    BY <2>1, <2>2 DEF Heads
<1>2. CASE TakeKept
  <2> USE <1>2, TakeKeptFacts
  <2>1. ASSUME a' < Len(fresh'), NEW j \in 1..b' PROVE kept'[j].key < fresh'[a' + 1].key
    <3>1. CASE j = b + 1
      BY <1>0, <2>1, <3>1
    <3>2. CASE j \in 1..b
      BY <1>0, <2>1, <3>2 DEF Heads
    <3> QED
      BY <1>0, <3>1, <3>2
  <2>2. ASSUME b' < Len(kept'), NEW j \in 1..a' PROVE fresh'[j].key <= kept'[b' + 1].key
    <3>1. fresh[j].key <= kept[b + 1].key
      BY <1>0, <2>2 DEF Heads
    <3>2. b + 1 \in 1..Len(kept) /\ b + 2 \in 1..Len(kept) /\ b' + 1 = b + 2
      BY <1>0, <2>2
    <3>3. kept[b + 1].key <= kept[b + 2].key
      BY ONLY <1>0, <3>2
    <3>4. j \in 1..Len(fresh)
      BY <1>0, <2>2
    <3> QED
      BY <1>0, <3>1, <3>2, <3>3, <3>4
  <2> QED
    BY <2>1, <2>2 DEF Heads
<1>3. CASE UNCHANGED vars
  BY <1>3 DEF Heads, vars
<1> QED
  BY <1>1, <1>2, <1>3 DEF Next

\* At every moment of the merge the entries passed are below the other tier's head.
THEOREM HeadsHold == Spec => []Heads
<1>1. Init => Heads
  BY DEF Init, Heads
<1>2. TypeOK /\ Heads /\ [Next]_vars => Heads'
  BY HeadsStep
<1> QED
  BY <1>1, <1>2, TypeCorrect, PTL DEF Spec

-----------------------------------------------------------------------------
\* The ranges and orders of the inputs, in the form the steps below cite.
LEMMA Bounds ==
    ASSUME TypeOK
    PROVE  /\ Len(fresh) \in Nat /\ Len(kept) \in Nat /\ a \in Nat /\ b \in Nat
           /\ a <= Len(fresh) /\ b <= Len(kept) /\ Len(out) = a + b
           /\ \A i \in 1..Len(fresh) : fresh[i].key \in Int
           /\ \A i \in 1..Len(kept) : kept[i].key \in Int
           /\ \A i, j \in 1..Len(fresh) : i <= j => fresh[i].key <= fresh[j].key
           /\ \A i, j \in 1..Len(kept) : i <= j => kept[i].key <= kept[j].key
BY LoopTiers DEF TypeOK

\* When the loop takes a fresh entry, the kept entries consumed so far are
\* exactly the ones a search for its key would pass over.
LEMMA FreshLowerBound ==
    ASSUME TypeOK, Heads, TakeFresh
    PROVE  IsLowerBound(kept, fresh[a + 1].key, b)
<1>0. /\ a + 1 \in 1..Len(fresh)
      /\ b + 1 \in 1..Len(kept) => fresh[a + 1].key <= kept[b + 1].key
  BY TakeFreshFacts
<1>1. \A i \in 1..b : kept[i].key < fresh[a + 1].key
  BY <1>0, Bounds DEF Heads
<1>2. ASSUME NEW i \in (b + 1)..Len(kept) PROVE kept[i].key >= fresh[a + 1].key
  <2>1. b + 1 \in 1..Len(kept) /\ i \in 1..Len(kept) /\ b + 1 <= i
    BY Bounds
  <2>2. kept[b + 1].key <= kept[i].key
    BY <2>1, Bounds
  <2> QED
    BY <1>0, <2>1, <2>2, Bounds
<1> QED
  BY <1>1, <1>2, Bounds DEF IsLowerBound

\* Dually for a kept entry: the fresh entries consumed are those at or below it.
LEMMA KeptUpperBound ==
    ASSUME TypeOK, Heads, TakeKept
    PROVE  IsUpperBound(fresh, kept[b + 1].key, a)
<1>0. /\ b + 1 \in 1..Len(kept)
      /\ a + 1 \in 1..Len(fresh) => kept[b + 1].key < fresh[a + 1].key
  BY TakeKeptFacts
<1>1. \A i \in 1..a : fresh[i].key <= kept[b + 1].key
  BY <1>0, Bounds DEF Heads
<1>2. ASSUME NEW i \in (a + 1)..Len(fresh) PROVE fresh[i].key > kept[b + 1].key
  <2>1. a + 1 \in 1..Len(fresh) /\ i \in 1..Len(fresh) /\ a + 1 <= i
    BY Bounds
  <2>2. fresh[a + 1].key <= fresh[i].key
    BY <2>1, Bounds
  <2> QED
    BY <1>0, <2>1, <2>2, Bounds
<1> QED
  BY <1>1, <1>2, Bounds DEF IsUpperBound

\* Every consumed fresh entry stands at its rank plus its lower bound in the
\* kept tier: the slot np.insert gives it.
LEMMA FreshPlacement == Spec => []FreshPlaced
<1>1. Init => FreshPlaced
  BY DEF Init, FreshPlaced
<1>2. TypeOK /\ Heads /\ FreshPlaced /\ [Next]_vars => FreshPlaced'
  <2> SUFFICES ASSUME TypeOK, Heads, FreshPlaced, [Next]_vars PROVE FreshPlaced'
    OBVIOUS
  <2>0. a \in Nat /\ b \in Nat
    BY Bounds
  <2>1. CASE TakeFresh
    <3>0. /\ a' = a + 1 /\ b' = b /\ fresh' = fresh /\ kept' = kept
          /\ \A i \in 1..(a + b) : out'[i] = out[i]
          /\ out'[a + b + 1] = fresh[a + 1]
      BY <2>1, TakeFreshFacts
    <3> SUFFICES ASSUME NEW j \in 1..(a + 1)
                 PROVE  \E p \in 0..b : IsLowerBound(kept, fresh[j].key, p)
                                        /\ out'[j + p] = fresh[j]
      BY <3>0 DEF FreshPlaced
    <3>1. CASE j = a + 1
      <4>1. IsLowerBound(kept, fresh[j].key, b)
        BY <2>1, <3>1, FreshLowerBound
      <4>2. j + b = a + b + 1 /\ b \in 0..b
        BY <2>0, <3>1
      <4> QED
        BY <3>0, <3>1, <4>1, <4>2
    <3>2. CASE j \in 1..a
      <4>1. PICK p \in 0..b : IsLowerBound(kept, fresh[j].key, p) /\ out[j + p] = fresh[j]
        BY <3>2 DEF FreshPlaced
      <4>2. j + p \in 1..(a + b)
        BY <2>0, <3>2
      <4> QED
        BY <3>0, <4>1, <4>2
    <3> QED
      BY <2>0, <3>1, <3>2
  <2>2. CASE TakeKept
    <3>0. /\ a' = a /\ b' = b + 1 /\ fresh' = fresh /\ kept' = kept
          /\ \A i \in 1..(a + b) : out'[i] = out[i]
      BY <2>2, TakeKeptFacts
    <3> SUFFICES ASSUME NEW j \in 1..a
                 PROVE  \E p \in 0..(b + 1) : IsLowerBound(kept, fresh[j].key, p)
                                              /\ out'[j + p] = fresh[j]
      BY <3>0 DEF FreshPlaced
    <3>1. PICK p \in 0..b : IsLowerBound(kept, fresh[j].key, p) /\ out[j + p] = fresh[j]
      BY DEF FreshPlaced
    <3>2. j + p \in 1..(a + b) /\ p \in 0..(b + 1)
      BY <2>0
    <3> QED
      BY <3>0, <3>1, <3>2
  <2>3. CASE UNCHANGED vars
    BY <2>3 DEF FreshPlaced, vars
  <2> QED
    BY <2>1, <2>2, <2>3 DEF Next
<1> QED
  BY <1>1, <1>2, TypeCorrect, HeadsHold, PTL DEF Spec

\* Every consumed kept entry is shifted by the fresh entries at or below it.
LEMMA KeptPlacement == Spec => []KeptPlaced
<1>1. Init => KeptPlaced
  BY DEF Init, KeptPlaced
<1>2. TypeOK /\ Heads /\ KeptPlaced /\ [Next]_vars => KeptPlaced'
  <2> SUFFICES ASSUME TypeOK, Heads, KeptPlaced, [Next]_vars PROVE KeptPlaced'
    OBVIOUS
  <2>0. a \in Nat /\ b \in Nat
    BY Bounds
  <2>1. CASE TakeFresh
    <3>0. /\ a' = a + 1 /\ b' = b /\ fresh' = fresh /\ kept' = kept
          /\ \A i \in 1..(a + b) : out'[i] = out[i]
      BY <2>1, TakeFreshFacts
    <3> SUFFICES ASSUME NEW j \in 1..b
                 PROVE  \E p \in 0..(a + 1) : IsUpperBound(fresh, kept[j].key, p)
                                              /\ out'[j + p] = kept[j]
      BY <3>0 DEF KeptPlaced
    <3>1. PICK p \in 0..a : IsUpperBound(fresh, kept[j].key, p) /\ out[j + p] = kept[j]
      BY DEF KeptPlaced
    <3>2. j + p \in 1..(a + b) /\ p \in 0..(a + 1)
      BY <2>0
    <3> QED
      BY <3>0, <3>1, <3>2
  <2>2. CASE TakeKept
    <3>0. /\ a' = a /\ b' = b + 1 /\ fresh' = fresh /\ kept' = kept
          /\ \A i \in 1..(a + b) : out'[i] = out[i]
          /\ out'[a + b + 1] = kept[b + 1]
      BY <2>2, TakeKeptFacts
    <3> SUFFICES ASSUME NEW j \in 1..(b + 1)
                 PROVE  \E p \in 0..a : IsUpperBound(fresh, kept[j].key, p)
                                        /\ out'[j + p] = kept[j]
      BY <3>0 DEF KeptPlaced
    <3>1. CASE j = b + 1
      <4>1. IsUpperBound(fresh, kept[j].key, a)
        BY <2>2, <3>1, KeptUpperBound
      <4>2. j + a = a + b + 1 /\ a \in 0..a
        BY <2>0, <3>1
      <4> QED
        BY <3>0, <3>1, <4>1, <4>2
    <3>2. CASE j \in 1..b
      <4>1. PICK p \in 0..a : IsUpperBound(fresh, kept[j].key, p) /\ out[j + p] = kept[j]
        BY <3>2 DEF KeptPlaced
      <4>2. j + p \in 1..(a + b)
        BY <2>0, <3>2
      <4> QED
        BY <3>0, <4>1, <4>2
    <3> QED
      BY <2>0, <3>1, <3>2
  <2>3. CASE UNCHANGED vars
    BY <2>3 DEF KeptPlaced, vars
  <2> QED
    BY <2>1, <2>2, <2>3 DEF Next
<1> QED
  BY <1>1, <1>2, TypeCorrect, HeadsHold, PTL DEF Spec

\* Every output of the loop is where the reference's searchsorted and insert put it.
THEOREM EntryPlacement == Spec => []EntriesPlaced
BY FreshPlacement, KeptPlacement, PTL DEF EntriesPlaced

\* The output array, index by index.
LEMMA OutFacts ==
    ASSUME TypeOK
    PROVE  /\ DOMAIN out = 1..Len(out)
           /\ \A i \in 1..Len(out) : out[i].key \in Int
<1>1. out \in Seq(EntryType)
  BY DEF TypeOK
<1>2. \A i \in 1..Len(out) : out[i] \in EntryType
  BY <1>1, ElementOfSeq
<1> QED
  BY <1>1, <1>2, LenProperties DEF EntryType

\* Appending an entry that is above everything written and below both of the
\* next heads keeps the output sorted.
LEMMA SortedAppend ==
    ASSUME TypeOK, TypeOK', OutSorted, NEW e \in EntryType,
           Len(out') = Len(out) + 1,
           \A i \in 1..Len(out) : out'[i] = out[i],
           out'[Len(out) + 1] = e,
           \A i \in 1..Len(out) : out[i].key <= e.key,
           a' < Len(fresh') => e.key <= fresh'[a' + 1].key /\ fresh'[a' + 1].key \in Int,
           b' < Len(kept') => e.key <= kept'[b' + 1].key /\ kept'[b' + 1].key \in Int
    PROVE  OutSorted'
<1>0. /\ e.key \in Int
      /\ Len(out) \in Nat
      /\ \A i \in 1..Len(out) : out[i].key \in Int
      /\ DOMAIN out = 1..Len(out)
      /\ DOMAIN out' = 1..(Len(out) + 1)
  <2>1. DOMAIN out' = 1..Len(out')
    BY LenProperties DEF TypeOK
  <2>2. Len(out) \in Nat
    BY LenProperties DEF TypeOK
  <2> QED
    BY <2>1, <2>2, OutFacts DEF EntryType
<1>1. \A i \in 1..(Len(out) + 1) : out'[i].key \in Int /\ out'[i].key <= e.key
  BY <1>0
<1>2. ASSUME NEW i \in DOMAIN out', NEW j \in DOMAIN out', i <= j
      PROVE  out'[i].key <= out'[j].key
  <2>1. CASE j = Len(out) + 1
    BY <1>0, <1>1, <2>1
  <2>2. CASE j \in 1..Len(out)
    <3>1. i \in 1..Len(out)
      BY <1>0, <1>2, <2>2
    <3>2. out[i].key <= out[j].key
      BY <1>0, <1>2, <2>2, <3>1 DEF OutSorted, KeySorted
    <3> QED
      BY <2>2, <3>1, <3>2
  <2> QED
    BY <1>0, <2>1, <2>2
<1>3. ASSUME NEW i \in DOMAIN out'
      PROVE  /\ a' < Len(fresh') => out'[i].key <= fresh'[a' + 1].key
             /\ b' < Len(kept') => out'[i].key <= kept'[b' + 1].key
  BY <1>0, <1>1, <1>3
<1> QED
  BY <1>2, <1>3 DEF OutSorted, KeySorted

\* The merged array is sorted at every step of the loop.
THEOREM OutputSorted == Spec => []OutSorted
<1>1. Init => OutSorted
  BY DEF Init, OutSorted, KeySorted
<1>2. TypeOK /\ TypeOK' /\ OutSorted /\ [Next]_vars => OutSorted'
  <2> SUFFICES ASSUME TypeOK, TypeOK', OutSorted, [Next]_vars PROVE OutSorted'
    OBVIOUS
  <2>1. CASE TakeFresh
    <3>0. /\ a + 1 \in 1..Len(fresh)
          /\ b + 1 \in 1..Len(kept) => fresh[a + 1].key <= kept[b + 1].key
          /\ a' = a + 1 /\ b' = b /\ fresh' = fresh /\ kept' = kept
          /\ Len(out') = Len(out) + 1
          /\ \A i \in 1..Len(out) : out'[i] = out[i]
          /\ out'[Len(out) + 1] = fresh[a + 1]
      BY <2>1, TakeFreshFacts, Bounds
    <3>1. fresh[a + 1] \in EntryType
      BY <3>0, LoopTiers DEF TypeOK
    <3>2. \A i \in 1..Len(out) : out[i].key <= fresh[a + 1].key
      <4>1. a < Len(fresh)
        BY <3>0, Bounds
      <4> QED
        BY <4>1, OutFacts DEF OutSorted
    <3>3. a' < Len(fresh') => fresh[a + 1].key <= fresh'[a' + 1].key /\ fresh'[a' + 1].key \in Int
      <4> SUFFICES ASSUME a + 1 < Len(fresh)
                   PROVE  fresh[a + 1].key <= fresh[a + 2].key /\ fresh[a + 2].key \in Int
        BY <3>0, Bounds
      <4>1. a + 1 \in 1..Len(fresh) /\ a + 2 \in 1..Len(fresh) /\ a + 1 <= a + 2
        BY Bounds
      <4>2. /\ \A i \in 1..Len(fresh) : fresh[i].key \in Int
            /\ \A i, j \in 1..Len(fresh) : i <= j => fresh[i].key <= fresh[j].key
        BY Bounds
      <4> QED
        BY ONLY <4>1, <4>2
    <3>4. b' < Len(kept') => fresh[a + 1].key <= kept'[b' + 1].key /\ kept'[b' + 1].key \in Int
      BY <3>0, Bounds
    <3> QED
      BY <3>0, <3>1, <3>2, <3>3, <3>4, SortedAppend
  <2>2. CASE TakeKept
    <3>0. /\ b + 1 \in 1..Len(kept)
          /\ a + 1 \in 1..Len(fresh) => kept[b + 1].key < fresh[a + 1].key
          /\ a' = a /\ b' = b + 1 /\ fresh' = fresh /\ kept' = kept
          /\ Len(out') = Len(out) + 1
          /\ \A i \in 1..Len(out) : out'[i] = out[i]
          /\ out'[Len(out) + 1] = kept[b + 1]
      BY <2>2, TakeKeptFacts, Bounds
    <3>1. kept[b + 1] \in EntryType
      BY <3>0, LoopTiers DEF TypeOK
    <3>2. \A i \in 1..Len(out) : out[i].key <= kept[b + 1].key
      <4>1. b < Len(kept)
        BY <3>0, Bounds
      <4> QED
        BY <4>1, OutFacts DEF OutSorted
    <3>3. b' < Len(kept') => kept[b + 1].key <= kept'[b' + 1].key /\ kept'[b' + 1].key \in Int
      <4> SUFFICES ASSUME b + 1 < Len(kept)
                   PROVE  kept[b + 1].key <= kept[b + 2].key /\ kept[b + 2].key \in Int
        BY <3>0, Bounds, SMTT(30)
      <4>1. b + 1 \in 1..Len(kept) /\ b + 2 \in 1..Len(kept) /\ b + 1 <= b + 2
        BY Bounds
      <4>2. /\ \A i \in 1..Len(kept) : kept[i].key \in Int
            /\ \A i, j \in 1..Len(kept) : i <= j => kept[i].key <= kept[j].key
        BY Bounds
      <4> QED
        BY ONLY <4>1, <4>2
    <3>4. a' < Len(fresh') => kept[b + 1].key <= fresh'[a' + 1].key /\ fresh'[a' + 1].key \in Int
      BY <3>0, Bounds
    <3> QED
      BY <3>0, <3>1, <3>2, <3>3, <3>4, SortedAppend
  <2>3. CASE UNCHANGED vars
    BY <2>3 DEF OutSorted, vars
  <2> QED
    BY <2>1, <2>2, <2>3 DEF Next
<1> QED
  BY <1>1, <1>2, TypeCorrect, PTL DEF Spec

-----------------------------------------------------------------------------
\* What is written so far is the beginning of NumPy's array, and the loop has
\* consumed the fresh entries whose slots it has passed.
Agreed ==
    /\ a = Opened(kept, fresh, Len(out) + 1)
    /\ \A i \in 1..Len(out) : out[i] = NumpyInsert(kept, fresh)[i]

\* One more output, of either kind.
LEMMA AgreedAppend ==
    ASSUME Agreed, Len(out) \in Nat, Len(out') = Len(out) + 1, fresh' = fresh, kept' = kept,
           \A i \in 1..Len(out) : out'[i] = out[i],
           out'[Len(out) + 1] = NumpyInsert(kept, fresh)[Len(out) + 1],
           a' = Opened(kept, fresh, Len(out) + 2)
    PROVE  Agreed'
<1>1. Len(out) \in Nat
  OBVIOUS
<1>2. ASSUME NEW i \in 1..Len(out') PROVE out'[i] = NumpyInsert(kept, fresh)[i]
  <2>1. CASE i = Len(out) + 1
    BY <2>1
  <2>2. CASE i \in 1..Len(out)
    BY <2>2 DEF Agreed
  <2> QED
    BY <1>1, <2>1, <2>2
<1>3. Len(out') + 1 = Len(out) + 2
  BY <1>1
<1>4. a' = Opened(kept, fresh, Len(out') + 1)
  BY <1>3
<1>5. Agreed' <=> /\ a' = Opened(kept', fresh', Len(out') + 1)
                  /\ \A i \in 1..Len(out') : out'[i] = NumpyInsert(kept', fresh')[i]
  BY DEF Agreed
<1> QED
  BY <1>2, <1>4, <1>5

\* When the loop is done its array is the one NumPy builds, and the one the
\* tables of the compiled core are modelled with.
THEOREM LoopAgrees == Spec => []MergeAgrees
<1>1. Init => Agreed
  <2> SUFFICES ASSUME Init PROVE Agreed
    OBVIOUS
  <2>1. /\ fresh \in Seq(EntryType) /\ kept \in Seq(EntryType)
        /\ KeySorted(fresh) /\ KeySorted(kept)
    BY TiersAssumption DEF Init
  <2>2. Len(fresh) \in Nat /\ Len(kept) \in Nat /\ Len(out) = 0
    BY <2>1, LenProperties, EmptySeq DEF Init
  <2>3. 1 \in 1..(Len(kept) + Len(fresh) + 1)
    BY <2>2
  <2>4. Opened(kept, fresh, 1) \in 0..Len(fresh) /\ 1 - 1 - Opened(kept, fresh, 1) \in 0..Len(kept)
    BY <2>1, <2>3, OpenedFacts
  <2>5. Opened(kept, fresh, 1) = 0
    BY <2>2, <2>4
  <2> QED
    BY <2>2, <2>5 DEF Init, Agreed
<1>2. TypeOK /\ Agreed /\ [Next]_vars => Agreed'
  <2> SUFFICES ASSUME TypeOK, Agreed, [Next]_vars PROVE Agreed'
    OBVIOUS
  <2>1. /\ fresh \in Seq(EntryType) /\ kept \in Seq(EntryType)
        /\ KeySorted(fresh) /\ KeySorted(kept)
    BY TiersAssumption DEF TypeOK
  <2>2. /\ Len(fresh) \in Nat /\ Len(kept) \in Nat /\ a \in Int /\ b \in Int
        /\ Len(out) = a + b /\ Len(out) \in Nat
    BY Bounds, LenProperties DEF TypeOK
  <2> DEFINE i == Len(out) + 1
  <2>3. Running => i \in 1..(Len(kept) + Len(fresh))
    BY <2>2 DEF Running
  <2>4. a = Opened(kept, fresh, i) /\ i - 1 - a = b /\ i - a = b + 1 /\ i + 1 = Len(out) + 2
    BY <2>2, SMTT(30) DEF Agreed
  <2> HIDE DEF i
  <2>5. Running => \/ /\ TakesFresh(fresh, kept, a, b)
                      /\ Opened(kept, fresh, i + 1) = a + 1
                      /\ NumpyInsert(kept, fresh)[i] = fresh[a + 1]
                   \/ /\ ~TakesFresh(fresh, kept, a, b)
                      /\ Opened(kept, fresh, i + 1) = a
                      /\ NumpyInsert(kept, fresh)[i] = kept[b + 1]
    <3> SUFFICES ASSUME Running
                 PROVE  \/ /\ TakesFresh(fresh, kept, a, i - 1 - a)
                           /\ Opened(kept, fresh, i + 1) = a + 1
                           /\ NumpyInsert(kept, fresh)[i] = fresh[a + 1]
                        \/ /\ ~TakesFresh(fresh, kept, a, i - 1 - a)
                           /\ Opened(kept, fresh, i + 1) = a
                           /\ NumpyInsert(kept, fresh)[i] = kept[i - a]
      BY <2>4
    <3> DEFINE c == a
    <3>1. c \in Int /\ c = Opened(kept, fresh, i)
      BY <2>2, <2>4
    <3> HIDE DEF c
    <3>2. \/ /\ TakesFresh(fresh, kept, c, i - 1 - c)
             /\ Opened(kept, fresh, i + 1) = c + 1
             /\ NumpyInsert(kept, fresh)[i] = fresh[c + 1]
          \/ /\ ~TakesFresh(fresh, kept, c, i - 1 - c)
             /\ Opened(kept, fresh, i + 1) = c
             /\ NumpyInsert(kept, fresh)[i] = kept[i - c]
      BY <2>1, <2>3, <3>1, MergeStep
    <3> QED
      BY <3>2 DEF c
  <2>6. CASE TakeFresh
    <3>1. /\ Len(out') = Len(out) + 1 /\ fresh' = fresh /\ kept' = kept /\ a' = a + 1
          /\ \A l \in 1..Len(out) : out'[l] = out[l]
          /\ out'[i] = fresh[a + 1]
      BY <2>2, <2>6, TakeFreshFacts DEF i
    <3>2. a' = Opened(kept, fresh, i + 1) /\ out'[i] = NumpyInsert(kept, fresh)[i]
      BY <2>5, <2>6, <3>1 DEF TakeFresh
    <3> QED
      BY <2>2, <2>4, <3>1, <3>2, AgreedAppend DEF i
  <2>7. CASE TakeKept
    <3>1. /\ Len(out') = Len(out) + 1 /\ fresh' = fresh /\ kept' = kept /\ a' = a
          /\ \A l \in 1..Len(out) : out'[l] = out[l]
          /\ out'[i] = kept[b + 1]
      BY <2>2, <2>7, TakeKeptFacts DEF i
    <3>2. a' = Opened(kept, fresh, i + 1) /\ out'[i] = NumpyInsert(kept, fresh)[i]
      BY <2>5, <2>7, <3>1 DEF TakeKept
    <3> QED
      BY <2>2, <2>4, <3>1, <3>2, AgreedAppend DEF i
  <2>8. CASE UNCHANGED vars
    BY <2>8 DEF Agreed, vars
  <2> QED
    BY <2>6, <2>7, <2>8 DEF Next
<1>3. TypeOK /\ Agreed => MergeAgrees
  <2> SUFFICES ASSUME TypeOK, Agreed, ~Running
               PROVE  out = NumpyInsert(kept, fresh) /\ out = TwoPointerMerge(fresh, kept)
    BY DEF MergeAgrees
  <2>1. /\ fresh \in Seq(EntryType) /\ kept \in Seq(EntryType)
        /\ KeySorted(fresh) /\ KeySorted(kept)
    BY TiersAssumption DEF TypeOK
  <2>2. Len(fresh) \in Nat /\ Len(kept) \in Nat
    BY <2>1, LenProperties
  <2> DEFINE N == Len(kept) + Len(fresh)
             in == NumpyInsert(kept, fresh)
  <2>3. Len(out) = N
    BY <2>2 DEF TypeOK, Running
  <2>4. out \in Seq(EntryType) /\ \A i \in 1..N : out[i] = in[i]
    BY <2>3 DEF TypeOK, Agreed
  <2>5. out = [i \in 1..N |-> out[i]]
    BY <2>3, <2>4, LenProperties
  <2>6. in = [i \in 1..N |-> in[i]]
    BY DEF NumpyInsert
  <2> HIDE DEF in, N
  <2>7. out = in
    BY <2>4, <2>5, <2>6
  <2>8. NumpyInsert(kept, fresh) = TwoPointerMerge(fresh, kept)
    BY <2>1, MergeSame
  <2> QED
    BY <2>7, <2>8 DEF in
<1> QED
  BY <1>1, <1>2, <1>3, TypeCorrect, PTL DEF Spec

-----------------------------------------------------------------------------
(***************************************************************************)
(* toroidal_separation.                                                    *)
(***************************************************************************)
\* The least member of a set of numbers is its Min.
LEMMA LeastIsMin ==
    ASSUME NEW X, \A x \in X : x \in Int, NEW m \in X, \A x \in X : m <= x
    PROVE  Min(X) = m
<1>1. \A x \in X : (\A y \in X : x <= y) => x = m
  OBVIOUS
<1> QED
  BY <1>1 DEF Min

\* A place is no distance from itself.
LEMMA SelfDist ==
    ASSUME NEW x \in Positions
    PROVE  Dist(x, x) = 0
<1> DEFINE f == [i \in Axes |-> AxisGap(x[i], x[i])]
<1>1. ASSUME NEW i \in Axes PROVE f[i] = 0
  <2> DEFINE v == x[i]
  <2>1. v \in 0..(Grid - 1)
    BY DEF Positions
  <2> HIDE DEF v
  <2>2. AxisGap(v, v) = (IF 0 <= Grid THEN 0 ELSE Grid)
    <3>1. v - v = 0 /\ Grid - 0 = Grid
      BY <2>1, HashTypes
    <3> QED
      BY <2>1, <3>1, GapFacts
  <2>3. AxisGap(v, v) = 0
    BY <2>2, HashTypes
  <2> QED
    BY <2>3 DEF v
<1>2. f \in [1..Dims -> Int] /\ Dims \in Nat
  BY <1>1, HashTypes DEF Axes
<1>3. \A i \in 1..Dims : f[i] = 0
  BY <1>1 DEF Axes
<1>4. Dist(x, x) = SumTo(f, Dims)
  BY DEF Dist
<1> HIDE DEF f
<1>5. SumTo(f, Dims) \in Int /\ SumTo(f, Dims) >= 0
  BY <1>2, <1>3, SumType
<1>6. \A i \in 1..Dims : 2 * f[i] <= f[i]
  BY <1>3
<1>7. 2 * SumTo(f, Dims) <= SumTo(f, Dims)
  <2>1. 2 \in Int
    OBVIOUS
  <2> QED
    BY ONLY <1>2, <1>6, <2>1, SumCompares
<1> QED
  BY <1>4, <1>5, <1>7

\* The blocks of _blocks leave no row out.
LEMMA BlocksCover ==
    ASSUME NEW m \in Nat, NEW n \in Nat
    PROVE  UNION ScanBlocks(m, n) = 1..m
<1> DEFINE area == n * Dims
           least == Max({1, area})
           quotient == Budget \div least
           step == Max({1, quotient})
<1>1. area \in Nat /\ Budget \in Nat
  BY HashTypes, BudgetAssumption
<1>2. least \in Nat /\ least >= 1
  <2> HIDE DEF area
  <2> QED
    BY <1>1, GreaterOf
<1>3. quotient \in Int
  <2> HIDE DEF least
  <2> QED
    BY <1>1, <1>2
<1>4. step \in Nat /\ step >= 1
  <2> HIDE DEF quotient
  <2> QED
    BY <1>3, GreaterOf
<1> DEFINE starts == {i \in 1..m : (i - 1) % step = 0}
<1>5. ScanBlocks(m, n) = {s..Min({m, s + step - 1}) : s \in starts}
  BY DEF ScanBlocks
<1> HIDE DEF step
<1>6. ASSUME NEW s \in starts
      PROVE  Min({m, s + step - 1}) \in Nat /\ Min({m, s + step - 1}) <= m
             /\ (s + step - 1 <= m => Min({m, s + step - 1}) = s + step - 1)
             /\ (~(s + step - 1 <= m) => Min({m, s + step - 1}) = m)
  <2> DEFINE e == s + step - 1
  <2>1. e \in Nat
    BY <1>4
  <2> HIDE DEF e
  <2>2. Min({m, e}) = IF m <= e THEN m ELSE e
    BY <2>1, LesserOf
  <2> QED
    BY <2>1, <2>2 DEF e
<1>7. ASSUME NEW x \in UNION ScanBlocks(m, n) PROVE x \in 1..m
  <2>1. PICK s \in starts : x \in s..Min({m, s + step - 1})
    BY <1>5
  <2>2. s \in 1..m /\ Min({m, s + step - 1}) \in Nat /\ Min({m, s + step - 1}) <= m
    BY <1>6
  <2> DEFINE e == Min({m, s + step - 1})
  <2> HIDE DEF e
  <2>3. x \in s..e /\ e \in Nat /\ e <= m
    BY <2>1, <2>2 DEF e
  <2> QED
    BY <2>2, <2>3
<1>8. ASSUME NEW r \in 1..m PROVE r \in UNION ScanBlocks(m, n)
  <2> DEFINE q == (r - 1) \div step
             w == (r - 1) % step
             s == step * q + 1
  <2>1. q \in Nat /\ w \in 0..(step - 1) /\ r - 1 = step * q + w
    BY <1>4
  <2>2. step * q \in Nat
    BY <1>4, <2>1
  <2>3. (s - 1) \div step = q
    <3>1. s - 1 = 0 + step * q /\ 0 \in 0..(step - 1) /\ s - 1 \in Int
      BY <1>4, <2>2
    <3> HIDE DEF q
    <3> QED
      BY <1>4, <2>1, <3>1, Quotient
  <2>4. (s - 1) % step = 0
    <3> DEFINE u == s - 1
    <3>1. u \in Int /\ u = step * (u \div step) + (u % step) /\ u % step \in Int /\ u \div step \in Int
      BY <1>4, <2>2
    <3>2. u = step * q /\ u \div step = q
      BY <2>2, <2>3
    <3> HIDE DEF u
    <3>3. u % step = 0
      <4> DEFINE g == step * q
      <4>1. g \in Int /\ u = g + (u % step) /\ u = g /\ u % step \in Int
        BY <2>2, <3>1, <3>2
      <4> HIDE DEF g
      <4> QED
        BY ONLY <4>1
    <3> QED
      BY <3>3 DEF u
  <2> HIDE DEF q, w
  <2>5. s \in starts /\ r \in s..(s + step - 1)
    <3> DEFINE g == step * q
    <3>1. g \in Nat /\ s = g + 1 /\ r - 1 = g + w /\ w \in 0..(step - 1)
      BY <2>1, <2>2
    <3> HIDE DEF g
    <3>2. s \in 1..m /\ r \in s..(s + step - 1)
      BY <1>4, <3>1
    <3> QED
      BY <2>4, <3>2
  <2> HIDE DEF s
  <2>6. r \in s..Min({m, s + step - 1})
    BY <1>4, <1>6, <2>5
  <2> QED
    BY <1>5, <2>5, <2>6
<1> QED
  BY <1>7, <1>8

\* One point precedes point i by distance from point own and place.
SecondTo(i, own, n, union) ==
    Cardinality({j \in 1..n : \/ Dist(union[own], union[j]) < Dist(union[own], union[i])
                              \/ Dist(union[own], union[j]) = Dist(union[own], union[i])
                                 /\ j < i}) = 1

\* The nearest other point is the second of the reference scan's row, or as near.
LEMMA SecondIsNearest ==
    ASSUME NEW n \in Nat, NEW union \in [1..n -> Positions], NEW own \in 1..n, n >= 2,
           NEW i \in 1..n, SecondTo(i, own, n, union)
    PROVE  /\ \E q \in 1..n \ {own} : Dist(union[own], union[q]) = Dist(union[own], union[i])
           /\ \A q \in 1..n \ {own} : Dist(union[own], union[i]) <= Dist(union[own], union[q])
<1> DEFINE g == [j \in 1..n |-> Dist(union[own], union[j])]
<1>1. \A j \in 1..n : g[j] \in Nat
  BY DistType
<1>2. g[own] = 0
  BY SelfDist
<1>s. Cardinality({j \in 1..n : \/ Dist(union[own], union[j]) < Dist(union[own], union[i])
                                \/ Dist(union[own], union[j]) = Dist(union[own], union[i])
                                   /\ j < i}) = 1
  BY DEF SecondTo
<1>3. Cardinality({j \in 1..n : g[j] < g[i] \/ (g[j] = g[i] /\ j < i)}) = 1
  BY <1>s
<1>4. \A j \in 1..n : g[j] = Dist(union[own], union[j])
  OBVIOUS
<1> HIDE DEF g
<1> DEFINE P == {j \in 1..n : g[j] < g[i] \/ (g[j] = g[i] /\ j < i)}
<1>5. IsFiniteSet(P) /\ Cardinality(P) = 1
  <2>1. IsFiniteSet(1..n) /\ P \subseteq 1..n
    BY FS_Interval
  <2> QED
    BY <1>3, <2>1, FS_Subset
<1>6. PICK e : P = {e}
  <2> HIDE DEF P
  <2> QED
    BY <1>5, FS_Singleton
<1>7. e \in 1..n /\ (g[e] < g[i] \/ (g[e] = g[i] /\ e < i))
  BY <1>6
<1>8. \A j \in 1..n : g[j] < g[i] \/ (g[j] = g[i] /\ j < i) => j = e
  BY <1>6
<1> HIDE DEF P
<1>9. \A q \in 1..n \ {own} : g[i] <= g[q]
  <2> SUFFICES ASSUME NEW q \in 1..n \ {own}, g[q] < g[i] PROVE FALSE
    BY <1>1
  <2>1. q = e
    BY <1>8
  <2>2. own # e /\ ~(g[own] < g[i])
    BY <1>8, <2>1
  <2> QED
    BY <1>1, <1>2, <2>2
<1>10. \E q \in 1..n \ {own} : g[q] = g[i]
  <2>1. CASE i # own
    BY <2>1
  <2>2. CASE i = own
    <3>1. e # own /\ g[e] = g[i]
      BY <1>1, <1>2, <1>7, <2>2
    <3> QED
      BY <1>7, <3>1
  <2> QED
    BY <2>1, <2>2
<1> QED
  BY <1>4, <1>9, <1>10

\* The separation of a batch is its least distance to any other point (metrics.py,
\* toroidal_separation), for points and anchors that coincide in any way and any
\* size of the blocks of rows.
THEOREM SeparationExact ==
    ASSUME NEW points \in Seq(Positions), NEW anchors \in Seq(Positions)
    PROVE  SeparationSound(points, anchors)
<1> DEFINE union == anchors \o points
           n == Len(union)
           m == Len(points)
           s == Len(anchors)
           pairs == {pq \in (DOMAIN points) \X (DOMAIN union) : pq[2] # s + pq[1]}
           gaps == {Dist(points[pq[1]], union[pq[2]]) : pq \in pairs}
<1>1. m \in Nat /\ s \in Nat /\ n = s + m /\ n \in Nat
      /\ DOMAIN points = 1..m /\ DOMAIN union = 1..n /\ union \in [1..n -> Positions]
  <2>1. union \in Seq(Positions) /\ n = s + m
    BY ConcatProperties
  <2> QED
    BY <2>1, LenProperties
<1>2. \A p \in 1..m : s + p \in 1..n /\ union[s + p] = points[p] /\ points[p] \in Positions
  <2> SUFFICES ASSUME NEW p \in 1..m
               PROVE  s + p \in 1..n /\ union[s + p] = points[p] /\ points[p] \in Positions
    OBVIOUS
  <2> DEFINE g == s + p
  <2>1. g \in 1..n /\ g \in 1..(s + m) /\ ~(g <= s) /\ g - s = p
    BY <1>1
  <2>2. union[g] = points[g - s]
    <3> HIDE DEF g
    <3> QED
      BY <1>1, <2>1, ConcatProperties
  <2>3. points[p] \in Positions
    BY ElementOfSeq
  <2> QED
    BY <2>1, <2>2, <2>3
<1>3. anchors = <<>> <=> s = 0
  BY EmptySeq, <1>1
<1> HIDE DEF union, n, m, s
<1>4. SeparationSound(points, anchors)
         <=> ToroidalSeparation(points, anchors) = IF gaps = {} THEN 0 ELSE Min(gaps)
  BY DEF SeparationSound, union, s
<1>5. CASE m = 0 \/ n < 2
  <2>1. pairs = {}
    BY <1>1, <1>5
  <2>2. gaps = {}
    BY <2>1
  <2>3. ToroidalSeparation(points, anchors) = 0
    BY <1>1, <1>3, <1>5 DEF ToroidalSeparation, m
  <2> QED
    BY <1>4, <2>2, <2>3
<1>6. CASE m >= 1 /\ n >= 2
  <2> DEFINE nearer(x, i, j) == \/ Dist(x, union[i]) < Dist(x, union[j])
                                \/ Dist(x, union[i]) = Dist(x, union[j]) /\ i < j
             second(x) == CHOOSE i \in 1..n : Cardinality({j \in 1..n : nearer(x, j, i)}) = 2 - 1
             col == {Dist(points[r], union[second(points[r])]) : r \in 1..m}
  <2>1. ToroidalSeparation(points, anchors) = Min(KnnColumn(union, points, 2))
    BY <1>1, <1>3, <1>6 DEF ToroidalSeparation, m, union
  <2>2. UNION ScanBlocks(m, n) = 1..m
    BY <1>1, BlocksCover
  <2>3. KnnColumn(union, points, 2) = col
    BY <1>1, <2>2 DEF KnnColumn, m, n
  <2>4. ASSUME NEW r \in 1..m
        PROVE  /\ \E q \in 1..n \ {s + r} : Dist(points[r], union[q]) = Dist(points[r], union[second(points[r])])
               /\ \A q \in 1..n \ {s + r} : Dist(points[r], union[second(points[r])]) <= Dist(points[r], union[q])
               /\ second(points[r]) \in 1..n
    <3> DEFINE x == points[r]
               g == [j \in 1..n |-> Dist(x, union[j])]
               i == second(x)
    <3>1. x = union[s + r] /\ s + r \in 1..n /\ x \in Positions
      BY <1>2
    <3>2. Rankable(g, 1..n) /\ 2 \in 1..Cardinality(1..n)
      <4>1. \A j \in 1..n : g[j] \in Int /\ j \in Int
        BY <1>1, <3>1, DistType
      <4>2. IsFiniteSet(1..n) /\ Cardinality(1..n) = n
        BY <1>1, FS_Interval
      <4> QED
        BY <1>1, <1>6, <4>1, <4>2 DEF Rankable
    <3>3. \E j \in 1..n : Cardinality(Passed(g, 1..n, j)) = 2 - 1
      <4> HIDE DEF g
      <4> QED
        BY <3>2, RanksTaken
    <3>4. \A j \in 1..n : Passed(g, 1..n, j) = {l \in 1..n : nearer(x, l, j)}
      BY DEF Passed, Closer
    <3>5. \E j \in 1..n : Cardinality({l \in 1..n : nearer(x, l, j)}) = 2 - 1
      BY <3>3, <3>4
    <3>6. i \in 1..n /\ Cardinality({j \in 1..n : nearer(x, j, i)}) = 2 - 1
      BY <3>5
    <3> HIDE DEF i
    <3>7. Cardinality({j \in 1..n : \/ Dist(union[s + r], union[j]) < Dist(union[s + r], union[i])
                                    \/ Dist(union[s + r], union[j]) = Dist(union[s + r], union[i])
                                       /\ j < i}) = 1
      BY <3>1, <3>6
    <3> DEFINE own == s + r
    <3> HIDE DEF own
    <3>8. /\ \E q \in 1..n \ {own} : Dist(union[own], union[q]) = Dist(union[own], union[i])
          /\ \A q \in 1..n \ {own} : Dist(union[own], union[i]) <= Dist(union[own], union[q])
      <4>1. /\ n \in Nat /\ union \in [1..n -> Positions] /\ own \in 1..n /\ n >= 2 /\ i \in 1..n
            /\ SecondTo(i, own, n, union)
        BY <1>1, <1>6, <3>1, <3>6, <3>7 DEF own, SecondTo
      <4> QED
        BY ONLY <4>1, SecondIsNearest
    <3> QED
      BY <3>1, <3>6, <3>8 DEF i, own
  <2> HIDE DEF second
  <2>5. gaps \in SUBSET Nat /\ gaps # {}
    <3>1. \A pq \in pairs : Dist(points[pq[1]], union[pq[2]]) \in Nat
      BY <1>1, <1>2, DistType
    <3>2. 1 \in 1..m
      BY <1>1, <1>6
    <3>3. PICK q \in 1..n \ {s + 1} : TRUE
      BY <2>4, <3>2
    <3>4. <<1, q>> \in pairs
      BY <1>1, <3>2, <3>3
    <3> QED
      BY <3>1, <3>4
  <2>6. PICK least \in gaps : \A y \in gaps : least <= y
    <3> HIDE DEF gaps
    <3> QED
      BY <2>5, LeastNatural
  <2>7. \A r \in 1..m : \A q \in 1..n \ {s + r} : Dist(points[r], union[q]) \in gaps
    <3> SUFFICES ASSUME NEW r \in 1..m, NEW q \in 1..n \ {s + r}
                 PROVE  Dist(points[r], union[q]) \in gaps
      OBVIOUS
    <3>1. <<r, q>> \in pairs
      BY <1>1
    <3> QED
      BY <3>1
  <2>8. col \subseteq gaps
    BY <2>4, <2>7
  <2>9. PICK r \in 1..m : \E q \in 1..n \ {s + r} : least = Dist(points[r], union[q])
    <3>1. PICK pq \in pairs : least = Dist(points[pq[1]], union[pq[2]])
      BY <2>6
    <3>2. pq[1] \in 1..m /\ pq[2] \in 1..n \ {s + pq[1]}
      BY <1>1
    <3> QED
      BY <3>1, <3>2
  <2>10. least \in col
    <3> DEFINE v == Dist(points[r], union[second(points[r])])
    <3>1. v \in col /\ v <= least
      BY <2>4, <2>9
    <3>2. v \in gaps
      BY <2>8, <3>1
    <3> HIDE DEF v, gaps, col
    <3>3. v = least
      BY <2>5, <2>6, <3>1, <3>2
    <3> QED
      BY <3>1, <3>3
  <2> HIDE DEF gaps, col
  <2>a. /\ \A y \in gaps : y \in Int /\ least <= y
        /\ \A y \in col : y \in Int /\ least <= y
    BY <2>5, <2>6, <2>8
  <2>11. Min(gaps) = least
    BY ONLY <2>6, <2>a, LeastIsMin
  <2>12. Min(col) = least
    BY ONLY <2>10, <2>a, LeastIsMin
  <2> QED
    BY <1>4, <2>1, <2>3, <2>5, <2>11, <2>12
<1> QED
  BY <1>1, <1>5, <1>6

-----------------------------------------------------------------------------
(***************************************************************************)
(* _reach and _plan_tables.                                                *)
(***************************************************************************)
\* The probe counts a job's plans may use.
ProbesTried(job) == IF job.probes = AutoProbes THEN 0..DeepProbes ELSE {job.probes}

\* What _plan_tables may be called with: any depth, any goal, any predicted hit rates.
JobOK(job) ==
    /\ job.depth \in Nat /\ job.depth >= 1
    /\ job.pinned \in BOOLEAN /\ job.anyRecall \in BOOLEAN
    /\ job.probes \in Nat \cup {AutoProbes}
    /\ job.goal \in Int
    /\ \A k \in 1..job.depth : \A m \in ProbesTried(job) : job.hit[k][m] \in 0..Parts

\* What the assumption says, constant by constant.
LEMMA PlanTypes ==
    /\ MaxTables \in Nat /\ MaxTables >= 1
    /\ DefaultProbes \in Nat /\ DefaultProbes >= 1
    /\ DeepProbes \in Nat /\ DeepProbes > DefaultProbes
    /\ AutoTables \in Nat /\ AutoTables >= 1 /\ AutoTables <= MaxTables
    /\ Depths \in Nat /\ Depths >= 1
    /\ Parts \in Nat /\ Parts >= 1
    /\ Waste \in Nat /\ AutoProbes \notin Int
BY PlanAssumption

\* The powers of a natural number are natural numbers.
LEMMA PowersFacts ==
    ASSUME NEW x \in Nat
    PROVE  /\ \A n \in 0..MaxTables : Powers(x)[n] \in Nat
           /\ Powers(x)[0] = 1
           /\ \A n \in 1..MaxTables : Powers(x)[n] = Powers(x)[n - 1] * x
<1> DEFINE step == [i \in 1..MaxTables |-> [v \in Nat |-> v * x]]
           pw == CHOOSE pw : pw = [n \in 0..MaxTables |-> IF n = 0 THEN 1 ELSE pw[n - 1] * x]
<1>0. MaxTables \in Nat /\ 1 \in Nat
  BY PlanTypes
<1>1. step \in [1..MaxTables -> [Nat -> Nat]]
  <2>1. \A v \in Nat : v * x \in Nat
    OBVIOUS
  <2> QED
    BY <2>1
<1>2. \A i \in 1..MaxTables, v \in Nat : step[i][v] = v * x
  OBVIOUS
<1> HIDE DEF step
<1>3. PICK s : Loops(s, Nat, MaxTables, 1, step)
  BY ONLY <1>0, <1>1, Iterates
<1>4. /\ s \in [0..MaxTables -> Nat] /\ s[0] = 1
      /\ \A i \in 1..MaxTables : s[i] = step[i][s[i - 1]]
  BY <1>3 DEF Loops
<1>5. ASSUME NEW i \in 1..MaxTables PROVE s[i] = s[i - 1] * x
  <2>1. i - 1 \in 0..MaxTables
    BY <1>0
  <2>2. s[i - 1] \in Nat
    BY <1>4, <2>1
  <2> QED
    BY <1>2, <1>4, <2>2
<1>6. s = [n \in 0..MaxTables |-> IF n = 0 THEN 1 ELSE s[n - 1] * x]
  <2>1. \A i \in 0..MaxTables : s[i] = IF i = 0 THEN 1 ELSE s[i - 1] * x
    <3>1. \A i \in 0..MaxTables : i # 0 => i \in 1..MaxTables
      BY <1>0
    <3> QED
      BY <1>4, <1>5, <3>1
  <2>2. s = [i \in 0..MaxTables |-> s[i]]
    BY ONLY <1>4
  <2> QED
    BY ONLY <2>1, <2>2
<1>7. pw = [n \in 0..MaxTables |-> IF n = 0 THEN 1 ELSE pw[n - 1] * x]
  BY <1>6
<1>8. Powers(x) = pw
  BY DEF Powers
<1> HIDE DEF pw
<1>9. /\ pw[0] = 1
      /\ \A n \in 1..MaxTables : n - 1 \in 0..MaxTables /\ pw[n] = pw[n - 1] * x
  <2>1. \A n \in 1..MaxTables : n \in 0..MaxTables /\ n # 0 /\ n - 1 \in 0..MaxTables
    BY <1>0
  <2>2. 0 \in 0..MaxTables
    BY <1>0
  <2> QED
    BY <1>7, <2>1, <2>2
<1>10. \A n \in 0..MaxTables : pw[n] \in Nat
  <2> DEFINE Bad == {n \in 0..MaxTables : pw[n] \notin Nat}
  <2>1. SUFFICES ASSUME Bad # {} PROVE FALSE
    OBVIOUS
  <2>2. Bad \in SUBSET Nat
    OBVIOUS
  <2>3. \A n \in Bad : n \in 0..MaxTables /\ pw[n] \notin Nat
    OBVIOUS
  <2>4. \A n \in 0..MaxTables : n \notin Bad => pw[n] \in Nat
    OBVIOUS
  <2> HIDE DEF Bad
  <2>5. PICK n \in Bad : \A y \in Bad : n <= y
    BY <2>1, <2>2, LeastNatural
  <2>6. n # 0
    BY <1>9, <2>3
  <2>7. n \in 1..MaxTables /\ n - 1 \in 0..MaxTables /\ ~(n <= n - 1)
    BY <1>0, <2>3, <2>6
  <2>8. pw[n - 1] \in Nat
    BY <2>4, <2>5, <2>7
  <2>9. pw[n] = pw[n - 1] * x
    BY <1>9, <2>7
  <2>10. pw[n - 1] * x \in Nat
    BY <2>8
  <2> QED
    BY <2>3, <2>9, <2>10
<1> QED
  BY <1>8, <1>9, <1>10

\* More tables never lower what a plan predicts.
LEMMA PredictedGrows ==
    ASSUME NEW hit \in 0..Parts
    PROVE  /\ \A n \in 1..MaxTables : /\ Predicted(hit, n) \in Int
                                      /\ Powers(Parts)[MaxTables] - Predicted(hit, n) \in Nat
           /\ \A n \in 1..MaxTables : n + 1 \in 1..MaxTables =>
                 Predicted(hit, n) <= Predicted(hit, n + 1)
<1> DEFINE miss == Parts - hit
           P == Powers(Parts)
           Q == Powers(miss)
<1>1. Parts \in Nat /\ miss \in Nat /\ MaxTables \in Nat /\ Parts = miss + hit /\ hit \in Nat
  BY PlanTypes
<1>2. /\ \A n \in 0..MaxTables : P[n] \in Nat
      /\ \A n \in 1..MaxTables : P[n] = P[n - 1] * Parts
  BY <1>1, PowersFacts
<1>3. /\ \A n \in 0..MaxTables : Q[n] \in Nat
      /\ \A n \in 1..MaxTables : Q[n] = Q[n - 1] * miss
  <2> HIDE DEF miss
  <2> QED
    BY <1>1, PowersFacts
<1>4. \A n : Predicted(hit, n) = P[MaxTables] - Q[n] * P[MaxTables - n]
  BY DEF Predicted
<1> HIDE DEF miss, P, Q
<1>5. ASSUME NEW n \in 1..MaxTables
      PROVE  Predicted(hit, n) \in Int /\ P[MaxTables] - Predicted(hit, n) \in Nat
  <2>1. n \in 0..MaxTables /\ MaxTables - n \in 0..MaxTables /\ MaxTables \in 0..MaxTables
    BY <1>1
  <2>2. Q[n] \in Nat /\ P[MaxTables - n] \in Nat /\ P[MaxTables] \in Nat
    BY <1>2, <1>3, <2>1
  <2>3. Q[n] * P[MaxTables - n] \in Nat
    BY <2>2
  <2> QED
    BY <1>4, <2>2, <2>3
<1>6. ASSUME NEW n \in 1..MaxTables, n + 1 \in 1..MaxTables
      PROVE  Predicted(hit, n) <= Predicted(hit, n + 1)
  <2> DEFINE rest == MaxTables - (n + 1)
  <2>1. /\ n \in 0..MaxTables /\ rest \in 0..MaxTables /\ MaxTables - n \in 1..MaxTables
        /\ MaxTables \in 0..MaxTables /\ (MaxTables - n) - 1 = rest /\ (n + 1) - 1 = n
    BY <1>1, <1>6
  <2>2. Q[n] \in Nat /\ P[rest] \in Nat /\ P[MaxTables] \in Nat
    BY <1>2, <1>3, <2>1
  <2>3. P[MaxTables - n] = P[rest] * Parts
    BY <1>2, <2>1
  <2>4. Q[n + 1] = Q[n] * miss
    BY <1>3, <1>6, <2>1
  <2> DEFINE u == Q[n]
             v == P[rest]
  <2>5. u * (v * Parts) >= (u * miss) * v
    <3>1. u \in Nat /\ v \in Nat
      BY <2>2
    <3> HIDE DEF u, v
    <3> DEFINE c == u * v
    <3>2. c \in Nat /\ u * (v * Parts) = c * Parts /\ (u * miss) * v = c * miss
      BY <1>1, <3>1
    <3> HIDE DEF c
    <3>3. c * Parts = c * miss + c * hit /\ c * hit \in Nat /\ c * miss \in Nat
      BY <1>1, <3>2
    <3> QED
      BY <3>2, <3>3
  <2>6. u * (v * Parts) \in Int /\ (u * miss) * v \in Int
    BY <1>1, <2>2
  <2> DEFINE more == u * (v * Parts)
             less == (u * miss) * v
  <2>7. Predicted(hit, n) = P[MaxTables] - more /\ Predicted(hit, n + 1) = P[MaxTables] - less
    BY <1>4, <2>3, <2>4
  <2> HIDE DEF more, less
  <2> QED
    BY <2>2, <2>5, <2>6, <2>7 DEF more, less
<1> QED
  BY <1>5, <1>6 DEF P

\* Once a number of tables reaches the goal, every larger number does.
LEMMA ReachedStays ==
    ASSUME NEW hit \in 0..Parts, NEW goal \in Int, NEW low \in 1..MaxTables, NEW n \in 1..MaxTables,
           low <= n, Predicted(hit, low) >= goal
    PROVE  Predicted(hit, n) >= goal
<1>1. MaxTables \in Nat
  BY PlanTypes
<1>2. /\ \A i \in 1..MaxTables : Predicted(hit, i) \in Int
      /\ \A i \in 1..MaxTables : i + 1 \in 1..MaxTables => Predicted(hit, i) <= Predicted(hit, i + 1)
  BY PredictedGrows
<1> DEFINE Bad == {i \in low..n : ~(Predicted(hit, i) >= goal)}
<1>3. SUFFICES ASSUME Bad # {} PROVE FALSE
  BY <1>1
<1>4. Bad \in SUBSET Nat /\ \A i \in Bad : i \in low..n /\ ~(Predicted(hit, i) >= goal)
  BY <1>1
<1>5. \A i \in low..n : i \notin Bad => Predicted(hit, i) >= goal
  OBVIOUS
<1> HIDE DEF Bad
<1>6. PICK i \in Bad : \A j \in Bad : i <= j
  BY <1>3, <1>4, LeastNatural
<1>7. i # low /\ i \in low..n
  BY <1>4
<1> DEFINE j == i - 1
<1>8. j \in low..n /\ j \in 1..MaxTables /\ j + 1 = i /\ i \in 1..MaxTables /\ ~(i <= j)
  BY <1>1, <1>7
<1> HIDE DEF j
<1>9. Predicted(hit, j) >= goal
  BY <1>5, <1>6, <1>8
<1>10. Predicted(hit, j) <= Predicted(hit, i)
  BY <1>2, <1>8
<1> QED
  BY <1>2, <1>4, <1>8, <1>9, <1>10

\* What _reach promises of one depth and one number of probes.
ReachSound(job, k, m) ==
    LET plan == Planned(job, k, m)
        hit == job.hit[k][m]
        floor == IF job.anyRecall THEN AutoTables ELSE 1
    IN  /\ plan.depth = k /\ plan.probes = m
        /\ plan.tables \in floor..MaxTables
        /\ plan.recall = Predicted(hit, plan.tables) /\ plan.recall \in Int
        /\ Powers(Parts)[MaxTables] - plan.recall \in Nat
        /\ plan.tables > floor => Predicted(hit, plan.tables - 1) < job.goal
        /\ plan.recall < job.goal => plan.tables = MaxTables

\* _reach keeps its promise.
LEMMA PlannedFacts ==
    ASSUME NEW job, JobOK(job), NEW k \in 1..job.depth, NEW m \in ProbesTried(job)
    PROVE  ReachSound(job, k, m)
<1> DEFINE hit == job.hit[k][m]
           goal == job.goal
           enough == {n \in 1..MaxTables : Predicted(hit, n) >= goal}
           floor == IF job.anyRecall THEN AutoTables ELSE 1
           low == Min(enough)
           tables == IF enough = {} THEN MaxTables ELSE Max({low, floor})
           plan == Planned(job, k, m)
<1>1. /\ MaxTables \in Nat /\ MaxTables >= 1
      /\ hit \in 0..Parts /\ goal \in Int /\ floor \in 1..MaxTables /\ floor \in Nat
  BY PlanTypes DEF JobOK
<1>2. plan = [depth |-> k, probes |-> m, tables |-> tables, recall |-> Predicted(hit, tables)]
  BY DEF Planned
<1> HIDE DEF hit, goal, floor
<1>3. /\ \A n \in 1..MaxTables : /\ Predicted(hit, n) \in Int
                                 /\ Powers(Parts)[MaxTables] - Predicted(hit, n) \in Nat
  BY <1>1, PredictedGrows
<1>4. \A n \in 1..MaxTables : n \notin enough => Predicted(hit, n) < goal
  BY <1>1, <1>3
<1>5. \A n \in enough : n \in 1..MaxTables /\ Predicted(hit, n) >= goal
  OBVIOUS
<1> HIDE DEF enough
<1>6. CASE enough = {}
  <2>1. tables = MaxTables /\ tables \in floor..MaxTables /\ tables \in 1..MaxTables
    BY <1>1, <1>6
  <2>2. tables > floor => tables - 1 \in 1..MaxTables /\ tables - 1 \notin enough
    BY <1>1, <1>6, <2>1
  <2>3. tables > floor => Predicted(hit, tables - 1) < goal
    BY <1>4, <2>2
  <2> HIDE DEF plan, tables
  <2> QED
    BY <1>2, <1>3, <2>1, <2>3 DEF ReachSound, plan, hit, goal, floor
<1>7. CASE enough # {}
  <2>1. low \in enough /\ \A n \in enough : low <= n
    <3>1. IsFiniteSet(1..MaxTables) /\ enough \subseteq 1..MaxTables
      BY <1>1, <1>5, FS_Interval
    <3>2. IsFiniteSet(enough)
      BY <3>1, FS_Subset
    <3>3. \A x \in enough : x \in Int
      BY <1>5
    <3> QED
      BY <1>7, <3>2, <3>3, Extremes
  <2>2. low \in 1..MaxTables /\ Predicted(hit, low) >= goal
    BY <1>5, <2>1
  <2> HIDE DEF low
  <2>3. tables = IF low >= floor THEN low ELSE floor
    BY <1>1, <1>7, <2>2, GreaterOf
  <2> HIDE DEF plan, tables
  <2>4. tables \in floor..MaxTables /\ tables \in 1..MaxTables /\ low <= tables
    BY <1>1, <2>2, <2>3
  <2>5. Predicted(hit, tables) >= goal
    BY <1>1, <2>2, <2>4, ReachedStays
  <2>6. tables > floor => Predicted(hit, tables - 1) < goal
    <3>1. SUFFICES ASSUME tables > floor PROVE Predicted(hit, tables - 1) < goal
      OBVIOUS
    <3>2. tables - 1 \in 1..MaxTables /\ ~(low <= tables - 1)
      BY <1>1, <2>2, <2>3, <3>1
    <3> QED
      BY <1>4, <2>1, <3>2
  <2>7. ~(Predicted(hit, tables) < goal)
    BY <1>1, <1>3, <2>4, <2>5
  <2> QED
    BY <1>2, <1>3, <2>4, <2>6, <2>7 DEF ReachSound, plan, hit, goal, floor
<1> QED
  BY <1>6, <1>7

\* The plans tried: each is what _reach returns, and none is deeper than one before it.
LEMMA PlansFacts ==
    ASSUME NEW job, JobOK(job)
    PROVE  \E N \in Nat \ {0} :
              /\ DOMAIN Plans(job) = 1..N
              /\ \A i \in 1..N : \E k \in 1..job.depth, m \in ProbesTried(job) :
                    Plans(job)[i] = Planned(job, k, m)
              /\ \A i, j \in 1..N : i <= j => Plans(job)[j].depth <= Plans(job)[i].depth
<1> DEFINE depths == IF job.pinned THEN 1 ELSE Min({Depths, job.depth})
           probes == IF job.probes = AutoProbes THEN <<DefaultProbes, DeepProbes>> ELSE <<job.probes>>
           several == Len(probes)
           N == depths * several
           kOf(i) == job.depth - ((i - 1) \div several)
           mOf(i) == probes[((i - 1) % several) + 1]
<1>1. job.depth \in Nat /\ job.depth >= 1 /\ depths \in 1..job.depth
  <2>1. Depths \in Nat /\ Depths >= 1 /\ job.depth \in Nat /\ job.depth >= 1
    BY PlanTypes DEF JobOK
  <2>2. Min({Depths, job.depth}) = IF Depths <= job.depth THEN Depths ELSE job.depth
    BY <2>1, LesserOf
  <2> QED
    BY <2>1, <2>2
<1>2. several \in 1..2 /\ \A i \in 1..several : probes[i] \in ProbesTried(job)
  <2>1. CASE job.probes = AutoProbes
    <3>1. several = 2 /\ probes[1] = DefaultProbes /\ probes[2] = DeepProbes
      BY <2>1
    <3>2. DefaultProbes \in 0..DeepProbes /\ DeepProbes \in 0..DeepProbes
      BY PlanTypes
    <3> HIDE DEF probes
    <3> QED
      BY <2>1, <3>1, <3>2 DEF ProbesTried
  <2>2. CASE job.probes # AutoProbes
    BY <2>2 DEF ProbesTried
  <2> QED
    BY <2>1, <2>2
<1>3. Plans(job) = [i \in 1..N |-> Planned(job, kOf(i), mOf(i))]
  BY DEF Plans
<1> HIDE DEF depths, probes, several
<1>4. N \in Nat \ {0} /\ \A i \in 1..N : (i - 1) \div several \in 0..(depths - 1)
  <2>1. CASE several = 1
    BY <1>1, <2>1
  <2>2. CASE several = 2
    BY <1>1, <2>2
  <2> QED
    BY <1>2, <2>1, <2>2
<1>5. \A i, j \in 1..N : i <= j => (i - 1) \div several <= (j - 1) \div several
  <2>1. CASE several = 1
    BY <1>1, <1>4, <2>1
  <2>2. CASE several = 2
    BY <1>1, <1>4, <2>2
  <2> QED
    BY <1>2, <2>1, <2>2
<1>6. \A i \in 1..N : ((i - 1) % several) + 1 \in 1..several
  <2>1. CASE several = 1
    BY <1>1, <1>4, <2>1
  <2>2. CASE several = 2
    BY <1>1, <1>4, <2>2
  <2> QED
    BY <1>2, <2>1, <2>2
<1> HIDE DEF N
<1>7. ASSUME NEW i \in 1..N PROVE kOf(i) \in 1..job.depth /\ mOf(i) \in ProbesTried(job)
  <2>1. (i - 1) \div several \in 0..(depths - 1)
    BY <1>4
  <2>2. mOf(i) \in ProbesTried(job)
    BY <1>2, <1>6
  <2> QED
    BY <1>1, <2>1, <2>2
<1>8. \A i, j \in 1..N : i <= j => kOf(j) <= kOf(i)
  <2> SUFFICES ASSUME NEW i \in 1..N, NEW j \in 1..N, i <= j PROVE kOf(j) <= kOf(i)
    OBVIOUS
  <2>1. (i - 1) \div several \in Int /\ (j - 1) \div several \in Int
    BY <1>1, <1>4
  <2>2. (i - 1) \div several <= (j - 1) \div several
    BY <1>5
  <2> QED
    BY <1>1, <2>1, <2>2
<1> HIDE DEF kOf, mOf
<1>9. \A i \in 1..N : Plans(job)[i] = Planned(job, kOf(i), mOf(i)) /\ Plans(job)[i].depth = kOf(i)
  BY <1>3 DEF Planned
<1>10. DOMAIN Plans(job) = 1..N
  BY <1>3
<1> QED
  BY <1>4, <1>7, <1>8, <1>9, <1>10

\* The first plan that meets the goal, or else one nothing is nearer than.
LEMMA FirstGoodFacts ==
    ASSUME NEW job, JobOK(job)
    PROVE  /\ \E k \in 1..job.depth, m \in ProbesTried(job) : FirstGood(job) = Planned(job, k, m)
           /\ InReach(job) => FirstGood(job).recall >= job.goal
           /\ \A i \in DOMAIN Plans(job) :
                 Plans(job)[i].depth > FirstGood(job).depth => Plans(job)[i].recall < job.goal
<1> DEFINE plans == Plans(job)
           good == {i \in DOMAIN plans : plans[i].recall >= job.goal}
           best == {i \in DOMAIN plans : \A j \in DOMAIN plans : plans[j].recall <= plans[i].recall}
           choice == IF good # {} THEN good ELSE best
           first == Min(choice)
<1>1. PICK N \in Nat \ {0} :
              /\ DOMAIN plans = 1..N
              /\ \A i \in 1..N : \E k \in 1..job.depth, m \in ProbesTried(job) :
                    plans[i] = Planned(job, k, m)
              /\ \A i, j \in 1..N : i <= j => plans[j].depth <= plans[i].depth
  BY PlansFacts
<1>2. ASSUME NEW i \in 1..N
      PROVE  /\ plans[i].recall \in Int /\ Powers(Parts)[MaxTables] - plans[i].recall \in Nat
             /\ plans[i].depth \in Int
  <2>1. PICK k \in 1..job.depth, m \in ProbesTried(job) : plans[i] = Planned(job, k, m)
    BY <1>1
  <2>2. ReachSound(job, k, m)
    BY PlannedFacts
  <2>3. job.depth \in Nat
    BY DEF JobOK
  <2> QED
    BY <2>1, <2>2, <2>3 DEF ReachSound
<1>3. Powers(Parts)[MaxTables] \in Int /\ job.goal \in Int
  <2>1. MaxTables \in Nat /\ Parts \in Nat /\ MaxTables \in 0..MaxTables
    BY PlanTypes
  <2> QED
    BY <2>1, PowersFacts DEF JobOK
<1>4. FirstGood(job) = plans[first]
  BY DEF FirstGood
<1>5. InReach(job) <=> good # {}
  BY DEF InReach
<1> HIDE DEF plans
<1> DEFINE most == Powers(Parts)[MaxTables]
<1> HIDE DEF most
<1>6. best # {}
  <2> DEFINE short == {most - plans[i].recall : i \in 1..N}
  <2>1. short \in SUBSET Nat /\ short # {}
    <3>1. \A i \in 1..N : most - plans[i].recall \in Nat
      BY <1>2 DEF most
    <3>2. 1 \in 1..N
      OBVIOUS
    <3> QED
      BY <3>1, <3>2
  <2>2. PICK least \in short : \A y \in short : least <= y
    <3> HIDE DEF short
    <3> QED
      BY <2>1, LeastNatural
  <2>3. PICK i \in 1..N : least = most - plans[i].recall
    BY <2>2
  <2>4. ASSUME NEW j \in 1..N PROVE plans[j].recall <= plans[i].recall
    <3>1. least <= most - plans[j].recall
      BY <2>2
    <3>2. most \in Int /\ plans[i].recall \in Int /\ plans[j].recall \in Int
      BY <1>2, <1>3 DEF most
    <3> QED
      BY <2>3, <3>1, <3>2
  <2> QED
    BY <1>1, <2>4
<1>7. choice \subseteq 1..N /\ choice # {}
  BY <1>1, <1>6
<1>8. (good # {} => choice = good) /\ \A i \in 1..N : i \notin good => ~(plans[i].recall >= job.goal)
  BY <1>1
<1>9. \A i \in good : plans[i].recall >= job.goal
  OBVIOUS
<1>10. (good = {} => choice = best)
  OBVIOUS
<1> HIDE DEF good, best, choice
<1>11. first \in choice /\ \A i \in choice : first <= i
  <2>1. IsFiniteSet(1..N)
    BY FS_Interval
  <2>2. IsFiniteSet(choice)
    BY <1>7, <2>1, FS_Subset
  <2>3. \A x \in choice : x \in Int
    BY <1>7
  <2> QED
    BY <1>7, <2>2, <2>3, Extremes
<1>12. first \in 1..N
  BY <1>7, <1>11
<1> HIDE DEF first
<1>13. ASSUME NEW i \in 1..N, plans[i].depth > plans[first].depth
       PROVE  plans[i].recall < job.goal
  <2>1. i \notin good
    <3> SUFFICES ASSUME i \in good PROVE FALSE
      OBVIOUS
    <3>1. first <= i
      BY <1>8, <1>11
    <3>2. plans[i].depth <= plans[first].depth
      BY <1>1, <1>12, <3>1
    <3> QED
      BY <1>2, <1>12, <1>13, <3>2
  <2> QED
    BY <1>2, <1>3, <1>8, <2>1
<1>14. good # {} => plans[first].recall >= job.goal
  BY <1>8, <1>9, <1>11
<1>15. \E k \in 1..job.depth, m \in ProbesTried(job) : plans[first] = Planned(job, k, m)
  BY <1>1, <1>12
<1>16. \A i \in DOMAIN plans : plans[i].depth > plans[first].depth => plans[i].recall < job.goal
  BY <1>1, <1>13
<1> QED
  BY <1>4, <1>5, <1>14, <1>15, <1>16 DEF plans

\* _plan_tables returns what it promises, for any depth, table cap, goal and
\* predicted hit rates: see PlanSound.
THEOREM PlansAreSound == \A job : JobOK(job) => PlanSound(job)
<1> SUFFICES ASSUME NEW job, JobOK(job) PROVE PlanSound(job)
  OBVIOUS
<1> DEFINE first == FirstGood(job)
           plan == PlanTables(job)
           floor == IF job.anyRecall THEN AutoTables ELSE 1
           fewer == {m \in 0..(DefaultProbes - 1) :
                        /\ Planned(job, job.depth, m).tables <= first.tables
                        /\ Planned(job, job.depth, m).recall >= first.recall - Waste}
           trims == /\ job.probes = AutoProbes
                    /\ first.depth = job.depth /\ first.probes = DefaultProbes
                    /\ fewer # {}
           least == Min(fewer)
<1>1. plan = IF trims THEN Planned(job, job.depth, least) ELSE first
  BY DEF PlanTables, Trimmed
<1>2. /\ MaxTables \in Nat /\ DefaultProbes \in Nat /\ DeepProbes \in Nat /\ DeepProbes > DefaultProbes
      /\ Waste \in Nat /\ job.depth \in Nat /\ job.depth >= 1 /\ job.goal \in Int
      /\ floor \in Nat
  BY PlanTypes DEF JobOK
<1>3. /\ \E k \in 1..job.depth, m \in ProbesTried(job) : first = Planned(job, k, m)
      /\ InReach(job) => first.recall >= job.goal
      /\ \A i \in DOMAIN Plans(job) :
            Plans(job)[i].depth > first.depth => Plans(job)[i].recall < job.goal
  BY FirstGoodFacts
<1> HIDE DEF first, plan
<1>4. PICK k \in 1..job.depth, m \in ProbesTried(job) : first = Planned(job, k, m)
  BY <1>3
<1>5. ReachSound(job, k, m)
  BY PlannedFacts
<1>6. /\ first.depth = k /\ first.probes = m /\ first.tables \in floor..MaxTables
      /\ first.recall = Predicted(job.hit[k][m], first.tables) /\ first.recall \in Int
      /\ first.tables > floor => Predicted(job.hit[k][m], first.tables - 1) < job.goal
      /\ first.recall < job.goal => first.tables = MaxTables
  BY <1>4, <1>5 DEF ReachSound
<1>7. CASE ~trims
  <2>1. plan = first
    BY <1>1, <1>7
  <2>2. job.probes # AutoProbes => plan.probes = job.probes
    BY <1>6, <2>1 DEF ProbesTried
  <2>3. plan.recall = Predicted(job.hit[plan.depth][plan.probes], plan.tables)
        /\ plan.tables \in floor..MaxTables
        /\ (plan.tables > floor =>
              Predicted(job.hit[plan.depth][plan.probes], plan.tables - 1) < job.goal)
    BY <1>6, <2>1
  <2>4. plan.tables <= first.tables
    BY <1>2, <1>6, <2>1
  <2> HIDE DEF floor
  <2> QED
    BY <1>3, <2>1, <2>2, <2>3, <2>4 DEF PlanSound, plan, first, floor
<1>8. CASE trims
  <2>1. least \in fewer
    <3>1. fewer \subseteq 0..(DefaultProbes - 1) /\ fewer # {}
      BY <1>8
    <3> HIDE DEF fewer
    <3>2. IsFiniteSet(0..(DefaultProbes - 1))
      BY <1>2, FS_Interval
    <3>3. IsFiniteSet(fewer)
      BY <3>1, <3>2, FS_Subset
    <3>4. \A x \in fewer : x \in Int
      BY <3>1
    <3> QED
      BY <3>1, <3>3, <3>4, Extremes
  <2>2. plan = Planned(job, job.depth, least)
    BY <1>1, <1>8
  <2>3. least \in 0..(DefaultProbes - 1) /\ plan.tables <= first.tables
        /\ plan.recall >= first.recall - Waste
    BY <2>1, <2>2
  <2> HIDE DEF least
  <2>4. least \in ProbesTried(job) /\ job.depth \in 1..job.depth /\ least < DefaultProbes
    BY <1>2, <1>8, <2>3 DEF ProbesTried
  <2>5. ReachSound(job, job.depth, least)
    BY <2>4, PlannedFacts
  <2>6. /\ plan.depth = job.depth /\ plan.probes = least /\ plan.tables \in floor..MaxTables
        /\ plan.recall = Predicted(job.hit[job.depth][least], plan.tables) /\ plan.recall \in Int
        /\ plan.tables > floor => Predicted(job.hit[job.depth][least], plan.tables - 1) < job.goal
        /\ plan.recall < job.goal => plan.tables = MaxTables
    BY <2>2, <2>5 DEF ReachSound
  <2>7. InReach(job) => plan.recall >= job.goal - Waste
    BY <1>2, <1>3, <1>6, <2>3, <2>6
  <2>8. plan.recall >= job.goal \/ (plan.tables = MaxTables /\ plan.probes < DefaultProbes)
    BY <1>2, <2>4, <2>6
  <2>9. plan.recall = Predicted(job.hit[plan.depth][plan.probes], plan.tables)
        /\ (plan.tables > floor =>
              Predicted(job.hit[plan.depth][plan.probes], plan.tables - 1) < job.goal)
    BY <2>6
  <2>10. ~(plan.depth < job.depth) /\ plan.tables \in floor..MaxTables
    BY <1>2, <2>6
  <2>11. job.probes = AutoProbes
    BY <1>8
  <2> HIDE DEF floor
  <2> QED
    BY <2>3, <2>7, <2>8, <2>9, <2>10, <2>11 DEF PlanSound, plan, first, floor
<1> QED
  BY <1>7, <1>8

-----------------------------------------------------------------------------
(***************************************************************************)
(* tune_thresholds, _threshold and the backend that serves.                *)
(***************************************************************************)
\* Halving gives natural numbers, each half of the one before.
LEMMA HalvedFacts ==
    ASSUME NEW n \in Nat
    PROVE  /\ \A i \in 0..n : Halved(n)[i] \in Nat
           /\ Halved(n)[0] = n
           /\ \A i \in 1..n : Halved(n)[i] = Halved(n)[i - 1] \div 2
<1> DEFINE step == [i \in 1..n |-> [v \in Nat |-> v \div 2]]
           half == CHOOSE half : half = [i \in 0..n |-> IF i = 0 THEN n ELSE half[i - 1] \div 2]
<1>1. step \in [1..n -> [Nat -> Nat]]
  <2>1. \A v \in Nat : v \div 2 \in Nat
    OBVIOUS
  <2> QED
    BY <2>1
<1>2. \A i \in 1..n, v \in Nat : step[i][v] = v \div 2
  OBVIOUS
<1> HIDE DEF step
<1>3. PICK s : Loops(s, Nat, n, n, step)
  BY ONLY <1>1, n \in Nat, Iterates
<1>4. /\ s \in [0..n -> Nat] /\ s[0] = n
      /\ \A i \in 1..n : s[i] = step[i][s[i - 1]]
  BY <1>3 DEF Loops
<1>5. ASSUME NEW i \in 1..n PROVE s[i] = s[i - 1] \div 2
  <2>1. s[i - 1] \in Nat
    BY <1>4
  <2> QED
    BY <1>2, <1>4, <2>1
<1>6. s = [i \in 0..n |-> IF i = 0 THEN n ELSE s[i - 1] \div 2]
  <2>1. \A i \in 0..n : s[i] = IF i = 0 THEN n ELSE s[i - 1] \div 2
    <3>1. \A i \in 0..n : i # 0 => i \in 1..n
      OBVIOUS
    <3> QED
      BY <1>4, <1>5, <3>1
  <2>2. s = [i \in 0..n |-> s[i]]
    BY ONLY <1>4
  <2> QED
    BY ONLY <2>1, <2>2
<1>7. half = [i \in 0..n |-> IF i = 0 THEN n ELSE half[i - 1] \div 2]
  BY <1>6
<1>8. Halved(n) = half
  BY DEF Halved
<1> HIDE DEF half
<1>9. half[0] = n /\ \A i \in 1..n : half[i] = half[i - 1] \div 2
  <2>1. \A i \in 1..n : i \in 0..n /\ i # 0
    OBVIOUS
  <2>2. 0 \in 0..n
    OBVIOUS
  <2> QED
    BY <1>7, <2>1, <2>2
<1>10. \A i \in 0..n : half[i] \in Nat
  <2> DEFINE Bad == {i \in 0..n : half[i] \notin Nat}
  <2>1. SUFFICES ASSUME Bad # {} PROVE FALSE
    OBVIOUS
  <2>2. Bad \in SUBSET Nat /\ \A i \in Bad : i \in 0..n /\ half[i] \notin Nat
    OBVIOUS
  <2>3. \A i \in 0..n : i \notin Bad => half[i] \in Nat
    OBVIOUS
  <2> HIDE DEF Bad
  <2>4. PICK i \in Bad : \A y \in Bad : i <= y
    BY <2>1, <2>2, LeastNatural
  <2>5. i # 0
    BY <1>9, <2>2
  <2>6. i \in 1..n /\ i - 1 \in 0..n /\ ~(i <= i - 1)
    BY <2>2, <2>5
  <2>7. half[i - 1] \in Nat
    BY <2>3, <2>4, <2>6
  <2>8. half[i - 1] \div 2 \in Nat
    BY <2>7
  <2> QED
    BY <1>9, <2>2, <2>6, <2>8
<1> QED
  BY <1>8, <1>9, <1>10

\* The sizes measured fall from n on and stop before they fall below Smallest.
Falling(sizes, n) ==
    /\ sizes \in Seq(Nat) /\ Len(sizes) >= 1
    /\ \A i \in 1..Len(sizes) : sizes[i] >= 1
    /\ \A i, j \in 1..Len(sizes) : i < j <=> sizes[j] < sizes[i]

\* The sizes tried are such a sequence.
LEMMA SizesFall ==
    ASSUME NEW n \in Nat, n >= 1
    PROVE  Falling(Sizes(n), n)
<1> DEFINE half == Halved(n)
           large == {j \in 1..n : half[j] >= Smallest}
           many == Cardinality(large)
           sizes == Sizes(n)
<1>1. Smallest \in Nat /\ Smallest >= 1
  BY CrossoverAssumption
<1>2. /\ \A i \in 0..n : half[i] \in Nat
      /\ half[0] = n
      /\ \A i \in 1..n : half[i] = half[i - 1] \div 2
  BY HalvedFacts
<1>3. sizes = [i \in 1..(1 + many) |-> half[i - 1]]
  BY DEF Sizes
<1>4. \A j \in large : j \in 1..n /\ half[j] >= Smallest
  OBVIOUS
<1>5. \A j \in 1..n : half[j] >= Smallest => j \in large
  OBVIOUS
<1>6. IsFiniteSet(large) /\ many \in Nat /\ many <= n
  <2>1. IsFiniteSet(1..n) /\ Cardinality(1..n) = n /\ large \subseteq 1..n
    BY FS_Interval
  <2> HIDE DEF large
  <2> QED
    BY <2>1, FS_Subset, FS_CardinalityType
<1> HIDE DEF half, large, sizes
<1>7. \A i \in 1..n : half[i] <= half[i - 1] /\ (half[i - 1] >= 1 => half[i] < half[i - 1])
  <2> SUFFICES ASSUME NEW i \in 1..n
               PROVE  half[i] <= half[i - 1] /\ (half[i - 1] >= 1 => half[i] < half[i - 1])
    OBVIOUS
  <2>1. half[i - 1] \in Nat /\ half[i] = half[i - 1] \div 2
    BY <1>2
  <2> DEFINE v == half[i - 1]
  <2>2. v \in Nat
    BY <2>1
  <2> HIDE DEF v
  <2>3. v \div 2 <= v /\ (v >= 1 => v \div 2 < v)
    BY <2>2
  <2> QED
    BY <2>1, <2>3 DEF v
<1>8. \A i, j \in 0..n : i <= j => half[j] <= half[i]
  <2> SUFFICES ASSUME NEW i \in 0..n PROVE \A j \in 0..n : i <= j => half[j] <= half[i]
    OBVIOUS
  <2> DEFINE Bad == {j \in 0..n : i <= j /\ ~(half[j] <= half[i])}
  <2>1. SUFFICES ASSUME Bad # {} PROVE FALSE
    OBVIOUS
  <2>2. Bad \in SUBSET Nat /\ \A j \in Bad : j \in 0..n /\ i <= j /\ ~(half[j] <= half[i])
    OBVIOUS
  <2>3. \A j \in 0..n : i <= j /\ j \notin Bad => half[j] <= half[i]
    OBVIOUS
  <2> HIDE DEF Bad
  <2>4. PICK j \in Bad : \A y \in Bad : j <= y
    BY <2>1, <2>2, LeastNatural
  <2>5. half[i] \in Nat /\ half[j] \in Nat
    BY <1>2, <2>2
  <2>6. j # i
    BY <2>2, <2>5
  <2>7. j \in 1..n /\ j - 1 \in 0..n /\ i <= j - 1 /\ ~(j <= j - 1)
    BY <2>2, <2>6
  <2>8. half[j - 1] <= half[i] /\ half[j] <= half[j - 1] /\ half[j - 1] \in Nat
    BY <1>2, <1>7, <2>3, <2>4, <2>7
  <2> QED
    BY <2>2, <2>5, <2>8
\* Those at least Smallest come first.
<1>9. \A i \in 1..many : i \in large
  <2> SUFFICES ASSUME NEW i \in 1..many, i \notin large PROVE FALSE
    OBVIOUS
  <2>1. i \in 1..n /\ i \in 0..n /\ half[i] \in Nat
    BY <1>2, <1>6
  <2>2. ~(half[i] >= Smallest)
    BY <1>5, <2>1
  <2>3. \A j \in large : j \in 1..(i - 1)
    <3> SUFFICES ASSUME NEW j \in large PROVE j \in 1..(i - 1)
      OBVIOUS
    <3>1. j \in 0..n /\ half[j] >= Smallest /\ half[j] \in Nat
      BY <1>2, <1>4
    <3>2. ~(i <= j)
      BY <1>1, <1>8, <2>1, <2>2, <3>1
    <3> QED
      BY <1>4, <2>1, <3>1, <3>2
  <2> DEFINE prior == i - 1
  <2>4. prior \in Nat /\ many > prior
    BY <1>6, <2>1
  <2>5. \A j \in large : j \in 1..prior
    BY <2>3
  <2> HIDE DEF prior
  <2>6. IsFiniteSet(1..prior) /\ Cardinality(1..prior) = prior
    BY <2>4, FS_Interval
  <2>7. large \in SUBSET (1..prior)
    BY <2>5
  <2>8. many <= prior
    BY <2>6, <2>7, FS_Subset
  <2> QED
    BY <1>6, <2>4, <2>8
<1> HIDE DEF many
<1>10. \A i \in 1..(1 + many) : i - 1 \in 0..n /\ half[i - 1] \in Nat /\ half[i - 1] >= 1
  <2> SUFFICES ASSUME NEW i \in 1..(1 + many)
               PROVE  i - 1 \in 0..n /\ half[i - 1] \in Nat /\ half[i - 1] >= 1
    OBVIOUS
  <2> DEFINE prior == i - 1
  <2>1. prior \in 0..n /\ (prior = 0 \/ prior \in 1..many)
    BY <1>6
  <2> HIDE DEF prior
  <2>2. half[prior] \in Nat /\ half[prior] >= 1
    BY <1>1, <1>2, <1>4, <1>9, <2>1
  <2> QED
    BY <2>1, <2>2 DEF prior
<1>11. /\ sizes \in Seq(Nat) /\ Len(sizes) = 1 + many
       /\ \A i \in 1..(1 + many) : sizes[i] = half[i - 1]
  <2>1. 1 + many \in Nat /\ sizes \in [1..(1 + many) -> Nat] /\ \A i \in 1..(1 + many) : sizes[i] = half[i - 1]
    BY <1>3, <1>6, <1>10
  <2> DEFINE m == 1 + many
  <2> HIDE DEF m
  <2>2. m \in Nat /\ sizes \in [1..m -> Nat] /\ \A i \in 1..m : sizes[i] = half[i - 1]
    BY <2>1 DEF m
  <2>3. sizes \in Seq(Nat)
    BY <2>2, SeqDef
  <2>4. Len(sizes) = m
    BY <2>2, <2>3, LenProperties
  <2> QED
    BY <2>2, <2>3, <2>4 DEF m
<1>12. ASSUME NEW i \in 1..(1 + many), NEW j \in 1..(1 + many), i < j PROVE sizes[j] < sizes[i]
  <2> DEFINE prior == i - 1
             g == j - 1
  <2>1. /\ prior \in 0..n /\ g \in 0..n /\ i \in 1..n /\ i <= g /\ i \in 0..n
        /\ half[prior] \in Nat /\ half[prior] >= 1 /\ half[g] \in Nat
        /\ sizes[i] = half[prior] /\ sizes[j] = half[g]
    <3>1. prior \in 0..n /\ g \in 0..n /\ i \in 1..n /\ i <= g /\ i \in 0..n
      BY <1>6, <1>12
    <3> QED
      BY <1>10, <1>11, <3>1
  <2>2. half[i] < half[prior] /\ half[i] \in Nat
    BY <1>2, <1>7, <2>1
  <2> HIDE DEF prior, g
  <2>3. half[g] <= half[i]
    BY <1>8, <2>1
  <2> QED
    BY <2>1, <2>2, <2>3
<1>13. \A i, j \in 1..(1 + many) : i < j <=> sizes[j] < sizes[i]
  <2> SUFFICES ASSUME NEW i \in 1..(1 + many), NEW j \in 1..(1 + many)
               PROVE  i < j <=> sizes[j] < sizes[i]
    OBVIOUS
  <2>1. sizes[i] \in Nat /\ sizes[j] \in Nat
    BY <1>10, <1>11
  <2>2. i \in Int /\ j \in Int
    BY <1>6
  <2>3. CASE i < j
    BY <1>12, <2>3
  <2>4. CASE j < i
    <3>1. sizes[i] < sizes[j]
      BY <1>12, <2>4
    <3> QED
      BY <2>1, <2>2, <2>4, <3>1
  <2>5. CASE i = j
    BY <2>1, <2>2, <2>5
  <2> QED
    BY <2>2, <2>3, <2>4, <2>5
<1>14. Len(sizes) >= 1 /\ \A i \in 1..Len(sizes) : sizes[i] >= 1
  BY <1>6, <1>10, <1>11
<1> QED
  BY <1>11, <1>13, <1>14 DEF Falling, sizes

\* What is known after the first i sizes: whether all were won, and the first lost.
KnownAfter(st, sizes, won, i) ==
    /\ st \in [wins : BOOLEAN, best : Nat]
    /\ st.wins <=> \A j \in 1..i : sizes[j] \in won
    /\ st.wins => st.best = 0
    /\ ~st.wins => \E j \in 1..i : /\ sizes[j] \notin won /\ st.best = sizes[j]
                                   /\ \A l \in 1..(j - 1) : sizes[l] \in won

\* One more size.
LEMMA MeasuredFacts ==
    ASSUME NEW n, NEW sizes, Falling(sizes, n), NEW won, NEW i \in 1..Len(sizes), NEW st,
           KnownAfter(st, sizes, won, i - 1)
    PROVE  KnownAfter(Measured(st, sizes[i], won), sizes, won, i)
<1> DEFINE next == Measured(st, sizes[i], won)
<1>1. sizes[i] \in Nat /\ sizes[i] >= 1 /\ Len(sizes) \in Nat /\ i \in Nat
  BY LenProperties, ElementOfSeq DEF Falling
<1>2. /\ st.wins \in BOOLEAN /\ st.best \in Nat
      /\ st.wins <=> \A j \in 1..(i - 1) : sizes[j] \in won
      /\ st.wins => st.best = 0
      /\ ~st.wins => \E j \in 1..(i - 1) : /\ sizes[j] \notin won /\ st.best = sizes[j]
                                           /\ \A l \in 1..(j - 1) : sizes[l] \in won
  BY DEF KnownAfter
<1>3. /\ next = [wins |-> st.wins /\ sizes[i] \in won,
                 best |-> IF ~(st.wins /\ sizes[i] \in won) /\ st.best = 0 THEN sizes[i] ELSE st.best]
  BY DEF Measured
<1>4. \A j \in 1..i : j \in 1..(i - 1) \/ j = i
  BY <1>1
<1>5. \A j \in 1..(i - 1) : j \in 1..i
  BY <1>1
<1> HIDE DEF next
<1>6. CASE st.wins /\ sizes[i] \in won
  <2>1. next = [wins |-> TRUE, best |-> 0]
    BY <1>2, <1>3, <1>6
  <2>2. \A j \in 1..i : sizes[j] \in won
    BY <1>2, <1>4, <1>6
  <2> QED
    BY <2>1, <2>2 DEF KnownAfter, next
<1>7. CASE st.wins /\ sizes[i] \notin won
  <2>1. next = [wins |-> FALSE, best |-> sizes[i]]
    BY <1>2, <1>3, <1>7
  <2>2. i \in 1..i /\ \A l \in 1..(i - 1) : sizes[l] \in won
    BY <1>1, <1>2, <1>7
  <2>3. next \in [wins : BOOLEAN, best : Nat] /\ ~next.wins /\ next.best = sizes[i]
    BY <1>1, <2>1
  <2> QED
    BY <1>7, <2>2, <2>3 DEF KnownAfter, next
<1>8. CASE ~st.wins
  <2>1. PICK j \in 1..(i - 1) : /\ sizes[j] \notin won /\ st.best = sizes[j]
                                /\ \A l \in 1..(j - 1) : sizes[l] \in won
    BY <1>2, <1>8
  <2>2. st.best >= 1
    <3>1. j \in 1..Len(sizes)
      BY <1>1, <2>1
    <3> QED
      BY <2>1, <3>1 DEF Falling
  <2>3. next = [wins |-> FALSE, best |-> st.best]
    <3>1. (st.wins /\ sizes[i] \in won) = FALSE
      BY <1>8, Zenon
    <3>2. st.best # 0
      BY <1>2, <2>2
    <3> QED
      BY <1>3, <3>1, <3>2
  <2>4. next \in [wins : BOOLEAN, best : Nat] /\ ~next.wins /\ next.best = sizes[j] /\ j \in 1..i
    BY <1>2, <1>5, <2>1, <2>3
  <2> QED
    BY <2>1, <2>4 DEF KnownAfter, next
<1> QED
  BY <1>2, <1>6, <1>7, <1>8

\* The loop of tune_thresholds: the threshold it returns is the first size lost.
LEMMA FirstLostFacts ==
    ASSUME NEW n \in Nat, n >= 1, NEW won
    PROVE  /\ FirstLost(n, won) \in Nat
           /\ \/ /\ \A j \in 1..Len(Sizes(n)) : Sizes(n)[j] \in won
                 /\ FirstLost(n, won) = 0
              \/ \E j \in 1..Len(Sizes(n)) :
                    /\ Sizes(n)[j] \notin won /\ FirstLost(n, won) = Sizes(n)[j]
                    /\ \A l \in 1..(j - 1) : Sizes(n)[l] \in won
<1> DEFINE sizes == Sizes(n)
           m == Len(sizes)
           D == [wins : BOOLEAN, best : Nat]
           start == [wins |-> TRUE, best |-> 0]
           step == [i \in 1..m |-> [st \in D |-> Measured(st, sizes[i], won)]]
           loop == CHOOSE loop : loop = [i \in 0..m |-> IF i = 0 THEN start
                                                       ELSE Measured(loop[i - 1], sizes[i], won)]
<1>1. Falling(sizes, n)
  BY SizesFall
<1>2. FirstLost(n, won) = loop[m].best
  BY DEF FirstLost
<1> HIDE DEF sizes
<1>3. m \in Nat /\ \A i \in 1..m : sizes[i] \in Nat
  BY <1>1, LenProperties, ElementOfSeq DEF Falling
<1> HIDE DEF m
<1>4. step \in [1..m -> [D -> D]] /\ start \in D
  <2>1. \A i \in 1..m : \A st \in D : Measured(st, sizes[i], won) \in D
    BY <1>3 DEF Measured
  <2> HIDE DEF D
  <2>2. step \in [1..m -> [D -> D]]
    BY <2>1
  <2> QED
    BY <2>2 DEF D
<1>5. \A i \in 1..m, st \in D : step[i][st] = Measured(st, sizes[i], won)
  OBVIOUS
<1> HIDE DEF step, D, start
<1>6. PICK s : Loops(s, D, m, start, step)
  BY ONLY <1>3, <1>4, Iterates
<1>7. /\ s \in [0..m -> D] /\ s[0] = start
      /\ \A i \in 1..m : s[i] = step[i][s[i - 1]]
  BY <1>6 DEF Loops
<1>8. ASSUME NEW i \in 1..m PROVE s[i] = Measured(s[i - 1], sizes[i], won)
  <2>1. i - 1 \in 0..m
    BY <1>3
  <2>2. s[i - 1] \in D
    BY <1>7, <2>1
  <2> QED
    BY <1>5, <1>7, <2>2
<1>9. s = [i \in 0..m |-> IF i = 0 THEN start ELSE Measured(s[i - 1], sizes[i], won)]
  <2>1. \A i \in 0..m : s[i] = IF i = 0 THEN start ELSE Measured(s[i - 1], sizes[i], won)
    <3>1. \A i \in 0..m : i # 0 => i \in 1..m
      BY <1>3
    <3> QED
      BY <1>7, <1>8, <3>1
  <2>2. s = [i \in 0..m |-> s[i]]
    BY ONLY <1>7
  <2> QED
    BY ONLY <2>1, <2>2
<1>10. loop = [i \in 0..m |-> IF i = 0 THEN start ELSE Measured(loop[i - 1], sizes[i], won)]
  BY <1>9
<1> HIDE DEF loop
<1>11. loop[0] = start /\ \A i \in 1..m : loop[i] = Measured(loop[i - 1], sizes[i], won)
  <2>1. \A i \in 1..m : i \in 0..m /\ i # 0
    BY <1>3
  <2>2. 0 \in 0..m
    BY <1>3
  <2> QED
    BY <1>10, <2>1, <2>2
<1>12. \A i \in 0..m : KnownAfter(loop[i], sizes, won, i)
  <2> DEFINE Bad == {i \in 0..m : ~KnownAfter(loop[i], sizes, won, i)}
  <2>1. SUFFICES ASSUME Bad # {} PROVE FALSE
    OBVIOUS
  <2>2. Bad \in SUBSET Nat /\ \A i \in Bad : i \in 0..m /\ ~KnownAfter(loop[i], sizes, won, i)
    OBVIOUS
  <2>3. \A i \in 0..m : i \notin Bad => KnownAfter(loop[i], sizes, won, i)
    OBVIOUS
  <2> HIDE DEF Bad
  <2>4. PICK i \in Bad : \A y \in Bad : i <= y
    BY <2>1, <2>2, LeastNatural
  <2>5. KnownAfter(loop[0], sizes, won, 0)
    BY <1>11 DEF KnownAfter, start
  <2>6. i # 0
    BY <2>2, <2>5
  <2>7. i \in 1..m /\ i - 1 \in 0..m /\ ~(i <= i - 1)
    BY <1>3, <2>2, <2>6
  <2>8. KnownAfter(loop[i - 1], sizes, won, i - 1)
    BY <2>3, <2>4, <2>7
  <2>9. i \in 1..Len(sizes)
    BY <2>7 DEF m
  <2>10. KnownAfter(Measured(loop[i - 1], sizes[i], won), sizes, won, i)
    BY ONLY <1>1, <2>8, <2>9, MeasuredFacts
  <2> QED
    BY <1>11, <2>2, <2>7, <2>10
<1>13. KnownAfter(loop[m], sizes, won, m)
  BY <1>3, <1>12
<1> QED
  BY <1>2, <1>13 DEF KnownAfter, sizes, m

\* A constructor's arguments, and a machine, as _threshold reads them.
ObjectOK(machine, nn) ==
    /\ machine.x86 \in BOOLEAN /\ machine.wheel \in BOOLEAN
    /\ nn.backend \in {"auto", "python", "rust"}
    /\ {"backend", "knn", "radius", "both"} \subseteq DOMAIN nn /\ nn = [f \in DOMAIN nn |-> nn[f]]

\* 'auto' is the compiled module wherever it can be used.
LEMMA AutoResolves ==
    ASSUME NEW machine
    PROVE  LshClass(machine, Resolve(machine, "auto"))
              = IF Native(machine) THEN "RustLshIndex" ELSE "PythonLshIndex"
<1> DEFINE places == {i \in DOMAIN AutoOrder : LshClass(machine, AutoOrder[i]) # "ImportError"}
<1>1. /\ AutoOrder \in Seq({"rust", "python"}) /\ Len(AutoOrder) = 2 /\ DOMAIN AutoOrder = 1..2
      /\ AutoOrder[1] = "rust" /\ AutoOrder[2] = "python"
  BY DEF AutoOrder
<1>2. LshClass(machine, "python") = "PythonLshIndex"
  BY DEF LshClass
<1>3. LshClass(machine, "rust") = IF Native(machine) THEN "RustLshIndex" ELSE "ImportError"
  BY DEF LshClass
<1>4. places = IF Native(machine) THEN 1..2 ELSE {2}
  <2>1. \A i : i \in 1..2 <=> i = 1 \/ i = 2
    OBVIOUS
  <2> QED
    BY <1>1, <1>2, <1>3, <2>1
<1>5. Resolve(machine, "auto") = Picked(AutoOrder, places)[1]
  BY DEF Resolve, Available
<1> HIDE DEF places
<1>6. places \in SUBSET (1..Len(AutoOrder))
  BY <1>1, <1>4
<1>7. /\ Cardinality(places) \in Nat
      /\ \E place : /\ Lists(place, places, Cardinality(places))
                    /\ \A i \in 1..Cardinality(places) : Picked(AutoOrder, places)[i] = AutoOrder[place[i]]
  BY <1>1, <1>6, PickedFacts
<1>8. PICK place : /\ Lists(place, places, Cardinality(places))
                   /\ \A i \in 1..Cardinality(places) : Picked(AutoOrder, places)[i] = AutoOrder[place[i]]
  BY <1>7
<1>9. CASE Native(machine)
  <2>1. Cardinality(places) = 2 /\ places = 1..2
    <3>a. \A prior \in Nat : Cardinality(1..prior) = prior
      BY FS_Interval
    <3>1. Cardinality(1..2) = 2
      BY <3>a
    <3>2. places = 1..2
      BY <1>4, <1>9
    <3> QED
      BY <3>1, <3>2
  <2>2. place \in [1..2 -> 1..2] /\ place[1] < place[2]
    BY <1>8, <2>1 DEF Lists
  <2>3. place[1] = 1 /\ 1 \in 1..2
    BY <2>2
  <2> QED
    BY <1>1, <1>3, <1>5, <1>8, <1>9, <2>1, <2>3
<1>10. CASE ~Native(machine)
  <2>1. Cardinality(places) = 1 /\ places = {2}
    BY <1>4, <1>10, FS_Singleton
  <2>2. place \in [1..1 -> {2}] /\ 1 \in 1..1
    BY <1>8, <2>1 DEF Lists
  <2>3. place[1] = 2
    BY <2>2
  <2> QED
    BY <1>1, <1>2, <1>5, <1>8, <1>10, <2>1, <2>2, <2>3
<1> QED
  BY <1>9, <1>10

\* What tune_thresholds measures is what then serves, for any number of points and
\* any outcome of the measurements: see RoutedAsMeasured.
THEOREM RoutesAsMeasured ==
    \A machine, nn, wins : \A n \in Nat :
        ObjectOK(machine, nn) /\ n >= 1 => RoutedAsMeasured(machine, nn, n, wins)
<1> SUFFICES ASSUME NEW machine, NEW nn, NEW wins, NEW n \in Nat, ObjectOK(machine, nn), n >= 1
             PROVE  RoutedAsMeasured(machine, nn, n, wins)
  OBVIOUS
<1> DEFINE sizes == Sizes(n)
           m == Len(sizes)
           won(mode, s) == \A larger \in {x \in Range(sizes) : x >= s} : larger \in wins[mode]
<1>1. Falling(sizes, n)
  BY SizesFall
<1> HIDE DEF sizes
<1>2. sizes \in [1..m -> Nat] /\ m \in Nat
  BY <1>1, LenProperties DEF Falling
<1>3. Range(sizes) = {sizes[i] : i \in 1..m}
  BY <1>2 DEF Range
<1>4. Unset \notin Int
  BY CrossoverAssumption
<1>5. {"knn", "radius", "both"} \subseteq DOMAIN nn
  BY DEF ObjectOK
<1>6. ASSUME NEW mode \in Modes, NEW s \in Range(sizes)
      PROVE  /\ ~Approximate(machine, Built(nn, s + 1), mode, s)
             /\ Approximate(machine, Built(nn, 0), mode, s)
  <2>1. s \in Nat /\ s >= 1
    BY <1>1, <1>2, <1>3 DEF Falling
  <2>2. ASSUME NEW threshold \in Nat PROVE Threshold(machine, Built(nn, threshold), mode) = threshold
    <3> DEFINE obj == Built(nn, threshold)
    <3>1. obj.both = threshold /\ obj.knn = Unset /\ obj.radius = Unset
      BY <1>5 DEF Built
    <3>2. obj[mode] = Unset /\ obj.both # Unset
      BY <1>4, <3>1 DEF Modes
    <3> HIDE DEF obj
    <3> QED
      BY <3>1, <3>2 DEF Threshold, obj
  <2>3. s + 1 \in Nat /\ 0 \in Nat
    BY <2>1
  <2> QED
    BY <2>1, <2>2, <2>3 DEF Approximate
<1>7. ASSUME NEW mode \in Modes, NEW s \in Range(sizes)
      PROVE  Approximate(machine, Splatted(nn, n, wins), mode, s) <=> won(mode, s)
  <2> DEFINE lost == FirstLost(n, wins[mode])
  <2>1. /\ lost \in Nat
        /\ \/ /\ \A j \in 1..m : sizes[j] \in wins[mode]
              /\ lost = 0
           \/ \E j \in 1..m : /\ sizes[j] \notin wins[mode] /\ lost = sizes[j]
                              /\ \A l \in 1..(j - 1) : sizes[l] \in wins[mode]
    BY FirstLostFacts DEF sizes, m
  <2> HIDE DEF lost
  <2>2. Threshold(machine, Splatted(nn, n, wins), mode) = lost
    <3> DEFINE obj == Splatted(nn, n, wins)
    <3>1. obj.knn = FirstLost(n, wins["knn"]) /\ obj.radius = FirstLost(n, wins["radius"])
      BY <1>5 DEF Splatted
    <3>2. obj[mode] = lost
      BY <3>1 DEF Modes, lost
    <3>3. lost # Unset
      BY <1>4, <2>1
    <3> HIDE DEF obj
    <3> QED
      BY <3>2, <3>3 DEF Threshold, obj
  <2>3. PICK i \in 1..m : s = sizes[i]
    BY <1>3
  <2>4. s \in Nat /\ s >= 1 /\ \A j \in 1..m : sizes[j] \in Nat
    BY <1>1, <1>2, <2>3 DEF Falling
  <2>5. s > lost <=> won(mode, s)
    <3>1. CASE (\A j \in 1..m : sizes[j] \in wins[mode]) /\ lost = 0
      BY <1>3, <2>4, <3>1
    <3>2. ASSUME NEW j \in 1..m, sizes[j] \notin wins[mode], lost = sizes[j],
                 \A l \in 1..(j - 1) : sizes[l] \in wins[mode]
          PROVE  s > lost <=> won(mode, s)
      <4>1. CASE s > lost
        <5>1. ASSUME NEW larger \in Range(sizes), larger >= s PROVE larger \in wins[mode]
          <6>1. PICK l \in 1..m : larger = sizes[l]
            BY <1>3
          <6>2. sizes[j] < sizes[l]
            BY <2>4, <3>2, <4>1, <5>1, <6>1
          <6>3. l < j
            BY <1>1, <6>2 DEF Falling, m
          <6>4. l \in 1..(j - 1)
            BY <1>2, <6>3
          <6> QED
            BY <3>2, <6>1, <6>4
        <5> QED
          BY <4>1, <5>1
      <4>2. CASE ~(s > lost)
        <5>1. lost >= s /\ lost \in Range(sizes) /\ lost \notin wins[mode]
          BY <1>3, <2>1, <2>4, <3>2, <4>2
        <5> QED
          BY <4>2, <5>1
      <4> QED
        BY <4>1, <4>2
    <3> QED
      BY <2>1, <3>1, <3>2
  <2>6. Approximate(machine, Splatted(nn, n, wins), mode, s) <=> s > lost
    BY <2>2 DEF Approximate
  <2> QED
    BY <2>5, <2>6
<1>8. nn.backend = "auto" =>
         (Scan(machine) = "brute_knn" <=> LshClass(machine, Resolve(machine, "auto")) = "RustLshIndex")
  BY AutoResolves DEF Scan
<1>9. LET plain == [nn EXCEPT !.both = Unset, !.knn = Unset, !.radius = Unset]
      IN  LshClass(machine, Resolve(machine, nn.backend)) = "PythonLshIndex" =>
             \A mode \in Modes : Threshold(machine, plain, mode) = BrutePython
  <2> DEFINE plain == [nn EXCEPT !.both = Unset, !.knn = Unset, !.radius = Unset]
  <2>1. plain.both = Unset /\ plain.knn = Unset /\ plain.radius = Unset /\ plain.backend = nn.backend
    BY <1>5 DEF ObjectOK
  <2>2. \A mode \in Modes : plain[mode] = Unset
    BY <2>1 DEF Modes
  <2> HIDE DEF plain
  <2> QED
    BY <2>1, <2>2 DEF Threshold, plain
<1> QED
  BY <1>6, <1>7, <1>8, <1>9 DEF RoutedAsMeasured, sizes

-----------------------------------------------------------------------------
(***************************************************************************)
(* The arms of bench_recall_ablation.py.                                   *)
(***************************************************************************)
\* One query at the place of an indexed point, among any number of points.
CheckOK(check) ==
    /\ check.n \in Nat /\ check.own \in PointIds(check)
    /\ check.gap \in [PointIds(check) -> Nat]
    /\ check.k \in Nat /\ check.k >= 1

\* The ids are finite in number.
LEMMA PointsFinite ==
    ASSUME NEW check, CheckOK(check)
    PROVE  /\ IsFiniteSet(PointIds(check)) /\ Cardinality(PointIds(check)) = check.n
           /\ IsFiniteSet(Others(check)) /\ Cardinality(Others(check)) = check.n - 1
<1>1. check.n \in Nat /\ check.own \in PointIds(check)
  BY DEF CheckOK
<1> DEFINE last == check.n - 1
<1>a. last \in Nat
  BY <1>1 DEF PointIds
<1>2. IsFiniteSet(0..last) /\ Cardinality(0..last) = check.n
  <2> HIDE DEF last
  <2>1. IsFiniteSet(0..last) /\ Cardinality(0..last) = last + 1
    BY <1>a, FS_Interval
  <2> QED
    BY <1>1, <2>1 DEF last
<1>3. IsFiniteSet(PointIds(check)) /\ Cardinality(PointIds(check)) = check.n
  BY <1>2 DEF PointIds
<1> DEFINE ids == PointIds(check)
<1> HIDE DEF ids
<1>4. IsFiniteSet(ids \ {check.own}) /\ Cardinality(ids \ {check.own}) = Cardinality(ids) - 1
  <2>1. IsFiniteSet(ids) /\ check.own \in ids
    BY <1>1, <1>3 DEF ids
  <2> QED
    BY <2>1, FS_RemoveElement
<1> QED
  BY <1>3, <1>4 DEF Others, ids

\* A choice of k nearest has k members, no farther than the ones left out.
LEMMA NearestsFacts ==
    ASSUME NEW g, NEW ids, NEW k \in Nat, IsFiniteSet(ids), k <= Cardinality(ids), NEW T \in Nearests(g, ids, k)
    PROVE  /\ T \subseteq ids /\ Cardinality(T) = k /\ IsFiniteSet(T)
           /\ \A i \in T : \A j \in ids \ T : g[i] <= g[j]
<1>1. Cardinality(ids) \in Nat
  BY FS_CardinalityType
<1>2. Min({k, Cardinality(ids)}) = k
  BY <1>1, LesserOf
<1>3. T \in kSubset(k, ids) /\ \A i \in T : \A j \in ids \ T : g[i] <= g[j]
  BY <1>2 DEF Nearests
<1>4. T \subseteq ids /\ Cardinality(T) = k
  BY <1>3 DEF kSubset
<1>5. IsFiniteSet(T)
  BY <1>4, FS_Subset
<1> QED
  BY <1>3, <1>4, <1>5

\* Setting the own distance to infinity leaves the other distances and moves the
\* querying point behind them all.
LEMMA ApartFacts ==
    ASSUME NEW check, CheckOK(check)
    PROVE  /\ \A i \in Others(check) : Apart(check)[i] = check.gap[i]
           /\ \A i \in Others(check) : check.gap[i] < Apart(check)[check.own]
           /\ \A i \in PointIds(check) : Apart(check)[i] \in Nat
<1> DEFINE gaps == {check.gap[i] : i \in PointIds(check)}
           far == Max(gaps)
           ids == PointIds(check)
           g == check.gap
<1>1. g \in [ids -> Nat] /\ check.own \in ids
  BY DEF CheckOK
<1>2. far \in Nat /\ \A i \in ids : g[i] <= far
  <2>1. IsFiniteSet(ids)
    BY PointsFinite
  <2>2. IsFiniteSet(gaps)
    <3>1. g \in Surjection(ids, gaps)
      BY <1>1 DEF Surjection
    <3> HIDE DEF gaps, ids
    <3> QED
      BY <2>1, <3>1, FS_Surjection
  <2>3. gaps # {} /\ \A x \in gaps : x \in Int
    BY <1>1
  <2>4. far \in gaps /\ \A y \in gaps : far >= y
    <3> HIDE DEF gaps
    <3> QED
      BY <2>2, <2>3, Extremes
  <2> HIDE DEF far
  <2> QED
    BY <1>1, <2>4
<1>3. Apart(check) = [g EXCEPT ![check.own] = 1 + far]
  BY DEF Apart
<1> HIDE DEF far, g
<1>4. Apart(check)[check.own] = 1 + far /\ \A i \in ids : i # check.own => Apart(check)[i] = g[i]
  BY <1>1, <1>3
<1>5. \A i \in Others(check) : i \in ids /\ i # check.own
  BY DEF Others
<1>6. \A i \in ids : g[i] \in Nat
  BY <1>1
<1> QED
  BY <1>2, <1>4, <1>5, <1>6 DEF g

-----------------------------------------------------------------------------
(***************************************************************************)
(* The recall measures.                                                    *)
(***************************************************************************)
Lesser(x, y) == IF x <= y THEN x ELSE y
Firsts(s, k) == {s[n] : n \in 1..k}

\* What the nearest of a set are, however many are asked for.
LEMMA NearestsAre ==
    ASSUME NEW g, NEW ids, NEW k \in Nat, IsFiniteSet(ids), NEW T
    PROVE  T \in Nearests(g, ids, k) <=> /\ T \subseteq ids
                                         /\ Cardinality(T) = Lesser(k, Cardinality(ids))
                                         /\ \A i \in T : \A j \in ids \ T : g[i] <= g[j]
<1>1. Cardinality(ids) \in Nat
  BY FS_CardinalityType
<1>2. Min({k, Cardinality(ids)}) = Lesser(k, Cardinality(ids))
  BY <1>1, LesserOf DEF Lesser
<1> QED
  BY <1>2 DEF Nearests, kSubset

\* The first k of a row by rank are nearest, so there always are k nearest.
LEMMA FirstAreNearest ==
    ASSUME NEW g, NEW ids, Rankable(g, ids), NEW k \in Nat, k <= Cardinality(ids),
           NEW s, ListsByRank(s, g, ids), DOMAIN s = 1..Cardinality(ids)
    PROVE  /\ \A n \in 1..k : s[n] \in ids
           /\ \A m, n \in 1..k : s[m] = s[n] => m = n
           /\ Cardinality(Firsts(s, k)) = k
           /\ Firsts(s, k) \in Nearests(g, ids, k)
<1> DEFINE c == Cardinality(ids)
           All == {s[n] : n \in 1..c}
           F == {s[n] : n \in 1..k}
           f == [n \in 1..k |-> s[n]]
           t == [n \in 1..c |-> s[n]]
<1>1. t \in [1..c -> All] /\ \A n \in 1..c : t[n] = s[n]
  OBVIOUS
<1>2. ListsByRank(t, g, ids)
  <2> HIDE DEF t
  <2> QED
    BY <1>1 DEF ListsByRank
<1>3. /\ c \in Nat
      /\ t \in [1..c -> ids]
      /\ \A i \in ids : \E n \in 1..c : t[n] = i
      /\ \A m, n \in 1..c : Closer(g, t[m], t[n]) <=> m < n
      /\ \A m, n \in 1..c : t[m] = t[n] => m = n
  <2>1. Rankable(g, ids)
    OBVIOUS
  <2> HIDE DEF t, All
  <2>2. t \in [1..Cardinality(ids) -> All]
    BY <1>1
  <2>3. /\ Cardinality(ids) \in Nat
        /\ t \in [1..Cardinality(ids) -> ids]
        /\ \A i \in ids : \E n \in 1..Cardinality(ids) : t[n] = i
        /\ \A m, n \in 1..Cardinality(ids) : t[m] = t[n] => m = n
    BY ONLY <2>1, <2>2, <1>2, RankedFacts, SMTT(30)
  <2>4. \A m, n \in 1..Cardinality(ids) : Closer(g, t[m], t[n]) <=> m < n
    BY ONLY <2>1, <2>2, <1>2, RankedFacts, Zenon
  <2> QED
    BY ONLY <2>3, <2>4
<1>4. \A n \in 1..k : n \in 1..c
  BY <1>3
<1>5. /\ \A n \in 1..c : s[n] \in ids
      /\ \A i \in ids : \E n \in 1..c : s[n] = i
      /\ \A m, n \in 1..c : Closer(g, s[m], s[n]) <=> m < n
      /\ \A m, n \in 1..c : s[m] = s[n] => m = n
  <2> HIDE DEF t
  <2>1. \A n \in 1..c : t[n] \in ids
    BY <1>3
  <2> QED
    BY <1>1, <1>3, <2>1
<1>6. f \in Bijection(1..k, F)
  <2>1. \A m, n \in 1..k : s[m] = s[n] => m = n
    BY <1>4, <1>5
  <2> HIDE DEF c
  <2> QED
    BY <2>1 DEF Bijection, Injection, Surjection, IsInjective
<1>7. IsFiniteSet(1..k) /\ Cardinality(1..k) = k
  BY FS_Interval
<1>8. Cardinality(F) = k
  <2>1. ExistsBijection(1..k, F)
    BY <1>6 DEF ExistsBijection
  <2> HIDE DEF F
  <2> QED
    BY <1>7, <2>1, FS_Bijection
<1>9. F \subseteq ids
  BY <1>4, <1>5
<1>10. ASSUME NEW i \in F, NEW j \in ids \ F PROVE g[i] <= g[j]
  <2>1. PICK m \in 1..k : i = s[m]
    BY <1>10
  <2>2. PICK n \in 1..c : j = s[n]
    BY <1>5, <1>10
  <2>3. n \notin 1..k
    BY <1>10, <2>2
  <2>4. m < n
    BY <1>3, <2>1, <2>2, <2>3
  <2>5. Closer(g, i, j)
    BY <1>4, <1>5, <2>1, <2>2, <2>4
  <2>6. g[i] \in Int /\ g[j] \in Int
    BY <1>9, <1>10 DEF Rankable
  <2> QED
    BY <2>5, <2>6 DEF Closer
<1>11. IsFiniteSet(ids) /\ Lesser(k, c) = k
  BY DEF Rankable, Lesser
<1> HIDE DEF F, c
<1>12. F \in Nearests(g, ids, k)
  <2>1. IsFiniteSet(ids) /\ Cardinality(F) = Lesser(k, Cardinality(ids))
    BY <1>8, <1>11 DEF c
  <2> QED
    BY <1>9, <1>10, <2>1, NearestsAre
<1> QED
  BY <1>4, <1>5, <1>8, <1>12 DEF F, Firsts

\* There always are k nearest.
LEMMA NearestExist ==
    ASSUME NEW g, NEW ids, Rankable(g, ids), NEW k \in Nat, k <= Cardinality(ids)
    PROVE  \E T : T \in Nearests(g, ids, k)
<1> DEFINE nth(n) == CHOOSE i \in ids : Cardinality(Passed(g, ids, i)) = n - 1
           s == [n \in 1..Cardinality(ids) |-> nth(n)]
<1>1. \A n \in 1..Cardinality(ids) :
         (\E i \in ids : Cardinality(Passed(g, ids, i)) = n - 1)
            => nth(n) \in ids /\ Cardinality(Passed(g, ids, nth(n))) = n - 1
  OBVIOUS
<1> HIDE DEF nth
<1>2. ListsByRank(s, g, ids) /\ DOMAIN s = 1..Cardinality(ids)
  BY <1>1 DEF ListsByRank
<1> HIDE DEF s
<1>3. Rankable(g, ids) /\ k \in Nat /\ k <= Cardinality(ids)
  OBVIOUS
<1>4. Firsts(s, k) \in Nearests(g, ids, k)
  BY ONLY <1>2, <1>3, FirstAreNearest
<1> QED
  BY <1>4

\* What the script's shapes give an arm: enough points for its ranks.
ArmOK(check, arm) == arm \in AblationArms /\ check.k * arm.high < check.n

\* What the ranking of a pool gives an arm to draw from.
RankingOK(check, arm, ranked) ==
    LET ids == PointIds(check)
        others == Others(check)
        apart == Apart(check)
        pool == ranked.pool
        passed == ranked.passed
        truth == ranked.truth
        may == Eligible(check, arm, ranked)
        kth == Max({check.gap[i] : i \in truth})
    IN  /\ pool \subseteq others /\ truth \subseteq pool /\ passed \subseteq pool /\ may \subseteq others
        /\ IsFiniteSet(pool) /\ Cardinality(pool) = check.k * arm.high
        /\ \A i \in pool : \A j \in ids \ pool : apart[i] <= apart[j]
        /\ IsFiniteSet(passed) /\ Cardinality(passed) = check.k * arm.low
        /\ \A i \in passed : \A j \in pool \ passed : apart[i] <= apart[j]
        /\ IsFiniteSet(truth) /\ Cardinality(truth) = check.k
        /\ arm.low # 0 => truth \subseteq passed
        /\ arm.low = 0 => \A i \in truth : \A j \in pool \ truth : apart[i] <= apart[j]
        /\ kth \in Nat /\ (\A i \in truth : check.gap[i] <= kth) /\ \E j \in truth : kth = check.gap[j]
        /\ IsFiniteSet(may) /\ Cardinality(may) >= check.k /\ Cardinality(may) \in Nat
        /\ arm.low = 0 => truth \subseteq may

\* Of any ranking: the pool and the part passed over are nearest, the truth is in
\* them, and there is enough to draw.
LEMMA RankingFacts ==
    ASSUME NEW check, NEW arm, CheckOK(check), ArmOK(check, arm), NEW ranked \in Rankings(check, arm)
    PROVE  RankingOK(check, arm, ranked)
<1> DEFINE ids == PointIds(check)
           others == Others(check)
           g == check.gap
           apart == Apart(check)
           own == check.own
           k == check.k
           n == check.n
<1>1. n \in Nat /\ k \in Nat /\ k >= 1 /\ own \in ids /\ g \in [ids -> Nat] /\ others = ids \ {own}
  BY DEF CheckOK, Others
<1>2. /\ \A i \in others : apart[i] = g[i]
      /\ \A i \in others : g[i] < apart[own]
      /\ \A i \in ids : apart[i] \in Nat
  BY ApartFacts
<1>3. /\ IsFiniteSet(ids) /\ Cardinality(ids) = n
      /\ IsFiniteSet(others) /\ Cardinality(others) = n - 1
  BY PointsFinite
<1>4. /\ arm.name \in {"exact", "ratio2x", "uniform", "top2k", "rank1-4k", "rank8-16k"}
      /\ arm \in Windows <=> arm.name \in {"top2k", "rank1-4k", "rank8-16k"}
      /\ arm.low = CASE arm.name = "rank1-4k" -> 1 [] arm.name = "rank8-16k" -> 8 [] OTHER -> 0
      /\ arm.high = CASE arm.name = "top2k" -> 2 [] arm.name = "rank1-4k" -> 4
                      [] arm.name = "rank8-16k" -> 16 [] OTHER -> 1
  BY DEF ArmOK, AblationArms, Windows
<1>5. <<arm.low, arm.high>> \in {<<0, 1>>, <<0, 2>>, <<1, 4>>, <<8, 16>>}
  BY <1>4
<1> DEFINE ranks == k * arm.high
           skipped == k * arm.low
<1>6. /\ ranks \in Nat /\ ranks < n /\ skipped \in Nat /\ ranks >= skipped + k /\ k <= n - 1
      /\ arm.low \in Nat /\ (arm.low # 0 => skipped >= k)
  <2>1. ranks < n
    BY DEF ArmOK
  <2>2. \/ ranks = k /\ skipped = 0 /\ arm.low = 0
        \/ ranks = 2 * k /\ skipped = 0 /\ arm.low = 0
        \/ ranks = 4 * k /\ skipped = k /\ arm.low = 1
        \/ ranks = 16 * k /\ skipped = 8 * k /\ arm.low = 8
    BY <1>1, <1>5
  <2> HIDE DEF ranks, skipped
  <2> QED
    BY <1>1, <2>1, <2>2
<1> DEFINE pool == ranked.pool
           passed == ranked.passed
           truth == ranked.truth
           from == IF arm.low = 0 THEN pool ELSE passed
<1>8. /\ pool \in Nearests(apart, ids, ranks)
      /\ passed \in Nearests(apart, pool, skipped)
      /\ truth \in Nearests(apart, from, k)
  <2>1. PICK P \in Nearests(apart, ids, ranks) :
          \E Q \in Nearests(apart, P, skipped) :
             \E T \in Nearests(apart, IF arm.low = 0 THEN P ELSE Q, k * 1) :
                ranked = [pool |-> P, passed |-> Q, truth |-> T]
    BY DEF Rankings
  <2>2. PICK Q \in Nearests(apart, P, skipped) :
          \E T \in Nearests(apart, IF arm.low = 0 THEN P ELSE Q, k * 1) :
             ranked = [pool |-> P, passed |-> Q, truth |-> T]
    BY <2>1
  <2>3. PICK T \in Nearests(apart, IF arm.low = 0 THEN P ELSE Q, k * 1) :
          ranked = [pool |-> P, passed |-> Q, truth |-> T]
    BY <2>2
  <2>4. k * 1 = k
    BY <1>1
  <2>5. ranked.pool = P /\ ranked.passed = Q /\ ranked.truth = T
    BY <2>3
  <2> HIDE DEF apart, ids, ranks, skipped, k
  <2> QED
    BY <2>1, <2>2, <2>3, <2>4, <2>5
<1> DEFINE may == Eligible(check, arm, ranked)
<1> DEFINE kth == Max({g[i] : i \in truth})
<1>11. may = CASE arm.name = "exact" -> truth
               [] arm \in Windows -> pool \ passed
               [] arm.name = "ratio2x" -> {i \in others : g[i] <= 2 * kth}
               [] OTHER -> others
  BY DEF Eligible
<1> HIDE DEF ids, others, g, apart, own, k, n, ranks, skipped, pool, passed, truth, may, kth
<1>12. /\ pool \subseteq ids /\ Cardinality(pool) = ranks /\ IsFiniteSet(pool)
       /\ \A i \in pool : \A j \in ids \ pool : apart[i] <= apart[j]
  <2>1. ranks \in Nat /\ IsFiniteSet(ids) /\ ranks <= Cardinality(ids) /\ pool \in Nearests(apart, ids, ranks)
    BY <1>1, <1>3, <1>6, <1>8
  <2> QED
    BY ONLY <2>1, NearestsFacts
<1>13. /\ passed \subseteq pool /\ Cardinality(passed) = skipped /\ IsFiniteSet(passed)
       /\ \A i \in passed : \A j \in pool \ passed : apart[i] <= apart[j]
  <2>1. /\ skipped \in Nat /\ IsFiniteSet(pool) /\ skipped <= Cardinality(pool)
        /\ passed \in Nearests(apart, pool, skipped)
    BY <1>1, <1>6, <1>8, <1>12
  <2> QED
    BY ONLY <2>1, NearestsFacts
<1>14. /\ truth \subseteq pool /\ Cardinality(truth) = k /\ IsFiniteSet(truth)
       /\ \A i \in truth : \A j \in from \ truth : apart[i] <= apart[j]
       /\ truth \subseteq from
  <2>1. from \subseteq pool
    BY <1>13
  <2>2. k \in Nat /\ IsFiniteSet(from) /\ k <= Cardinality(from) /\ truth \in Nearests(apart, from, k)
    BY <1>1, <1>6, <1>8, <1>12, <1>13
  <2> HIDE DEF from
  <2>3. /\ truth \subseteq from /\ Cardinality(truth) = k /\ IsFiniteSet(truth)
        /\ \A i \in truth : \A j \in from \ truth : apart[i] <= apart[j]
    BY ONLY <2>2, NearestsFacts
  <2> QED
    BY <2>1, <2>3
<1>15. own \notin pool
  <2> SUFFICES ASSUME own \in pool PROVE FALSE
    OBVIOUS
  <2>1. pool # ids
    BY <1>1, <1>3, <1>6, <1>12
  <2>2. PICK j \in ids \ pool : TRUE
    BY <1>12, <2>1
  <2>3. j \in others
    BY <1>1, <2>2
  <2>4. apart[own] <= apart[j] /\ apart[j] = g[j] /\ g[j] < apart[own]
    BY <1>2, <1>12, <2>2, <2>3
  <2> QED
    BY <1>1, <1>2, <2>2, <2>4
<1>16. pool \subseteq others /\ truth \subseteq others
  BY <1>1, <1>12, <1>14, <1>15
<1>17. kth \in Nat /\ (\A i \in truth : g[i] <= kth) /\ \E j \in truth : kth = g[j]
  <2> DEFINE gaps == {g[i] : i \in truth}
             f == [i \in truth |-> g[i]]
  <2>1. f \in Surjection(truth, gaps)
    BY DEF Surjection
  <2>2. IsFiniteSet(gaps)
    <3> HIDE DEF f, gaps
    <3> QED
      BY <1>14, <2>1, FS_Surjection
  <2>3. truth # {}
    BY <1>1, <1>14, FS_EmptySet
  <2>4. \A i \in truth : g[i] \in Nat
    BY <1>1, <1>16
  <2>5. gaps # {} /\ \A x \in gaps : x \in Int
    BY <2>3, <2>4
  <2>6. Max(gaps) \in gaps /\ \A y \in gaps : Max(gaps) >= y
    <3> HIDE DEF gaps
    <3> QED
      BY <2>2, <2>5, Extremes
  <2>7. kth = Max(gaps)
    BY DEF kth
  <2> DEFINE most == Max(gaps)
  <2>8. most \in gaps /\ \A y \in gaps : most >= y
    BY <2>6
  <2> HIDE DEF most
  <2>9. most \in Nat /\ (\A i \in truth : g[i] <= most) /\ \E j \in truth : most = g[j]
    BY <2>4, <2>8
  <2> QED
    BY <2>7, <2>9 DEF most
<1>18. may \subseteq others /\ IsFiniteSet(may) /\ Cardinality(may) >= k /\ Cardinality(may) \in Nat
  <2>1. may \subseteq others
    BY <1>4, <1>11, <1>16
  <2>2. IsFiniteSet(may) /\ Cardinality(may) \in Nat
    BY <1>3, <2>1, FS_Subset, FS_CardinalityType
  <2>3. CASE arm.name = "exact"
    <3>1. may = truth
      BY <1>4, <1>11, <2>3
    <3> QED
      BY <1>1, <1>14, <2>1, <2>2, <3>1
  <2>4. CASE arm \in Windows
    <3>1. may = pool \ passed
      BY <1>4, <1>11, <2>4
    <3>2. Cardinality(pool \ passed) = Cardinality(pool) - Cardinality(pool \cap passed)
      BY <1>12, FS_Difference
    <3>3. pool \cap passed = passed
      BY <1>13
    <3>4. Cardinality(may) = ranks - skipped
      BY <1>12, <1>13, <3>1, <3>2, <3>3
    <3> QED
      BY <1>1, <1>6, <2>1, <2>2, <3>4
  <2>6. CASE arm.name = "ratio2x"
    <3>1. may = {i \in others : g[i] <= 2 * kth}
      BY <1>4, <1>11, <2>6
    <3>2. \A i \in truth : g[i] \in Nat
      BY <1>1, <1>16
    <3>3. truth \subseteq may
      BY <1>16, <1>17, <3>1, <3>2
    <3>4. Cardinality(truth) <= Cardinality(may)
      BY <2>2, <3>3, FS_Subset
    <3> QED
      BY <1>1, <1>14, <2>1, <2>2, <3>4
  <2>7. CASE arm.name = "uniform"
    <3>1. may = others
      BY <1>4, <1>11, <2>7
    <3> QED
      BY <1>1, <1>3, <1>6, <2>1, <2>2, <3>1
  <2> QED
    BY <1>4, <2>1, <2>2, <2>3, <2>4, <2>6, <2>7
<1>19. arm.low = 0 => truth \subseteq may
  <2> SUFFICES ASSUME arm.low = 0 PROVE truth \subseteq may
    OBVIOUS
  <2>1. CASE arm.name = "exact"
    BY <1>4, <1>11, <2>1
  <2>2. CASE arm.name = "top2k"
    <3>1. may = pool \ passed
      BY <1>4, <1>11, <2>2
    <3>2. skipped = 0
      BY <1>1 DEF skipped
    <3>3. passed = {}
      BY <1>13, <3>2, FS_EmptySet
    <3> QED
      BY <1>14, <3>1, <3>3
  <2>3. CASE arm.name = "ratio2x"
    <3>1. may = {i \in others : g[i] <= 2 * kth}
      BY <1>4, <1>11, <2>3
    <3>2. \A i \in truth : g[i] \in Nat
      BY <1>1, <1>16
    <3> QED
      BY <1>16, <1>17, <3>1, <3>2
  <2>4. CASE arm.name = "uniform"
    BY <1>4, <1>11, <1>16, <2>4
  <2> QED
    BY <1>4, <2>1, <2>2, <2>3, <2>4
<1>20. /\ arm.low = 0 => \A i \in truth : \A j \in pool \ truth : apart[i] <= apart[j]
       /\ arm.low # 0 => truth \subseteq passed
  BY <1>14 DEF from
<1> QED
  BY <1>12, <1>13, <1>14, <1>16, <1>17, <1>18, <1>19, <1>20
     DEF RankingOK, ids, others, g, apart, k, ranks, skipped, pool, passed, truth, may, kth

\* An arm whose window begins at the top may draw the truth itself.
LEMMA ArmMayHit ==
    ASSUME NEW check, NEW arm, CheckOK(check), ArmOK(check, arm), arm.low = 0
    PROVE  \E drawn \in Corrupted(check, arm) : drawn.ids = drawn.truth
<1> DEFINE ids == PointIds(check)
           apart == Apart(check)
           k == check.k
           ranks == k * arm.high
<1>1. k \in Nat /\ ranks \in Nat /\ k <= ranks /\ ranks < check.n /\ k * arm.low = 0 /\ k * 1 = k
  <2>1. k \in Nat /\ arm.high \in {1, 2}
    BY DEF CheckOK, ArmOK, AblationArms, Windows
  <2>2. \/ ranks = k
        \/ ranks = 2 * k
    BY <2>1
  <2>3. ranks < check.n /\ k * arm.low = 0 /\ k * 1 = k
    BY <2>1 DEF ArmOK
  <2> HIDE DEF ranks
  <2> QED
    BY <2>1, <2>2, <2>3
<1>2. IsFiniteSet(ids) /\ Cardinality(ids) = check.n /\ check.n \in Nat
  BY PointsFinite DEF CheckOK
<1>3. Rankable(apart, ids)
  <2>1. \A i \in ids : i \in Int /\ apart[i] \in Int
    BY ApartFacts DEF PointIds, CheckOK
  <2> HIDE DEF ids, apart
  <2> QED
    BY <1>2, <2>1 DEF Rankable
<1> HIDE DEF ids, apart, k, ranks
<1>4. PICK pool : pool \in Nearests(apart, ids, ranks)
  BY <1>1, <1>2, <1>3, NearestExist
<1>5. pool \subseteq ids /\ Cardinality(pool) = ranks /\ IsFiniteSet(pool)
  BY <1>1, <1>2, <1>4, NearestsFacts
<1>6. Rankable(apart, pool)
  BY <1>3, <1>5 DEF Rankable
<1>7. PICK passed : passed \in Nearests(apart, pool, 0)
  <2>1. 0 \in Nat /\ 0 <= Cardinality(pool)
    BY <1>1, <1>5
  <2> QED
    BY <1>6, <2>1, NearestExist
<1>8. PICK truth : truth \in Nearests(apart, pool, k)
  BY <1>1, <1>5, <1>6, NearestExist
<1> DEFINE ranked == [pool |-> pool, passed |-> passed, truth |-> truth]
<1>9. ranked \in Rankings(check, arm)
  <2> DEFINE first(m, some) == Nearests(apart, some, k * m)
  <2>1. /\ pool \in first(arm.high, ids) /\ passed \in first(arm.low, pool)
        /\ truth \in first(1, IF arm.low = 0 THEN pool ELSE passed)
    BY <1>1, <1>4, <1>7, <1>8 DEF ranks
  <2> HIDE DEF first
  <2>2. ranked \in UNION {UNION {{[pool |-> P, passed |-> Q, truth |-> T] :
                     T \in first(1, IF arm.low = 0 THEN P ELSE Q)} :
                     Q \in first(arm.low, P)} : P \in first(arm.high, ids)}
    BY <2>1
  <2> QED
    BY <2>2 DEF first, Rankings, ids, apart, k
<1>10. RankingOK(check, arm, ranked)
  BY <1>9, RankingFacts
<1> DEFINE may == Eligible(check, arm, ranked)
<1>11. /\ truth \subseteq may /\ Cardinality(truth) = k
       /\ Cardinality(may) \in Nat /\ Cardinality(may) >= k
  BY <1>10 DEF RankingOK, k
<1> HIDE DEF may
<1>12. truth \in kSubset(Min({k, Cardinality(may)}), may)
  <2> DEFINE c == Cardinality(may)
  <2>1. c \in Nat /\ k <= c
    BY <1>11
  <2> HIDE DEF c
  <2>2. Min({k, c}) = k
    BY <1>1, <2>1, LesserOf
  <2> QED
    BY <1>11, <2>2 DEF c, kSubset
<1>13. [truth |-> truth, ids |-> truth] \in Corrupted(check, arm)
  <2>1. ranked.truth = truth
    OBVIOUS
  <2> HIDE DEF ranked
  <2> DEFINE draws(one) == {[truth |-> one.truth, ids |-> chosen] :
                               chosen \in kSubset(Min({k, Cardinality(Eligible(check, arm, one))}),
                                                  Eligible(check, arm, one))}
  <2>2. Corrupted(check, arm) = UNION {draws(one) : one \in Rankings(check, arm)}
    BY DEF Corrupted, k
  <2>3. [truth |-> ranked.truth, ids |-> truth] \in draws(ranked)
    BY <1>12 DEF may
  <2> HIDE DEF draws
  <2> QED
    BY <1>9, <2>1, <2>2, <2>3
<1> DEFINE all == [truth |-> truth, ids |-> truth]
<1>14. all \in Corrupted(check, arm) /\ all.ids = all.truth
  BY <1>13
<1> HIDE DEF all
<1> QED
  BY <1>14

\* The arms of bench_recall_ablation.py corrupt an answer as their names say, for
\* any number of points, any distances (shared ones too) and any k: see AblationSound.
THEOREM ArmsAreSound == \A check, arm : CheckOK(check) /\ ArmOK(check, arm) => AblationSound(check, arm)
<1> SUFFICES ASSUME NEW check, NEW arm, CheckOK(check), ArmOK(check, arm)
             PROVE  AblationSound(check, arm)
  OBVIOUS
<1> DEFINE ids == PointIds(check)
           others == Others(check)
           g == check.gap
           apart == Apart(check)
           own == check.own
           k == check.k
           n == check.n
<1>1. n \in Nat /\ k \in Nat /\ k >= 1 /\ own \in ids /\ g \in [ids -> Nat] /\ others = ids \ {own}
  BY DEF CheckOK, Others
<1>2. /\ \A i \in others : apart[i] = g[i]
      /\ \A i \in others : g[i] < apart[own]
      /\ \A i \in ids : apart[i] \in Nat
  BY ApartFacts
<1>3. /\ IsFiniteSet(ids) /\ Cardinality(ids) = n
      /\ IsFiniteSet(others) /\ Cardinality(others) = n - 1
  BY PointsFinite
<1>4. /\ arm.name \in {"exact", "ratio2x", "uniform", "top2k", "rank1-4k", "rank8-16k"}
      /\ arm \in Windows <=> arm.name \in {"top2k", "rank1-4k", "rank8-16k"}
      /\ arm.low = CASE arm.name = "rank1-4k" -> 1 [] arm.name = "rank8-16k" -> 8 [] OTHER -> 0
      /\ arm.high = CASE arm.name = "top2k" -> 2 [] arm.name = "rank1-4k" -> 4
                      [] arm.name = "rank8-16k" -> 16 [] OTHER -> 1
  BY DEF ArmOK, AblationArms, Windows
<1>5. <<arm.low, arm.high>> \in {<<0, 1>>, <<0, 2>>, <<1, 4>>, <<8, 16>>}
  BY <1>4
<1> DEFINE ranks == k * arm.high
           skipped == k * arm.low
<1>6. /\ ranks \in Nat /\ ranks < n /\ skipped \in Nat /\ ranks >= skipped + k /\ k <= n - 1
      /\ arm.low \in Nat /\ (arm.low # 0 => skipped >= k)
  <2>1. ranks < n
    BY DEF ArmOK
  <2>2. \/ ranks = k /\ skipped = 0 /\ arm.low = 0
        \/ ranks = 2 * k /\ skipped = 0 /\ arm.low = 0
        \/ ranks = 4 * k /\ skipped = k /\ arm.low = 1
        \/ ranks = 16 * k /\ skipped = 8 * k /\ arm.low = 8
    BY <1>1, <1>5
  <2> HIDE DEF ranks, skipped
  <2> QED
    BY <1>1, <2>1, <2>2
<1>top. arm.low = 0 => \E drawn \in Corrupted(check, arm) : drawn.ids = drawn.truth
  BY ArmMayHit
<1> SUFFICES ASSUME NEW drawn \in Corrupted(check, arm)
             PROVE  /\ Cardinality(drawn.ids) = k /\ own \notin drawn.ids
                    /\ arm.name = "exact" => drawn.ids \in Nearests(g, others, k)
                    /\ arm \in Windows => \A i \in drawn.ids :
                          /\ Cardinality({j \in others : g[j] < g[i]}) < ranks
                          /\ Cardinality({j \in others \ {i} : g[j] <= g[i]}) >= skipped
                    /\ arm.low >= 1 => drawn.ids \cap drawn.truth = {}
                    /\ arm.name = "ratio2x" =>
                          \A i \in drawn.ids : \E j \in drawn.truth : g[i] <= 2 * g[j]
  BY <1>top DEF AblationSound
<1>7. PICK ranked \in Rankings(check, arm) :
        \E chosen \in kSubset(Min({k, Cardinality(Eligible(check, arm, ranked))}),
                              Eligible(check, arm, ranked)) :
           drawn = [truth |-> ranked.truth, ids |-> chosen]
  BY DEF Corrupted
<1> DEFINE pool == ranked.pool
           passed == ranked.passed
           truth == ranked.truth
           may == Eligible(check, arm, ranked)
<1>9. PICK chosen \in kSubset(Min({k, Cardinality(may)}), may) : drawn = [truth |-> truth, ids |-> chosen]
  BY <1>7
<1>10. drawn.truth = truth /\ drawn.ids = chosen
  BY <1>9
<1> DEFINE kth == Max({g[i] : i \in truth})
<1>11. may = CASE arm.name = "exact" -> truth
               [] arm \in Windows -> pool \ passed
               [] arm.name = "ratio2x" -> {i \in others : g[i] <= 2 * kth}
               [] OTHER -> others
  BY DEF Eligible
<1>12. RankingOK(check, arm, ranked)
  BY <1>7, RankingFacts
<1>13. /\ pool \subseteq others /\ truth \subseteq pool /\ truth \subseteq others /\ passed \subseteq pool
       /\ may \subseteq others
       /\ IsFiniteSet(pool) /\ Cardinality(pool) = ranks
       /\ \A i \in pool : \A j \in ids \ pool : apart[i] <= apart[j]
  BY <1>12 DEF RankingOK
<1>14. /\ IsFiniteSet(passed) /\ Cardinality(passed) = skipped
       /\ \A i \in passed : \A j \in pool \ passed : apart[i] <= apart[j]
  BY <1>12 DEF RankingOK
<1>15. /\ IsFiniteSet(truth) /\ Cardinality(truth) = k
       /\ arm.low # 0 => truth \subseteq passed
       /\ arm.low = 0 => \A i \in truth : \A j \in pool \ truth : apart[i] <= apart[j]
  BY <1>12 DEF RankingOK
<1>17. kth \in Nat /\ (\A i \in truth : g[i] <= kth) /\ \E j \in truth : kth = g[j]
  BY <1>12 DEF RankingOK
<1>18. IsFiniteSet(may) /\ Cardinality(may) >= k /\ Cardinality(may) \in Nat
  BY <1>12 DEF RankingOK
<1> HIDE DEF ids, others, g, apart, own, k, n, ranks, skipped, pool, passed, truth, may, kth
<1>19. chosen \subseteq may /\ Cardinality(chosen) = k
  <2>1. Min({k, Cardinality(may)}) = k
    <3> DEFINE c == Cardinality(may)
    <3>1. c \in Nat /\ c >= k
      BY <1>18
    <3> HIDE DEF c
    <3>2. Min({k, c}) = k
      BY <1>1, <3>1, LesserOf
    <3> QED
      BY <3>2 DEF c
  <2> QED
    BY <1>9, <2>1 DEF kSubset
<1>20. arm.name = "exact" => chosen \in Nearests(g, others, k)
  <2> SUFFICES ASSUME arm.name = "exact" PROVE chosen \in Nearests(g, others, k)
    OBVIOUS
  <2>1. chosen = truth
    <3>1. may = truth
      BY <1>4, <1>11
    <3>2. chosen \in SUBSET truth /\ Cardinality(truth) = Cardinality(chosen)
      BY <1>15, <1>19, <3>1
    <3> QED
      BY <1>15, <3>2, FS_Subset
  <2>2. Min({k, Cardinality(others)}) = k
    <3>1. n - 1 \in Nat /\ k <= n - 1
      BY <1>1, <1>6
    <3> DEFINE c == n - 1
    <3> HIDE DEF c
    <3>2. c \in Nat /\ k <= c
      BY <3>1 DEF c
    <3>3. Min({k, c}) = k
      BY <1>1, <3>2, LesserOf
    <3> QED
      BY <1>3, <3>3 DEF c
  <2>3. ASSUME NEW i \in truth, NEW j \in others \ truth PROVE g[i] <= g[j]
    <3>1. apart[i] = g[i] /\ apart[j] = g[j] /\ i \in pool /\ j \in ids
      BY <1>1, <1>2, <1>13
    <3>2. apart[i] <= apart[j]
      <4>1. arm.low = 0
        BY <1>4
      <4> QED
        BY <1>13, <1>15, <3>1, <4>1
    <3> QED
      BY <3>1, <3>2
  <2>4. truth \in kSubset(k, others)
    BY <1>13, <1>15 DEF kSubset
  <2> QED
    BY <2>1, <2>2, <2>3, <2>4 DEF Nearests
<1>21. arm.low >= 1 => chosen \cap truth = {}
  <2> SUFFICES ASSUME arm.low >= 1 PROVE chosen \cap truth = {}
    OBVIOUS
  <2>1. arm \in Windows /\ arm.name # "exact" /\ truth \subseteq passed
    BY <1>4, <1>5, <1>15
  <2>2. may = pool \ passed
    BY <1>4, <1>11, <2>1
  <2> QED
    BY <1>19, <2>1, <2>2
<1>22. arm.name = "ratio2x" => \A i \in chosen : \E j \in truth : g[i] <= 2 * g[j]
  BY <1>4, <1>11, <1>17, <1>19
<1>23. ASSUME arm \in Windows, NEW i \in chosen
       PROVE  /\ Cardinality({j \in others : g[j] < g[i]}) < ranks
              /\ Cardinality({j \in others \ {i} : g[j] <= g[i]}) >= skipped
  <2> DEFINE nearer == {j \in others : g[j] < g[i]}
             asNear == {j \in others \ {i} : g[j] <= g[i]}
  <2>1. i \in pool \ passed /\ i \in others /\ apart[i] = g[i] /\ g[i] \in Nat
    BY <1>1, <1>2, <1>4, <1>11, <1>13, <1>19, <1>23
  <2>2. \A j \in others : j \in ids /\ apart[j] = g[j] /\ g[j] \in Nat
    BY <1>1, <1>2
  <2>3. nearer \subseteq pool \ {i}
    <3> SUFFICES ASSUME NEW j \in others, g[j] < g[i] PROVE j \in pool /\ j # i
      OBVIOUS
    <3>1. ~(apart[i] <= apart[j])
      BY <2>1, <2>2
    <3> QED
      BY <1>13, <2>1, <2>2, <3>1
  <2>4. Cardinality(nearer) < ranks
    <3>1. IsFiniteSet(pool \ {i}) /\ Cardinality(pool \ {i}) = ranks - 1
      BY <1>13, <2>1, FS_RemoveElement
    <3>2. Cardinality(nearer) <= Cardinality(pool \ {i}) /\ Cardinality(nearer) \in Nat
      BY <2>3, <3>1, FS_Subset, FS_CardinalityType
    <3> QED
      BY <1>6, <3>1, <3>2
  <2>5. passed \subseteq asNear
    <3> SUFFICES ASSUME NEW j \in passed PROVE j \in others /\ j # i /\ g[j] <= g[i]
      OBVIOUS
    <3>1. j \in others /\ apart[j] <= apart[i]
      BY <1>13, <1>14, <2>1
    <3> QED
      BY <2>1, <2>2, <3>1
  <2>6. Cardinality(asNear) >= skipped
    <3>1. IsFiniteSet(asNear) /\ Cardinality(asNear) \in Nat
      BY <1>3, FS_Subset, FS_CardinalityType
    <3>2. Cardinality(passed) <= Cardinality(asNear)
      BY <2>5, <3>1, FS_Subset
    <3> QED
      BY <1>6, <1>14, <3>1, <3>2
  <2> QED
    BY <2>4, <2>6
<1> QED
  BY <1>1, <1>10, <1>13, <1>19, <1>20, <1>21, <1>22, <1>23 DEF own, k, g, others, truth

\* The nearest of a set and of what comes to it are the nearest of what was kept
\* of the set and of what comes to it.
LEMMA NearestOfMore ==
    ASSUME NEW g, NEW I, NEW C, Rankable(g, I \cup C), I \cap C = {}, NEW k \in Nat
    PROVE  BestWith(g, Nearests(g, I, k), C, k) = Nearests(g, I \cup C, k)
<1> DEFINE both == I \cup C
<1>1. /\ IsFiniteSet(both) /\ IsFiniteSet(I) /\ IsFiniteSet(C)
      /\ \A i \in both : i \in Int /\ g[i] \in Int
  <2>1. IsFiniteSet(both) /\ \A i \in both : i \in Int /\ g[i] \in Int
    BY DEF Rankable
  <2>2. I \in SUBSET both /\ C \in SUBSET both
    OBVIOUS
  <2> HIDE DEF both
  <2> QED
    BY <2>1, <2>2, FS_Subset
<1>2. ASSUME NEW some \in SUBSET I
      PROVE  /\ IsFiniteSet(some) /\ Cardinality(some) \in Nat /\ Cardinality(some) <= Cardinality(I)
             /\ IsFiniteSet(some \cup C) /\ Cardinality(some \cup C) = Cardinality(some) + Cardinality(C)
  <2>1. IsFiniteSet(some) /\ Cardinality(some) <= Cardinality(I)
    BY <1>1, FS_Subset
  <2>2. IsFiniteSet(some \cup C) /\ Cardinality(some \cup C) = Cardinality(some) + Cardinality(C) - Cardinality(some \cap C)
    BY <1>1, <2>1, FS_Union
  <2>3. some \cap C = {}
    OBVIOUS
  <2>4. Cardinality(some \cap C) = 0 /\ Cardinality(some) \in Nat /\ Cardinality(C) \in Nat
    BY <1>1, <2>1, <2>3, FS_EmptySet, FS_CardinalityType
  <2> HIDE DEF both
  <2> QED
    BY <2>1, <2>2, <2>4
<1>3. Cardinality(I) \in Nat /\ Cardinality(C) \in Nat /\ Cardinality(both) = Cardinality(I) + Cardinality(C)
  BY <1>1, <1>2, FS_CardinalityType
<1>4. ASSUME NEW some \in Nearests(g, I, k), NEW T \in Nearests(g, some \cup C, k)
      PROVE  T \in Nearests(g, both, k)
  <2>1. /\ some \subseteq I /\ Cardinality(some) = Lesser(k, Cardinality(I))
        /\ \A i \in some : \A j \in I \ some : g[i] <= g[j]
    BY <1>1, NearestsAre
  <2>2. /\ IsFiniteSet(some) /\ IsFiniteSet(some \cup C) /\ Cardinality(some \cup C) = Cardinality(some) + Cardinality(C)
    BY <1>2, <2>1
  <2>3. /\ T \subseteq some \cup C /\ Cardinality(T) = Lesser(k, Cardinality(some \cup C))
        /\ \A i \in T : \A j \in (some \cup C) \ T : g[i] <= g[j]
    BY <2>2, NearestsAre
  <2>4. T \subseteq both /\ some \subseteq both
    BY <2>1, <2>3
  <2>5. Cardinality(T) = Lesser(k, Cardinality(both))
    BY <1>3, <2>1, <2>2, <2>3 DEF Lesser
  <2>6. ASSUME NEW i \in T, NEW j \in both \ T PROVE g[i] <= g[j]
    <3>1. CASE j \in some \cup C
      BY <2>3, <2>6, <3>1
    <3>2. CASE j \notin some \cup C /\ i \in some
      BY <2>1, <2>6, <3>2
    <3>3. CASE j \notin some \cup C /\ i \notin some
      <4>1. j \in I \ some
        BY <2>6, <3>3
      <4>2. Cardinality(some) = k
        <5>1. Cardinality(some) # Cardinality(I)
          BY <1>1, <2>1, <4>1, FS_Subset
        <5> QED
          BY <2>1, <5>1 DEF Lesser
      <4>3. Cardinality(T) <= k
        BY <1>2, <1>3, <2>1, <2>2, <2>3 DEF Lesser
      <4>4. ~(some \subseteq T)
        <5>1. SUFFICES ASSUME some \subseteq T PROVE FALSE
          OBVIOUS
        <5>2. IsFiniteSet(T) /\ Cardinality(T) \in Nat
          BY <2>2, <2>3, FS_Subset, FS_CardinalityType
        <5>3. Cardinality(some) <= Cardinality(T) /\ (Cardinality(T) = Cardinality(some) => T = some)
          BY <5>1, <5>2, FS_Subset
        <5> QED
          BY <2>6, <3>3, <4>2, <4>3, <5>2, <5>3
      <4>5. PICK s \in some : s \notin T
        BY <4>4
      <4>6. g[i] <= g[s]
        BY <2>3, <2>6, <4>5
      <4>7. g[s] <= g[j]
        BY <2>1, <4>1, <4>5
      <4>8. g[i] \in Int /\ g[j] \in Int /\ g[s] \in Int
        BY <1>1, <2>4, <2>6, <4>5
      <4> QED
        BY <4>6, <4>7, <4>8
    <3> QED
      BY <3>1, <3>2, <3>3
  <2> HIDE DEF both
  <2> QED
    BY <1>1, <2>4, <2>5, <2>6, NearestsAre
<1>5. ASSUME NEW T \in Nearests(g, both, k)
      PROVE  \E some \in Nearests(g, I, k) : T \in Nearests(g, some \cup C, k)
  <2> DEFINE R == I \ T
             had == T \cap I
             m == Lesser(k, Cardinality(I)) - Cardinality(had)
  <2>1. /\ T \subseteq both /\ Cardinality(T) = Lesser(k, Cardinality(both))
        /\ \A i \in T : \A j \in both \ T : g[i] <= g[j]
    <3> HIDE DEF both
    <3> QED
      BY <1>1, NearestsAre
  <2>2. had \in SUBSET I /\ R \in SUBSET I /\ had \cup R = I /\ had \cap R = {}
    OBVIOUS
  <2>3. /\ IsFiniteSet(had) /\ Cardinality(had) \in Nat /\ Cardinality(had) <= Cardinality(I)
        /\ IsFiniteSet(R) /\ Cardinality(R) \in Nat
    BY <1>2, <2>2
  <2>4. Cardinality(I) = Cardinality(had) + Cardinality(R)
    <3> HIDE DEF had, R
    <3>1. Cardinality(I) = Cardinality(had) + Cardinality(R) - Cardinality(had \cap R)
      BY <2>2, <2>3, FS_Union
    <3>2. Cardinality(had \cap R) = 0
      BY <2>2, FS_EmptySet
    <3> QED
      BY <2>3, <3>1, <3>2
  <2>5. Cardinality(had) <= k
    <3>1. IsFiniteSet(T) /\ Cardinality(T) \in Nat
      BY <1>1, <2>1, FS_Subset, FS_CardinalityType
    <3>2. Cardinality(had) <= Cardinality(T)
      BY <3>1, FS_Subset
    <3> QED
      BY <1>3, <2>1, <2>3, <3>1, <3>2 DEF Lesser
  <2>6. m \in Nat /\ m <= Cardinality(R)
    BY <1>3, <2>3, <2>4, <2>5 DEF Lesser
  <2>7. Rankable(g, R)
    BY <1>1, <2>3 DEF Rankable
  <2>8. PICK N : N \in Nearests(g, R, m)
    <3> HIDE DEF R, m
    <3> QED
      BY <2>6, <2>7, NearestExist
  <2>9. /\ N \subseteq R /\ Cardinality(N) = m
        /\ \A i \in N : \A j \in R \ N : g[i] <= g[j]
    <3> HIDE DEF R, m
    <3>1. /\ N \subseteq R /\ Cardinality(N) = Lesser(m, Cardinality(R))
          /\ \A i \in N : \A j \in R \ N : g[i] <= g[j]
      BY <2>3, <2>6, <2>8, NearestsAre
    <3> QED
      BY <2>6, <3>1 DEF Lesser
  <2> DEFINE some == had \cup N
  <2>10. some \subseteq I /\ had \cap N = {}
    BY <2>9
  <2>11. Cardinality(some) = Lesser(k, Cardinality(I))
    <3>1. IsFiniteSet(N)
      BY <2>3, <2>9, FS_Subset
    <3> HIDE DEF had
    <3>2. Cardinality(some) = Cardinality(had) + Cardinality(N) - Cardinality(had \cap N)
      BY <2>3, <3>1, FS_Union
    <3>3. Cardinality(had \cap N) = 0
      BY <2>10, FS_EmptySet
    <3> HIDE DEF some
    <3> QED
      BY <1>3, <2>3, <2>6, <2>9, <3>2, <3>3 DEF Lesser
  <2>12. \A i \in some : \A j \in I \ some : g[i] <= g[j]
    <3>1. ASSUME NEW i \in had, NEW j \in I \ some PROVE g[i] <= g[j]
      BY <2>1, <3>1
    <3>2. ASSUME NEW i \in N, NEW j \in I \ some PROVE g[i] <= g[j]
      BY <2>9, <3>2
    <3> QED
      BY <3>1, <3>2
  <2>13. some \in Nearests(g, I, k)
    <3> HIDE DEF some
    <3> QED
      BY <1>1, <2>10, <2>11, <2>12, NearestsAre
  <2>14. IsFiniteSet(some \cup C) /\ Cardinality(some \cup C) = Cardinality(some) + Cardinality(C)
    <3> HIDE DEF some
    <3> QED
      BY <1>2, <2>10
  <2>15. T \subseteq some \cup C
    BY <2>1
  <2>16. Cardinality(T) = Lesser(k, Cardinality(some \cup C))
    <3> HIDE DEF some, had, both
    <3> QED
      BY <1>3, <2>1, <2>11, <2>14 DEF Lesser
  <2>17. \A i \in T : \A j \in (some \cup C) \ T : g[i] <= g[j]
    BY <2>1, <2>10
  <2>18. T \in Nearests(g, some \cup C, k)
    <3> HIDE DEF some
    <3> QED
      BY <2>14, <2>15, <2>16, <2>17, NearestsAre
  <2> QED
    BY <2>13, <2>18
<1> QED
  BY <1>4, <1>5 DEF BestWith

\* What a score is taken of: fewer neighbours than there are others, of a query that
\* stands at its own point.
ScoreOK(check) ==
    /\ CheckOK(check)
    /\ check.k < check.n /\ check.gap[check.own] = 0 /\ check.radius \in Nat

\* Larger numbers have no smaller quotients.
LEMMA DivRises ==
    ASSUME NEW m \in Nat, m # 0, NEW i \in Nat, NEW j \in Nat, i <= j
    PROVE  i \div m \in Nat /\ i \div m <= j \div m
<1> DEFINE x == i \div m
           y == j \div m
           u == i % m
           v == j % m
<1>1. x \in Int /\ y \in Int /\ u \in 0..(m - 1) /\ v \in 0..(m - 1) /\ i = m * x + u /\ j = m * y + v
  OBVIOUS
<1> HIDE DEF x, y, u, v
<1>2. x >= 0
  <2> SUFFICES ASSUME x <= -1 PROVE FALSE
    BY <1>1
  <2>1. m * x <= m * (-1)
    BY <1>1
  <2>2. m * x \in Int
    BY <1>1
  <2> QED
    BY <1>1, <2>1, <2>2
<1>3. x <= y
  <2> SUFFICES ASSUME x >= y + 1 PROVE FALSE
    BY <1>1
  <2>1. m * x >= m * (y + 1)
    BY <1>1
  <2>2. m * (y + 1) = m * y + m /\ m * x \in Int /\ m * y \in Int
    BY <1>1
  <2> QED
    BY <1>1, <2>1, <2>2
<1> QED
  BY <1>1, <1>2, <1>3 DEF x, y

\* Nothing but the empty set is nearest of nothing.
LEMMA NearestOfNone ==
    ASSUME NEW g, NEW k \in Nat
    PROVE  Nearests(g, {}, k) = {{}}
<1>1. IsFiniteSet({}) /\ Cardinality({}) = 0 /\ Lesser(k, 0) = 0
  BY FS_EmptySet DEF Lesser
<1>2. \A T : T \in Nearests(g, {}, k) <=> /\ T \subseteq {} /\ Cardinality(T) = 0
                                         /\ \A i \in T : \A j \in {} \ T : g[i] <= g[j]
  BY <1>1, NearestsAre
<1>3. \A T : T \in Nearests(g, {}, k) <=> T = {}
  BY <1>1, <1>2
<1> QED
  BY <1>3

\* Keeping the best k of what was kept and the next block of columns, whatever the
\* size of a block and however ties fall, ends with what one look at all keeps.
LEMMA BlockedAreNearest ==
    ASSUME NEW check, ScoreOK(check), NEW block \in Nat, block # 0
    PROVE  BlockedTruths(check, block) = Nearests(Apart(check), PointIds(check), check.k)
<1> DEFINE ids == PointIds(check)
           g == Apart(check)
           k == check.k
           blocks == (check.n - 1) \div block + 1
           D == SUBSET SUBSET ids
           columns(n) == {i \in PointIds(check) : i \div block = n - 1}
           upto(n) == {i \in ids : i \div block < n}
           more(X, n) == BestWith(g, X, columns(n), k)
           turn == [n \in 1..blocks |-> [X \in D |-> more(X, n)]]
           best == CHOOSE best : best = [n \in 0..blocks |-> IF n = 0 THEN {{}} ELSE more(best[n - 1], n)]
<1>1. BlockedTruths(check, block) = best[blocks]
  BY DEF BlockedTruths
<1>2. /\ check.n \in Nat /\ check.n >= 1 /\ k \in Nat /\ ids = 0..(check.n - 1) /\ IsFiniteSet(ids)
      /\ \A i \in ids : i \in Int /\ g[i] \in Int
  <2>1. check.n \in Nat /\ check.n >= 1 /\ k \in Nat /\ ids = 0..(check.n - 1)
    BY DEF ScoreOK, CheckOK, PointIds
  <2>2. IsFiniteSet(ids)
    BY PointsFinite DEF ScoreOK
  <2>3. \A i \in ids : g[i] \in Nat
    BY ApartFacts DEF ScoreOK
  <2> HIDE DEF g, ids
  <2> QED
    BY <2>1, <2>2, <2>3
<1>3. \A i \in ids : i \div block \in Nat /\ i \div block <= (check.n - 1) \div block
  BY <1>2, DivRises
<1>4. blocks \in Nat
  <2>1. 0 \in ids /\ (check.n - 1) \div block \in Int
    BY <1>2
  <2>2. (check.n - 1) \div block >= 0
    BY <1>3, <2>1
  <2> QED
    BY <2>1, <2>2
<1>5. upto(blocks) = ids
  <2> HIDE DEF ids
  <2>1. (check.n - 1) \div block \in Int
    BY <1>2
  <2>2. \A i \in ids : i \div block < blocks
    BY <1>3, <2>1
  <2> QED
    BY <2>2
<1> HIDE DEF g, k, ids, blocks
<1>6. \A X \in D : \A n : more(X, n) \in D
  <2> SUFFICES ASSUME NEW X \in D, NEW n PROVE more(X, n) \in D
    OBVIOUS
  <2>1. ASSUME NEW some \in X, NEW T \in Nearests(g, some \cup columns(n), k) PROVE T \subseteq ids
    <3>1. T \subseteq some \cup columns(n)
      <4> HIDE DEF columns
      <4> QED
        BY DEF Nearests, kSubset
    <3>2. columns(n) \subseteq ids /\ some \subseteq ids
      BY DEF ids
    <3> QED
      BY <3>1, <3>2
  <2> HIDE DEF columns
  <2>2. ASSUME NEW T \in BestWith(g, X, columns(n), k) PROVE T \subseteq ids
    <3>1. PICK some \in X : T \in Nearests(g, some \cup columns(n), k)
      BY <2>2 DEF BestWith
    <3> QED
      BY <2>1, <3>1
  <2> QED
    BY <2>2
<1>7. {{}} \in D
  OBVIOUS
<1> HIDE DEF D, more
<1>8. turn \in [1..blocks -> [D -> D]] /\ \A n \in 1..blocks, X \in D : turn[n][X] = more(X, n)
  BY <1>6
<1> HIDE DEF turn
<1>9. PICK f : Loops(f, D, blocks, {{}}, turn)
  BY <1>4, <1>7, <1>8, Iterates
<1>10. f \in [0..blocks -> D] /\ f[0] = {{}} /\ \A n \in 1..blocks : f[n] = turn[n][f[n - 1]]
  BY <1>9 DEF Loops
<1>11. \A n \in 1..blocks : n - 1 \in 0..blocks /\ f[n] = more(f[n - 1], n)
  <2> SUFFICES ASSUME NEW n \in 1..blocks PROVE n - 1 \in 0..blocks /\ f[n] = more(f[n - 1], n)
    OBVIOUS
  <2>1. n - 1 \in 0..blocks
    BY <1>4
  <2>2. f[n - 1] \in D
    BY <1>10, <2>1
  <2> QED
    BY <1>8, <1>10, <2>1, <2>2
<1>12. f = [n \in 0..blocks |-> IF n = 0 THEN {{}} ELSE more(f[n - 1], n)]
  <2>1. \A n \in 0..blocks : n # 0 => n \in 1..blocks
    BY <1>4
  <2>2. \A n \in 0..blocks : f[n] = IF n = 0 THEN {{}} ELSE more(f[n - 1], n)
    BY <1>10, <1>11, <2>1
  <2>3. f = [n \in 0..blocks |-> f[n]]
    BY ONLY <1>10
  <2> QED
    BY ONLY <2>2, <2>3
<1>13. best = [n \in 0..blocks |-> IF n = 0 THEN {{}} ELSE more(best[n - 1], n)]
  BY <1>12
<1> HIDE DEF best
<1> DEFINE Bad == {n \in 0..blocks : best[n] # Nearests(g, upto(n), k)}
<1>14. Bad = {}
  <2> SUFFICES ASSUME Bad # {} PROVE FALSE
    OBVIOUS
  <2>1. Bad \in SUBSET Nat
    BY <1>4
  <2>2. PICK n \in Bad : \A m \in Bad : n <= m
    <3> HIDE DEF Bad
    <3> QED
      BY <2>1, LeastNatural
  <2>3. n \in 0..blocks /\ best[n] # Nearests(g, upto(n), k)
    OBVIOUS
  <2>4. n # 0
    <3>1. upto(0) = {}
      BY <1>3 DEF ids
    <3>2. 0 \in 0..blocks
      BY <1>4
    <3>3. best[0] = {{}}
      BY <1>13, <3>2
    <3>4. Nearests(g, {}, k) = {{}}
      BY <1>2, NearestOfNone
    <3> HIDE DEF upto
    <3> QED
      BY <2>3, <3>1, <3>3, <3>4
  <2>5. n \in Nat /\ n - 1 \in 0..blocks /\ ~(n <= n - 1)
    BY <1>4, <2>3, <2>4
  <2>6. best[n - 1] = Nearests(g, upto(n - 1), k)
    <3> HIDE DEF upto
    <3>1. \A m : m \in 0..blocks /\ best[m] # Nearests(g, upto(m), k) => n <= m
      BY <2>2, SMTT(30)
    <3> QED
      BY <2>5, <3>1
  <2>7. upto(n) = upto(n - 1) \cup columns(n) /\ upto(n - 1) \cap columns(n) = {}
    BY <1>3, <2>5 DEF ids
  <2>8. Rankable(g, upto(n - 1) \cup columns(n))
    <3>1. upto(n) \in SUBSET ids
      OBVIOUS
    <3> HIDE DEF upto, columns
    <3>2. IsFiniteSet(upto(n))
      BY <1>2, <3>1, FS_Subset
    <3> QED
      BY <1>2, <2>7, <3>1, <3>2 DEF Rankable
  <2>9. best[n] = more(best[n - 1], n)
    BY <1>13, <2>3, <2>4
  <2>10. more(Nearests(g, upto(n - 1), k), n) = Nearests(g, upto(n), k)
    <3> HIDE DEF upto, columns
    <3>1. BestWith(g, Nearests(g, upto(n - 1), k), columns(n), k)
             = Nearests(g, upto(n - 1) \cup columns(n), k)
      BY <1>2, <2>7, <2>8, NearestOfMore
    <3> QED
      BY <2>7, <3>1 DEF more
  <2> HIDE DEF upto
  <2> QED
    BY <2>3, <2>6, <2>9, <2>10
<1>15. blocks \in 0..blocks
  BY <1>4
<1> HIDE DEF upto
<1>16. best[blocks] = Nearests(g, upto(blocks), k)
  BY <1>14, <1>15
<1> QED
  BY <1>1, <1>5, <1>16 DEF g, k, ids, best, blocks, more

\* Setting the own distance to infinity before sorting excludes the querying point.
LEMMA SampleAreNearest ==
    ASSUME NEW check, ScoreOK(check)
    PROVE  Nearests(Apart(check), PointIds(check), check.k) = Nearests(check.gap, Others(check), check.k)
<1> DEFINE ids == PointIds(check)
           others == Others(check)
           g == check.gap
           apart == Apart(check)
           own == check.own
           k == check.k
<1>1. /\ own \in ids /\ others = ids \ {own} /\ k \in Nat
      /\ IsFiniteSet(ids) /\ IsFiniteSet(others) /\ Cardinality(ids) = Cardinality(others) + 1
      /\ Cardinality(others) \in Nat /\ k <= Cardinality(others)
  <2>1. CheckOK(check) /\ k < check.n
    BY DEF ScoreOK
  <2>2. own \in ids /\ others = ids \ {own} /\ k \in Nat /\ check.n \in Nat
    BY <2>1 DEF CheckOK, Others
  <2>3. /\ IsFiniteSet(ids) /\ Cardinality(ids) = check.n
        /\ IsFiniteSet(others) /\ Cardinality(others) = check.n - 1
    BY <2>1, PointsFinite
  <2> HIDE DEF ids, others
  <2> QED
    BY <2>1, <2>2, <2>3
<1>2. /\ \A i \in others : apart[i] = g[i] /\ g[i] < apart[own] /\ g[i] \in Int
      /\ apart[own] \in Int
  <2>1. CheckOK(check)
    BY DEF ScoreOK
  <2>2. /\ \A i \in others : apart[i] = g[i]
        /\ \A i \in others : g[i] < apart[own]
        /\ \A i \in ids : apart[i] \in Nat
    BY <2>1, ApartFacts
  <2> HIDE DEF apart, g, ids, others, own
  <2> QED
    BY <1>1, <2>2
<1> HIDE DEF apart, g, ids, others, own, k
<1>3. Lesser(k, Cardinality(ids)) = k /\ Lesser(k, Cardinality(others)) = k
  BY <1>1 DEF Lesser
<1>4. ASSUME NEW T \in Nearests(apart, ids, k) PROVE T \in Nearests(g, others, k)
  <2>1. T \subseteq ids /\ Cardinality(T) = k /\ \A i \in T : \A j \in ids \ T : apart[i] <= apart[j]
    BY <1>1, <1>3, NearestsAre
  <2>2. own \notin T
    <3>1. SUFFICES ASSUME own \in T PROVE FALSE
      OBVIOUS
    <3>2. T # ids
      BY <1>1, <2>1
    <3>3. PICK j \in ids : j \notin T
      BY <2>1, <3>2
    <3>4. j \in others /\ apart[own] <= apart[j]
      BY <1>1, <2>1, <3>1, <3>3
    <3> QED
      BY <1>2, <3>4
  <2>3. T \subseteq others
    BY <1>1, <2>1, <2>2
  <2>4. \A i \in T : \A j \in others \ T : g[i] <= g[j]
    BY <1>1, <1>2, <2>1, <2>3
  <2> QED
    BY <1>1, <1>3, <2>1, <2>3, <2>4, NearestsAre
<1>5. ASSUME NEW T \in Nearests(g, others, k) PROVE T \in Nearests(apart, ids, k)
  <2>1. T \subseteq others /\ Cardinality(T) = k /\ \A i \in T : \A j \in others \ T : g[i] <= g[j]
    BY <1>1, <1>3, NearestsAre
  <2>2. \A i \in T : \A j \in ids \ T : apart[i] <= apart[j]
    <3> SUFFICES ASSUME NEW i \in T, NEW j \in ids \ T PROVE apart[i] <= apart[j]
      OBVIOUS
    <3>1. CASE j = own
      BY <1>2, <2>1, <3>1
    <3>2. CASE j # own
      BY <1>1, <1>2, <2>1, <3>2
    <3> QED
      BY <3>1, <3>2
  <2>3. T \subseteq ids
    BY <1>1, <2>1
  <2> QED
    BY <1>1, <1>3, <2>1, <2>2, <2>3, NearestsAre
<1>6. Nearests(apart, ids, k) = Nearests(g, others, k)
  BY <1>4, <1>5
<1> QED
  BY <1>6 DEF apart, g, ids, others, k

\* Asking for one neighbour more and filtering the querying point out excludes it
\* too, and where points that coincide with it crowd it out, the k that are kept
\* of them are as near as any.
LEMMA FlatAreNearest ==
    ASSUME NEW check, ScoreOK(check)
    PROVE  FlatTruths(check) = Nearests(check.gap, Others(check), check.k)
<1> DEFINE ids == PointIds(check)
           others == Others(check)
           g == check.gap
           own == check.own
           k == check.k
<1>1. /\ own \in ids /\ others = ids \ {own} /\ k \in Nat /\ k + 1 \in Nat
      /\ IsFiniteSet(ids) /\ IsFiniteSet(others) /\ Cardinality(ids) = Cardinality(others) + 1
      /\ Cardinality(others) \in Nat /\ k <= Cardinality(others)
      /\ g[own] = 0 /\ \A i \in ids : g[i] \in Nat
  <2>1. CheckOK(check) /\ k < check.n /\ g[own] = 0
    BY DEF ScoreOK
  <2>2. own \in ids /\ others = ids \ {own} /\ k \in Nat /\ check.n \in Nat /\ \A i \in ids : g[i] \in Nat
    BY <2>1 DEF CheckOK, Others
  <2>3. /\ IsFiniteSet(ids) /\ Cardinality(ids) = check.n
        /\ IsFiniteSet(others) /\ Cardinality(others) = check.n - 1
    BY <2>1, PointsFinite
  <2> HIDE DEF ids, others, g, own
  <2> QED
    BY <2>1, <2>2, <2>3
<1>2. FlatTruths(check) = UNION {Nearests(g, some \ {own}, k) : some \in Nearests(g, ids, k + 1)}
  BY DEF FlatTruths
<1> HIDE DEF g, ids, others, own, k
<1>3. Lesser(k + 1, Cardinality(ids)) = k + 1 /\ Lesser(k, Cardinality(others)) = k
  BY <1>1 DEF Lesser
<1>4. ASSUME NEW some \in Nearests(g, ids, k + 1)
      PROVE  /\ some \subseteq ids /\ Cardinality(some) = k + 1 /\ IsFiniteSet(some)
             /\ \A i \in some : \A j \in ids \ some : g[i] <= g[j]
  <2>1. /\ some \subseteq ids /\ Cardinality(some) = k + 1
        /\ \A i \in some : \A j \in ids \ some : g[i] <= g[j]
    BY <1>1, <1>3, NearestsAre
  <2> QED
    BY <1>1, <2>1, FS_Subset
<1>5. ASSUME NEW some \in SUBSET ids, Cardinality(some) = k + 1
      PROVE  /\ IsFiniteSet(some \ {own}) /\ Cardinality(some \ {own}) = IF own \in some THEN k ELSE k + 1
             /\ Lesser(k, Cardinality(some \ {own})) = k
  <2>1. IsFiniteSet(some)
    BY <1>1, FS_Subset
  <2>2. IsFiniteSet(some \ {own}) /\ Cardinality(some \ {own}) = IF own \in some THEN Cardinality(some) - 1 ELSE Cardinality(some)
    BY <2>1, FS_RemoveElement
  <2> QED
    BY <1>1, <1>5, <2>2 DEF Lesser
<1>6. ASSUME NEW some \in Nearests(g, ids, k + 1), NEW T \in Nearests(g, some \ {own}, k)
      PROVE  T \in Nearests(g, others, k)
  <2>1. /\ some \in SUBSET ids /\ Cardinality(some) = k + 1 /\ IsFiniteSet(some)
        /\ \A i \in some : \A j \in ids \ some : g[i] <= g[j]
    BY <1>4
  <2>2. /\ IsFiniteSet(some \ {own}) /\ Cardinality(some \ {own}) = IF own \in some THEN k ELSE k + 1
        /\ Lesser(k, Cardinality(some \ {own})) = k
    BY <1>5, <2>1
  <2>3. /\ T \subseteq some \ {own} /\ Cardinality(T) = k
        /\ \A i \in T : \A j \in (some \ {own}) \ T : g[i] <= g[j]
    BY <1>1, <2>2, NearestsAre
  <2>4. T \subseteq others
    BY <1>1, <2>1, <2>3
  <2>5. \A i \in T : \A j \in others \ T : g[i] <= g[j]
    <3> SUFFICES ASSUME NEW i \in T, NEW j \in others \ T PROVE g[i] <= g[j]
      OBVIOUS
    <3>1. CASE j \in some
      BY <1>1, <2>3, <3>1
    <3>2. CASE j \notin some
      BY <1>1, <2>1, <2>3, <3>2
    <3> QED
      BY <3>1, <3>2
  <2> QED
    BY <1>1, <1>3, <2>3, <2>4, <2>5, NearestsAre
<1>7. ASSUME NEW T \in Nearests(g, others, k)
      PROVE  \E some \in Nearests(g, ids, k + 1) : T \in Nearests(g, some \ {own}, k)
  <2>1. T \subseteq others /\ Cardinality(T) = k /\ \A i \in T : \A j \in others \ T : g[i] <= g[j]
    BY <1>1, <1>3, NearestsAre
  <2> DEFINE some == T \cup {own}
  <2>2. some \in SUBSET ids /\ some \ {own} = T /\ own \in some
    BY <1>1, <2>1
  <2>3. Cardinality(some) = k + 1
    <3>1. IsFiniteSet(T)
      BY <1>1, <2>1, FS_Subset
    <3>2. own \notin T
      BY <1>1, <2>1
    <3> QED
      BY <2>1, <3>1, <3>2, FS_AddElement
  <2>4. \A i \in some : \A j \in ids \ some : g[i] <= g[j]
    <3> SUFFICES ASSUME NEW i \in some, NEW j \in ids \ some PROVE g[i] <= g[j]
      OBVIOUS
    <3>1. CASE i = own
      BY <1>1, <3>1
    <3>2. CASE i # own
      BY <1>1, <2>1, <3>2
    <3> QED
      BY <3>1, <3>2
  <2> HIDE DEF some
  <2>5. some \in Nearests(g, ids, k + 1)
    BY <1>1, <1>3, <2>2, <2>3, <2>4, NearestsAre
  <2>6. /\ IsFiniteSet(some \ {own}) /\ Lesser(k, Cardinality(some \ {own})) = k
    BY <1>5, <2>2, <2>3
  <2>7. T \subseteq some \ {own} /\ \A i \in T : \A j \in (some \ {own}) \ T : g[i] <= g[j]
    BY <2>2
  <2>8. T \in Nearests(g, some \ {own}, k)
    BY <1>1, <2>1, <2>6, <2>7, NearestsAre
  <2> QED
    BY <2>5, <2>8
<1>8. UNION {Nearests(g, some \ {own}, k) : some \in Nearests(g, ids, k + 1)} = Nearests(g, others, k)
  BY <1>6, <1>7
<1> QED
  BY <1>2, <1>8 DEF g, others, k

\* exact_knn's row without the querying point: k distinct others, nearest first.
LEMMA WantFacts ==
    ASSUME NEW check, ScoreOK(check)
    PROVE  /\ DOMAIN Want(check) = 1..check.k
           /\ \A r \in 1..check.k : Want(check)[r] \in Others(check)
           /\ \A q, r \in 1..check.k : Want(check)[q] = Want(check)[r] => q = r
           /\ ToSet(Want(check)) \in Nearests(check.gap, Others(check), check.k)
<1> DEFINE others == Others(check)
           g == check.gap
           k == check.k
           nth(n) == CHOOSE i \in others : Cardinality(Passed(g, others, i)) = n - 1
           s == [n \in 1..Cardinality(others) |-> nth(n)]
           w == [n \in 1..k |-> nth(n)]
<1>1. /\ k \in Nat /\ IsFiniteSet(others) /\ Cardinality(others) \in Nat /\ k <= Cardinality(others)
      /\ Rankable(g, others)
  <2>1. CheckOK(check) /\ check.k < check.n
    BY DEF ScoreOK
  <2>2. k \in Nat /\ check.n \in Nat /\ \A i \in others : i \in Int /\ g[i] \in Int
    BY <2>1 DEF CheckOK, Others, PointIds
  <2>3. IsFiniteSet(others) /\ Cardinality(others) = check.n - 1
    BY <2>1, PointsFinite
  <2> HIDE DEF others, g
  <2> QED
    BY <2>1, <2>2, <2>3 DEF Rankable
<1>2. Want(check) = w
  BY DEF Want, Before, Closer, Passed
<1> HIDE DEF others, g, k
<1>3. \A n \in 1..Cardinality(others) :
         (\E i \in others : Cardinality(Passed(g, others, i)) = n - 1)
            => nth(n) \in others /\ Cardinality(Passed(g, others, nth(n))) = n - 1
  OBVIOUS
<1> HIDE DEF nth
<1>4. ListsByRank(s, g, others) /\ DOMAIN s = 1..Cardinality(others)
  BY <1>3 DEF ListsByRank
<1>5. /\ \A n \in 1..k : w[n] = s[n]
      /\ DOMAIN w = 1..k
  BY <1>1
<1> HIDE DEF s, w
<1>6. /\ \A n \in 1..k : s[n] \in others
      /\ \A m, n \in 1..k : s[m] = s[n] => m = n
      /\ Firsts(s, k) \in Nearests(g, others, k)
  BY ONLY <1>1, <1>4, FirstAreNearest
<1>7. ToSet(w) = Firsts(s, k)
  BY <1>5 DEF ToSet, Firsts
<1> QED
  BY <1>2, <1>5, <1>6, <1>7 DEF others, g, k

\* Whichever script scores an answer, and however it excludes the query and breaks
\* ties, its truth is one of the sets of k nearest others; the scores agree where
\* there is one, for any points, distances, answers and blocks: see RecallCountsHits.
THEOREM RecallsAreSound == \A check : ScoreOK(check) => RecallCountsHits(check)
<1> SUFFICES ASSUME NEW check, ScoreOK(check) PROVE RecallCountsHits(check)
  OBVIOUS
<1> DEFINE ids == PointIds(check)
           others == Others(check)
           best == Nearests(check.gap, others, check.k)
           blocked == UNION {BlockedTruths(check, block) : block \in 1..check.n}
           truths == SampleTruths(check) \cup FlatTruths(check) \cup blocked
           got == ToSet(check.got)
           w == Want(check)
           want == ToSet(w)
<1>1. CheckOK(check) /\ check.gap[check.own] = 0 /\ check.radius \in Nat /\ check.n \in Nat
  BY DEF ScoreOK, CheckOK
<1>2. truths = best
  <2>1. SampleTruths(check) = best
    BY SampleAreNearest DEF SampleTruths
  <2>2. FlatTruths(check) = best
    BY FlatAreNearest
  <2>3. ASSUME NEW block \in 1..check.n PROVE BlockedTruths(check, block) = best
    <3>1. block \in Nat /\ block # 0
      BY <1>1
    <3>2. BlockedTruths(check, block) = Nearests(Apart(check), PointIds(check), check.k)
      BY <3>1, BlockedAreNearest
    <3> QED
      BY <3>2, SampleAreNearest
  <2> HIDE DEF best
  <2>4. blocked \subseteq best
    BY <2>3
  <2> HIDE DEF blocked
  <2> QED
    BY <2>1, <2>2, <2>4
<1>3. /\ IsFiniteSet(ids) /\ IsFiniteSet(others) /\ others \subseteq ids
      /\ check.own \in ids /\ check.own \notin others /\ \A i \in ids : i \in Int /\ i >= 0
  <2>1. IsFiniteSet(ids) /\ IsFiniteSet(others)
    BY <1>1, PointsFinite
  <2>2. check.own \in ids
    BY <1>1 DEF CheckOK
  <2> QED
    BY <1>1, <2>1, <2>2 DEF Others, PointIds
<1>4. /\ DOMAIN w = 1..check.k /\ \A r \in 1..check.k : w[r] \in others
      /\ \A q, r \in 1..check.k : w[q] = w[r] => q = r
      /\ want \in best
  <2> HIDE DEF w
  <2> QED
    BY WantFacts DEF w
<1>5. want \subseteq others /\ \A T \in best : T \subseteq others
  BY <1>4 DEF Nearests, kSubset
<1>6. Cardinality(best) = 1 => \A T \in truths : Hits(check, T) = KnnHits(check)
  <2> SUFFICES ASSUME Cardinality(best) = 1, NEW T \in truths PROVE Hits(check, T) = KnnHits(check)
    OBVIOUS
  <2>1. IsFiniteSet(best)
    <3>1. best \in SUBSET (SUBSET others)
      BY <1>5
    <3>2. IsFiniteSet(SUBSET others)
      <4> HIDE DEF others
      <4> QED
        BY <1>3, FS_SUBSET
    <3> HIDE DEF best, others
    <3> QED
      BY <3>1, <3>2, FS_Subset
  <2>2. T \in best
    BY <1>2
  <2> HIDE DEF best, truths, want, got
  <2>3. T = want
    <3>1. \E x : best = {x}
      BY <2>1, FS_Singleton
    <3> QED
      BY <1>4, <2>2, <3>1
  <2>4. {i \in got : i >= 0} \cap T = got \cap want
    <3>1. \A i \in want : i >= 0
      BY <1>3, <1>5
    <3> QED
      BY <2>3, <3>1
  <2> QED
    BY <2>4 DEF Hits, KnnHits, got, want, w
<1>7. Cardinality(RankHits(check)) = KnnHits(check)
  <2> DEFINE R == {r \in 1..check.k : w[r] \in got}
             H == got \cap want
             f == [r \in R |-> w[r]]
  <2>1. RankHits(check) = R /\ KnnHits(check) = Cardinality(H)
    BY DEF RankHits, KnnHits
  <2> HIDE DEF w, got
  <2>2. \A x : x \in want <=> \E r \in 1..check.k : w[r] = x
    BY <1>4 DEF ToSet
  <2> HIDE DEF want
  <2>3. f \in Bijection(R, H)
    BY <1>4, <2>2 DEF Bijection, Injection, Surjection, IsInjective
  <2>4. IsFiniteSet(R)
    <3>1. R \in SUBSET (1..check.k) /\ check.k \in Int
      BY <1>1 DEF CheckOK
    <3>2. IsFiniteSet(1..check.k)
      BY <3>1, FS_Interval
    <3> HIDE DEF R
    <3> QED
      BY <3>1, <3>2, FS_Subset
  <2>5. ExistsBijection(R, H)
    BY <2>3 DEF ExistsBijection
  <2> HIDE DEF R, H
  <2> QED
    BY <2>1, <2>4, <2>5, FS_Bijection
<1>8. ASSUME check.own \in check.near
      PROVE  AutoRadiusScore(check) = [i \in {1, 2} |-> RadiusScore(check)[i] + 1]
  <2> DEFINE inside == InRadius(check)
             own == check.own
             near == check.near
             want1 == inside \ {own}
  <2>1. inside \subseteq ids /\ own \in inside
    BY <1>1, <1>3 DEF InRadius
  <2>2. IsFiniteSet(inside)
    <3> HIDE DEF inside, ids
    <3> QED
      BY <1>3, <2>1, FS_Subset
  <2>3. near \cap inside \in SUBSET inside /\ own \in near \cap inside
    BY <1>8, <2>1
  <2>4. IsFiniteSet(near \cap inside)
    BY <2>2, <2>3, FS_Subset
  <2>5. want1 \cap (near \ {own}) = (near \cap inside) \ {own}
    OBVIOUS
  <2> HIDE DEF inside
  <2>6. /\ Cardinality(near \cap inside) \in Nat /\ Cardinality(inside) \in Nat
        /\ Cardinality((near \cap inside) \ {own}) = Cardinality(near \cap inside) - 1
        /\ Cardinality(want1) = Cardinality(inside) - 1
    BY <2>1, <2>2, <2>3, <2>4, FS_RemoveElement, FS_CardinalityType
  <2>7. RadiusScore(check) = <<Cardinality((near \cap inside) \ {own}), Cardinality(want1)>>
    BY <2>5 DEF RadiusScore, inside
  <2>8. AutoRadiusScore(check) = <<Cardinality(near \cap inside), Cardinality(inside)>>
    BY DEF AutoRadiusScore, inside
  <2> DEFINE u == Cardinality(near \cap inside)
             v == Cardinality(inside)
  <2>9. RadiusScore(check) = <<u - 1, v - 1>> /\ AutoRadiusScore(check) = <<u, v>> /\ u \in Nat /\ v \in Nat
    BY <2>6, <2>7, <2>8
  <2> HIDE DEF u, v
  <2> QED
    BY <2>9
<1> QED
  BY <1>2, <1>4, <1>6, <1>7, <1>8 DEF RecallCountsHits

-----------------------------------------------------------------------------
(***************************************************************************)
(* The order of additions.  The lanes of the kernels are numbered by the   *)
(* axis they are at, NumPy's accumulators by their rounds; both are left   *)
(* at the last multiple of eight.                                          *)
(***************************************************************************)
\* sum[i] is the sum of `first` and the terms up to the i-th, added one by one.
AddsUp(sum, n, first, of) ==
    sum = [i \in 0..n |-> IF i = 0 THEN first ELSE Sum2(sum[i - 1], of[i])]

\* Sums of any number of columns exist, one column after the other.
LEMMA SumExists ==
    ASSUME NEW n \in Nat, NEW first, NEW of
    PROVE  \E sum : AddsUp(sum, n, first, of)
<1> DEFINE UpTo(sum, m) == AddsUp(sum, m, first, of)
           Bad == {m \in 0..n : \A sum : ~UpTo(sum, m)}
<1>1. SUFFICES ASSUME Bad # {} PROVE FALSE
  <2>1. Bad = {} => \E sum : UpTo(sum, n)
    OBVIOUS
  <2> QED
    BY <2>1
<1>2. PICK m \in Bad : \A x \in Bad : m <= x
  <2>1. Bad \in SUBSET Nat
    OBVIOUS
  <2> HIDE DEF Bad
  <2> QED
    BY <1>1, <2>1, LeastNatural
<1>3. m \in 0..n /\ \A sum : ~UpTo(sum, m)
  OBVIOUS
<1>4. m # 0
  <2> DEFINE sum == [i \in 0..0 |-> first]
  <2>1. UpTo(sum, 0)
    BY DEF AddsUp
  <2> QED
    BY <1>3, <2>1
<1>5. m - 1 \in 0..n /\ m - 1 \notin Bad /\ m \in 1..n
  <2>1. m - 1 \in 0..n /\ m \in 1..n /\ ~(m <= m - 1)
    BY <1>3, <1>4
  <2> HIDE DEF Bad
  <2> QED
    BY <1>2, <2>1
<1>6. PICK sum : UpTo(sum, m - 1)
  BY <1>5
<1> DEFINE longer == [i \in 0..m |-> IF i = m THEN Sum2(sum[m - 1], of[m]) ELSE sum[i]]
<1>7. \A i \in 0..m : longer[i] = IF i = 0 THEN first ELSE Sum2(longer[i - 1], of[i])
  <2> SUFFICES ASSUME NEW i \in 0..m
               PROVE  longer[i] = IF i = 0 THEN first ELSE Sum2(longer[i - 1], of[i])
    OBVIOUS
  <2>1. CASE i = m
    <3>1. longer[i] = Sum2(sum[m - 1], of[m]) /\ longer[i - 1] = sum[m - 1]
      BY <1>5, <2>1
    <3> QED
      BY <1>4, <2>1, <3>1
  <2>2. CASE i # m
    <3>1. i \in 0..(m - 1) /\ longer[i] = sum[i] /\ (i # 0 => longer[i - 1] = sum[i - 1])
      BY <1>5, <2>2
    <3>2. sum[i] = IF i = 0 THEN first ELSE Sum2(sum[i - 1], of[i])
      BY <1>6, <3>1 DEF AddsUp
    <3> QED
      BY <3>1, <3>2
  <2> QED
    BY <2>1, <2>2
<1>8. UpTo(longer, m)
  <2>1. longer = [i \in 0..m |-> longer[i]]
    OBVIOUS
  <2> HIDE DEF longer
  <2> QED
    BY <1>7, <2>1 DEF AddsUp
<1> QED
  BY <1>3, <1>8

\* A lane of the kernels and the accumulator of NumPy make the same additions.
LEMMA LaneSame ==
    ASSUME NEW column, NEW l, NEW end \in Nat, end % 8 = 0, end >= 8
    PROVE  Lane(column, l, end) = NumpyLane(column, l, end \div 8 - 1)
<1> DEFINE rounds == end \div 8 - 1
           Stops == {i \in 8..end : i % 8 = 0}
           IsNumpy(sum) == sum = [i \in 0..rounds |-> IF i = 0 THEN column[l]
                                                     ELSE Sum2(sum[i - 1], column[8 * i + l])]
           IsLane(sum) == sum = [j \in Stops |-> IF j = 8 THEN column[l]
                                                 ELSE Sum2(sum[j - 8], column[j - 8 + l])]
           numpy == CHOOSE sum : IsNumpy(sum)
           lane == CHOOSE sum : IsLane(sum)
<1>1. rounds \in Nat /\ 8 * (rounds + 1) = end
  OBVIOUS
<1>2. /\ \A j \in Stops : j \in Nat /\ j \div 8 - 1 \in 0..rounds /\ j = 8 * (j \div 8 - 1 + 1)
      /\ \A i \in 0..rounds : 8 * (i + 1) \in Stops /\ (8 * (i + 1)) \div 8 = i + 1
  <2> HIDE DEF rounds
  <2>1. ASSUME NEW j \in Stops
        PROVE  j \in Nat /\ j \div 8 - 1 \in 0..rounds /\ j = 8 * (j \div 8 - 1 + 1)
    BY <1>1
  <2>2. ASSUME NEW i \in 0..rounds
        PROVE  8 * (i + 1) \in Stops /\ (8 * (i + 1)) \div 8 = i + 1
    <3>1. i \in Nat /\ i <= rounds
      BY <1>1
    <3>2. 8 * (i + 1) \in 8..end
      BY <1>1, <3>1
    <3>3. (8 * (i + 1)) % 8 = 0 /\ (8 * (i + 1)) \div 8 = i + 1
      BY <3>1
    <3> QED
      BY <3>2, <3>3
  <2> QED
    BY <2>1, <2>2
<1> HIDE DEF rounds, Stops
<1>3. PICK sum : IsNumpy(sum)
  <2> DEFINE of == [i \in 0..rounds |-> column[8 * i + l]]
  <2>1. \A i \in 0..rounds : of[i] = column[8 * i + l]
    OBVIOUS
  <2> HIDE DEF of
  <2>2. PICK sum : AddsUp(sum, rounds, column[l], of)
    BY <1>1, SumExists
  <2>3. IsNumpy(sum)
    BY <2>1, <2>2 DEF AddsUp
  <2> QED
    BY <2>3
<1>4. IsNumpy(numpy)
  BY <1>3
<1>5. IsLane(lane)
  <2> DEFINE other == [j \in Stops |-> sum[j \div 8 - 1]]
  <2>1. \A j \in Stops : other[j] = IF j = 8 THEN column[l] ELSE Sum2(other[j - 8], column[j - 8 + l])
    <3> SUFFICES ASSUME NEW j \in Stops
                 PROVE  other[j] = IF j = 8 THEN column[l] ELSE Sum2(other[j - 8], column[j - 8 + l])
      OBVIOUS
    <3> DEFINE i == j \div 8 - 1
    <3>1. i \in 0..rounds /\ j = 8 * (i + 1) /\ other[j] = sum[i]
      BY <1>2
    <3> HIDE DEF i
    <3>2. sum[i] = IF i = 0 THEN column[l] ELSE Sum2(sum[i - 1], column[8 * i + l])
      BY <1>3, <3>1
    <3>3. ASSUME i # 0 PROVE other[j - 8] = sum[i - 1] /\ j - 8 = 8 * i
      <4>1. i - 1 \in 0..rounds /\ j - 8 = 8 * ((i - 1) + 1) /\ j - 8 = 8 * i
        BY <1>1, <3>1, <3>3
      <4>2. j - 8 \in Stops /\ (j - 8) \div 8 = i - 1 + 1
        BY <1>2, <4>1
      <4>3. other[j - 8] = sum[(i - 1 + 1) - 1]
        BY <4>2
      <4> QED
        BY <4>1, <4>3
    <3>4. i = 0 <=> j = 8
      BY <1>1, <3>1
    <3> HIDE DEF other
    <3> QED
      BY <3>1, <3>2, <3>3, <3>4
  <2>2. other = [j \in Stops |-> other[j]]
    OBVIOUS
  <2> HIDE DEF other
  <2>3. IsLane(other)
    BY <2>1, <2>2
  <2> QED
    BY <2>3
<1> HIDE DEF numpy, lane
<1>6. \A i \in 0..rounds : numpy[i] = IF i = 0 THEN column[l] ELSE Sum2(numpy[i - 1], column[8 * i + l])
  BY <1>4
<1>7. \A j \in Stops : lane[j] = IF j = 8 THEN column[l] ELSE Sum2(lane[j - 8], column[j - 8 + l])
  BY <1>5
<1> DEFINE Bad == {i \in 0..rounds : numpy[i] # lane[8 * (i + 1)]}
<1>8. Bad = {}
  <2> SUFFICES ASSUME Bad # {} PROVE FALSE
    OBVIOUS
  <2>1. PICK m \in Bad : \A x \in Bad : m <= x
    <3>1. Bad \in SUBSET Nat
      OBVIOUS
    <3> HIDE DEF Bad
    <3> QED
      BY <3>1, LeastNatural
  <2>2. m \in 0..rounds /\ numpy[m] # lane[8 * (m + 1)]
    OBVIOUS
  <2>3. 8 * (m + 1) \in Stops /\ m \in Nat /\ (8 * (m + 1) = 8 <=> m = 0)
        /\ 8 * (m + 1) - 8 = 8 * m
    BY <1>1, <1>2, <2>2
  <2>4. m # 0
    BY <1>6, <1>7, <2>2, <2>3
  <2>5. m - 1 \in 0..rounds /\ m - 1 \notin Bad
    <3>1. m - 1 \in 0..rounds /\ ~(m <= m - 1)
      BY <1>1, <2>2, <2>3, <2>4
    <3> HIDE DEF Bad
    <3> QED
      BY <2>1, <3>1
  <2>6. numpy[m - 1] = lane[8 * m]
    <3>1. (m - 1) + 1 = m
      BY <2>3
    <3> QED
      BY <2>5, <3>1
  <2>7. lane[8 * (m + 1)] = Sum2(lane[8 * m], column[8 * m + l])
    BY <1>7, <2>3, <2>4
  <2>8. numpy[m] = Sum2(numpy[m - 1], column[8 * m + l])
    BY <1>6, <2>2, <2>4
  <2> QED
    BY <2>2, <2>6, <2>7, <2>8
<1>9. numpy[rounds] = lane[end]
  BY <1>1, <1>8
<1> QED
  BY <1>9 DEF Lane, NumpyLane, numpy, lane, rounds, Stops

\* The loop over full rounds is left where NumPy's is.
LEMMA LoopEnds ==
    ASSUME NEW d \in Nat, d >= 8
    PROVE  /\ LoopEnd(d) = d - (d % 8)
           /\ LoopEnd(d) \in Nat /\ LoopEnd(d) % 8 = 0 /\ LoopEnd(d) >= 8
<1> DEFINE end == d - (d % 8)
           Ends == {j \in 8..d : j % 8 = 0 /\ j + 8 > d}
<1>1. end \in Nat /\ end % 8 = 0 /\ end >= 8
  OBVIOUS
<1>2. end \in Ends /\ \A j \in Ends : end <= j
  OBVIOUS
<1>3. \A j \in Ends : j \in Int
  OBVIOUS
<1> HIDE DEF end, Ends
<1>4. LoopEnd(d) = CHOOSE x \in Ends : \A y \in Ends : x <= y
  BY DEF LoopEnd, Ends, Min
<1>5. LoopEnd(d) \in Ends /\ \A y \in Ends : LoopEnd(d) <= y
  BY <1>2, <1>4
<1>6. LoopEnd(d) \in Int /\ LoopEnd(d) <= end /\ end <= LoopEnd(d)
  BY <1>2, <1>3, <1>5
<1>7. LoopEnd(d) = end
  BY <1>1, <1>6
<1> QED
  BY <1>1, <1>7 DEF end

\* Column by column, the kernels add up whatever is in the columns as NumPy does.
LEMMA AddedAlike ==
    ASSUME NEW d \in Nat \ {0}, NEW column, d <= PairwiseMax
    PROVE  Accumulated(d, column) = NumpySum(d, column)
<1>1. CASE d < 8
  BY <1>1 DEF Accumulated, NumpySum
<1>2. CASE ~(d < 8)
  <2> DEFINE whole == d - (d % 8)
  <2>1. LoopEnd(d) = whole /\ whole \in Nat /\ whole % 8 = 0 /\ whole >= 8
    BY <1>2, LoopEnds
  <2> HIDE DEF whole
  <2>2. \A l \in LaneIds : Lane(column, l, whole) = NumpyLane(column, l, whole \div 8 - 1)
    BY <2>1, LaneSame
  <2>3. [l \in LaneIds |-> Lane(column, l, whole)]
           = [l \in LaneIds |-> NumpyLane(column, l, whole \div 8 - 1)]
    BY <2>2
  <2>4. Accumulated(d, column)
           = Straight(TreeOf([l \in LaneIds |-> Lane(column, l, whole)]), column, whole, d - 1)
    BY <1>2, <2>1 DEF Accumulated
  <2>5. ~(d > PairwiseMax)
    BY LaneAssumption
  <2>6. NumpySum(d, column)
           = Straight(TreeOf([l \in LaneIds |-> NumpyLane(column, l, whole \div 8 - 1)]),
                      column, whole, d - 1)
    BY <1>2, <2>5 DEF NumpySum, whole
  <2> QED
    BY <2>3, <2>4, <2>6
<1> QED
  BY <1>1, <1>2

\* The metrics add up in NumPy's order at every number of axes up to its block.
THEOREM SumsAreInOrder == \A d \in Nat \ {0} : \A p : SumsInNumpyOrder(d, p)
<1> SUFFICES ASSUME NEW d \in Nat \ {0}, NEW p, d <= PairwiseMax
             PROVE  PairwiseLp(d, p) = NumpySum(d, IF p = "1" THEN GapColumns(d) ELSE RootColumns(d, p))
  BY DEF SumsInNumpyOrder
<1>1. ~(d > PairwiseMax)
  BY LaneAssumption
<1> QED
  BY <1>1, AddedAlike DEF PairwiseLp, PairwiseL1

-----------------------------------------------------------------------------
(***************************************************************************)
(* The runs' properties: the tasks MCAlgorithms sets are inputs the        *)
(* theorems above hold for.                                                *)
(***************************************************************************)
TaskOK ==
    /\ {"kind", "solved"} \subseteq DOMAIN task
    /\ task.kind = "rows" => "job" \in DOMAIN task /\ RowJobOK(task.job)
    /\ task.kind = "separation" =>
          /\ {"points", "anchors"} \subseteq DOMAIN task
          /\ task.points \in Seq(Positions) /\ task.anchors \in Seq(Positions)
    /\ task.kind = "plan" => "job" \in DOMAIN task /\ JobOK(task.job)
    /\ task.kind = "route" =>
          /\ {"machine", "nn", "n", "wins"} \subseteq DOMAIN task
          /\ ObjectOK(task.machine, task.nn) /\ task.n \in Nat /\ task.n >= 1
    /\ task.kind = "ablation" =>
          /\ {"check", "arm"} \subseteq DOMAIN task
          /\ CheckOK(task.check) /\ ArmOK(task.check, task.arm)
    /\ task.kind = "recall" => "check" \in DOMAIN task /\ ScoreOK(task.check)
    /\ task.kind = "lanes" => {"d", "p"} \subseteq DOMAIN task /\ task.d \in Nat \ {0}

\* The keys a query looks up: its own, then those a step away.
LEMMA LookedUpKeys ==
    ASSUME NEW x \in Positions, NEW t \in Tables, NEW steps \in SUBSET Digits
    PROVE  <<Key(x, t)>> \o Ascending({ProbeKey(x, t, j) : j \in steps}) \in Seq(Int)
<1> DEFINE keys == {ProbeKey(x, t, j) : j \in steps}
           one == <<Key(x, t)>>
           others == Ascending(keys)
<1>1. Key(x, t) \in Int /\ \A j \in Digits : ProbeKey(x, t, j) \in Int
  BY KeyType
<1>2. one \in Seq(Int)
  BY <1>1
<1>3. IsFiniteSet(keys) /\ \A y \in keys : y \in Int
  <2>1. \A y \in keys : y \in Int
    BY <1>1
  <2>2. IsFiniteSet(steps)
    <3>1. IsFiniteSet(Digits)
      BY HashTypes, FS_Interval DEF Digits
    <3> QED
      BY ONLY <3>1, FS_Subset, steps \in SUBSET Digits
  <2> DEFINE f == [j \in steps |-> ProbeKey(x, t, j)]
  <2>3. f \in Surjection(steps, keys)
    BY DEF Surjection
  <2> HIDE DEF f, keys
  <2>4. IsFiniteSet(keys)
    BY ONLY <2>2, <2>3, FS_Surjection
  <2> QED
    BY ONLY <2>1, <2>4
<1> HIDE DEF keys, one
<1>4. others \in Seq(Int)
  <2> DEFINE size == Cardinality(keys)
  <2>1. size \in Nat /\ Lists(others, keys, size) /\ DOMAIN others = 1..size
    BY ONLY <1>3, AscendingFacts DEF Ascending
  <2> HIDE DEF others, size
  <2>2. others \in [1..size -> keys]
    BY ONLY <2>1 DEF Lists
  <2> QED
    BY ONLY <1>3, <2>1, <2>2
<1> HIDE DEF others
<1>5. one \o others \in Seq(Int)
  BY ONLY <1>2, <1>4, ConcatProperties
<1> QED
  BY ONLY <1>5 DEF one, others, keys

\* A call of the runs against an index of theirs.
LEMMA RowJobTypes ==
    ASSUME NEW n \in Nat \ {0}, NEW cloud \in [1..n -> Positions],
           NEW m \in Nat, NEW batch \in [1..m -> Positions],
           NEW steps \in [1..m -> [Tables -> SUBSET Digits]],
           NEW static \in 0..n, NEW k \in Nat \ {0}, NEW radius \in Int, NEW block \in Nat \ {0},
           NEW excludes, excludes = <<>> \/ excludes \in [1..m -> Int]
    PROVE  RowJobOK(RowJob(cloud, static, batch, steps, k, radius, excludes, block))
<1> DEFINE keys == [t \in Tables |-> [i \in 1..n |-> Key(cloud[i], t)]]
           own == [q \in 1..m |-> [t \in Tables |-> Key(batch[q], t)]]
           seen(q, t) == <<Key(batch[q], t)>> \o Ascending({ProbeKey(batch[q], t, j) : j \in steps[q][t]})
           probed == [q \in 1..m |-> [t \in Tables |-> seen(q, t)]]
           gap == [q \in 1..m |-> [i \in 1..n |-> Dist(batch[q], cloud[i])]]
           job == RowJob(cloud, static, batch, steps, k, radius, excludes, block)
<1>1. Len(cloud) = n /\ DOMAIN cloud = 1..n /\ DOMAIN batch = 1..m
  OBVIOUS
<1>2. job = [n |-> n, static |-> static, keys |-> keys, own |-> own, probed |-> probed, gap |-> gap,
             k |-> k, radius |-> radius, excludes |-> excludes, block |-> block]
  BY ONLY <1>1 DEF RowJob
<1>3. \A i \in 1..n : cloud[i] \in Positions
  OBVIOUS
<1>4. \A q \in 1..m : batch[q] \in Positions
  OBVIOUS
<1>5. keys \in [Tables -> [1..n -> Int]]
  <2>1. \A t \in Tables, i \in 1..n : Key(cloud[i], t) \in Int
    BY ONLY <1>3, KeyType
  <2> QED
    BY ONLY <2>1
<1>6. own \in [1..m -> [Tables -> Int]]
  <2>1. \A q \in 1..m, t \in Tables : Key(batch[q], t) \in Int
    BY ONLY <1>4, KeyType
  <2> QED
    BY ONLY <2>1
<1>7. probed \in [1..m -> [Tables -> Seq(Int)]]
  <2>1. \A q \in 1..m, t \in Tables : seen(q, t) \in Seq(Int)
    <3> SUFFICES ASSUME NEW q \in 1..m, NEW t \in Tables PROVE seen(q, t) \in Seq(Int)
      OBVIOUS
    <3>1. batch[q] \in Positions /\ steps[q][t] \in SUBSET Digits
      BY <1>4
    <3> QED
      BY ONLY <3>1, t \in Tables, LookedUpKeys
  <2> HIDE DEF seen
  <2> QED
    BY ONLY <2>1
<1>8. gap \in [1..m -> [1..n -> Int]]
  <2>1. \A q \in 1..m, i \in 1..n : Dist(batch[q], cloud[i]) \in Int
    BY <1>3, <1>4, DistType
  <2> QED
    BY ONLY <2>1
<1> HIDE DEF keys, own, probed, gap, job
<1>9. own \in Seq([Tables -> Int]) /\ DOMAIN own = 1..m
  BY ONLY <1>6, m \in Nat
<1>10. RowJobOK(job)
  BY <1>2, <1>5, <1>7, <1>8, <1>9 DEF RowJobOK
<1> QED
  BY <1>10 DEF job

\* The calls of the runs.
LEMMA RowTaskOK == RowTask => TaskOK
<1> SUFFICES ASSUME RowTask PROVE TaskOK
  OBVIOUS
<1>1. PICK x \in 0..(Grid - 1), static \in {1, 4}, q \in {0, Grid \div 2}, block \in 1..2 :
        \E y \in x..(Grid - 1), k \in 1..2, excludes \in {<<>>, <<0, 1>>, <<-1, 2>>},
           steps \in [1..2 -> [Tables -> SUBSET Digits]] :
             /\ \A t \in Tables : /\ steps[1][t] \in ProbeDigits(On(q), t)
                                  /\ steps[2][t] \in ProbeDigits(On(Grid - 1), t)
             /\ task = [kind |-> "rows", solved |-> FALSE,
                        job |-> RowJob(<<On(0), On(x), On(y), On(y)>>, static, <<On(q), On(Grid - 1)>>,
                                       steps, k, k - 1, excludes, block)]
  BY DEF RowTask
<1>2. PICK y \in x..(Grid - 1), k \in 1..2, excludes \in {<<>>, <<0, 1>>, <<-1, 2>>},
           steps \in [1..2 -> [Tables -> SUBSET Digits]] :
             /\ \A t \in Tables : /\ steps[1][t] \in ProbeDigits(On(q), t)
                                  /\ steps[2][t] \in ProbeDigits(On(Grid - 1), t)
             /\ task = [kind |-> "rows", solved |-> FALSE,
                        job |-> RowJob(<<On(0), On(x), On(y), On(y)>>, static, <<On(q), On(Grid - 1)>>,
                                       steps, k, k - 1, excludes, block)]
  BY <1>1
<1> DEFINE cloud == <<On(0), On(x), On(y), On(y)>>
           batch == <<On(q), On(Grid - 1)>>
           radius == k - 1
           job == RowJob(cloud, static, batch, steps, k, radius, excludes, block)
<1>3. Grid \in Nat /\ Grid >= 1
  BY HashTypes
<1>4. \A v \in 0..(Grid - 1) : On(v) \in Positions
  BY DEF On, Positions
<1>5. cloud \in [1..4 -> Positions]
  <2>1. On(0) \in Positions /\ On(x) \in Positions /\ On(y) \in Positions
    <3>1. 0 \in 0..(Grid - 1) /\ y \in 0..(Grid - 1)
      BY ONLY <1>3, x \in 0..(Grid - 1), y \in x..(Grid - 1)
    <3> QED
      BY ONLY <1>4, <3>1, x \in 0..(Grid - 1)
  <2> QED
    BY ONLY <2>1
<1>6. batch \in [1..2 -> Positions]
  <2>1. On(q) \in Positions /\ On(Grid - 1) \in Positions
    <3>1. Grid - 1 \in 0..(Grid - 1) /\ 0 \in 0..(Grid - 1) /\ Grid \div 2 \in 0..(Grid - 1)
      BY ONLY <1>3
    <3>2. q = 0 \/ q = Grid \div 2
      OBVIOUS
    <3> QED
      BY ONLY <1>4, <3>1, <3>2
  <2> QED
    BY ONLY <2>1
<1>7. /\ static \in 0..4 /\ k \in Nat \ {0} /\ radius \in Int /\ block \in Nat \ {0}
      /\ 4 \in Nat \ {0} /\ 2 \in Nat
  OBVIOUS
<1>8. excludes = <<>> \/ excludes \in [1..2 -> Int]
  OBVIOUS
<1> HIDE DEF cloud, batch, radius
<1>9. RowJobOK(job)
  <2>1. steps \in [1..2 -> [Tables -> SUBSET Digits]]
    OBVIOUS
  <2> QED
    BY ONLY <1>5, <1>6, <1>7, <1>8, <2>1, RowJobTypes
<1>10. task = [kind |-> "rows", solved |-> FALSE, job |-> job]
  BY <1>2 DEF cloud, batch, radius
<1> HIDE DEF job
<1> QED
  BY <1>9, <1>10 DEF TaskOK

\* A design of the runs is a sequence of places.
LEMMA DesignTypes ==
    ASSUME NEW n \in Nat, NEW f \in [1..n -> 0..(Grid - 1)]
    PROVE  [i \in DOMAIN f |-> On(f[i])] \in Seq(Positions)
<1>1. \A i \in 1..n : On(f[i]) \in Positions
  BY DEF On, Positions
<1>2. [i \in DOMAIN f |-> On(f[i])] \in [1..n -> Positions]
  BY <1>1
<1> DEFINE s == [i \in DOMAIN f |-> On(f[i])]
<1> HIDE DEF s
<1>3. s \in [1..n -> Positions]
  BY <1>2 DEF s
<1>4. s \in Seq(Positions)
  BY <1>3, SeqDef
<1> QED
  BY <1>4 DEF s

\* The designs of the runs.
LEMMA SeparationTaskOK == SeparationTask => TaskOK
<1> SUFFICES ASSUME SeparationTask PROVE TaskOK
  OBVIOUS
<1>1. PICK points \in UNION {[1..n -> 0..(Grid - 1)] : n \in 0..3},
           anchors \in UNION {[1..n -> 0..(Grid - 1)] : n \in 0..2} :
        task = [kind |-> "separation", solved |-> FALSE,
                points |-> [i \in DOMAIN points |-> On(points[i])],
                anchors |-> [i \in DOMAIN anchors |-> On(anchors[i])]]
  BY DEF SeparationTask
<1>2. (\E n \in Nat : points \in [1..n -> 0..(Grid - 1)]) /\ (\E n \in Nat : anchors \in [1..n -> 0..(Grid - 1)])
  <2>1. PICK n \in 0..3 : points \in [1..n -> 0..(Grid - 1)]
    BY <1>1
  <2>2. PICK l \in 0..2 : anchors \in [1..l -> 0..(Grid - 1)]
    BY <1>1
  <2>3. n \in Nat /\ l \in Nat
    OBVIOUS
  <2> QED
    BY <2>1, <2>2, <2>3
<1>3. [i \in DOMAIN points |-> On(points[i])] \in Seq(Positions)
  BY <1>2, DesignTypes
<1>4. [i \in DOMAIN anchors |-> On(anchors[i])] \in Seq(Positions)
  BY <1>2, DesignTypes
<1> DEFINE P == [i \in DOMAIN points |-> On(points[i])]
           A == [i \in DOMAIN anchors |-> On(anchors[i])]
<1>5. task = [kind |-> "separation", solved |-> FALSE, points |-> P, anchors |-> A]
  BY <1>1
<1>6. P \in Seq(Positions) /\ A \in Seq(Positions)
  BY <1>3, <1>4
<1> HIDE DEF P, A
<1> QED
  BY <1>5, <1>6 DEF TaskOK

\* The jobs of the runs.
LEMMA PlanTaskOK == PlanTask => TaskOK
<1> SUFFICES ASSUME PlanTask PROVE TaskOK
  OBVIOUS
<1>a. PICK shallow, deep \in HitsOfDepth :
        \E goal \in {32, 52, 60}, depth \in 1..2, pinned, any \in BOOLEAN : \E probes \in {AutoProbes, 1} :
           /\ \A m \in 0..DeepProbes : deep[m] <= shallow[m]
           /\ task = [kind |-> "plan", solved |-> FALSE,
                      job |-> [depth |-> depth, pinned |-> pinned, probes |-> probes,
                               anyRecall |-> any, goal |-> goal,
                               hit |-> IF depth = 1 THEN <<deep>> ELSE <<shallow, deep>>]]
  BY DEF PlanTask
<1>b. PICK goal \in {32, 52, 60}, depth \in 1..2, pinned, any \in BOOLEAN : \E probes \in {AutoProbes, 1} :
           /\ \A m \in 0..DeepProbes : deep[m] <= shallow[m]
           /\ task = [kind |-> "plan", solved |-> FALSE,
                      job |-> [depth |-> depth, pinned |-> pinned, probes |-> probes,
                               anyRecall |-> any, goal |-> goal,
                               hit |-> IF depth = 1 THEN <<deep>> ELSE <<shallow, deep>>]]
  BY <1>a
<1>1. PICK probes \in {AutoProbes, 1} :
           /\ \A m \in 0..DeepProbes : deep[m] <= shallow[m]
           /\ task = [kind |-> "plan", solved |-> FALSE,
                      job |-> [depth |-> depth, pinned |-> pinned, probes |-> probes,
                               anyRecall |-> any, goal |-> goal,
                               hit |-> IF depth = 1 THEN <<deep>> ELSE <<shallow, deep>>]]
  BY <1>b
<1> DEFINE hit == IF depth = 1 THEN <<deep>> ELSE <<shallow, deep>>
           job == [depth |-> depth, pinned |-> pinned, probes |-> probes,
                   anyRecall |-> any, goal |-> goal, hit |-> hit]
<1>2. shallow \in [0..DeepProbes -> 0..Parts] /\ deep \in [0..DeepProbes -> 0..Parts]
  BY DEF HitsOfDepth
<1>3. \A k \in 1..depth : hit[k] \in [0..DeepProbes -> 0..Parts]
  BY <1>2
<1>4. \A m \in ProbesTried(job) : m \in 0..DeepProbes
  BY PlanTypes DEF ProbesTried
<1>c. job.depth = depth /\ job.hit = hit
  OBVIOUS
<1>5. \A k \in 1..job.depth : \A m \in ProbesTried(job) : job.hit[k][m] \in 0..Parts
  <2> SUFFICES ASSUME NEW k \in 1..depth, NEW m \in ProbesTried(job) PROVE hit[k][m] \in 0..Parts
    BY <1>c
  <2> HIDE DEF job, hit
  <2>1. hit[k] \in [0..DeepProbes -> 0..Parts] /\ m \in 0..DeepProbes
    BY <1>3, <1>4
  <2> QED
    BY <2>1
<1>6. JobOK(job)
  BY <1>5 DEF JobOK
<1>7. task = [kind |-> "plan", solved |-> FALSE, job |-> job]
  BY <1>1
<1> HIDE DEF job
<1> QED
  BY <1>6, <1>7 DEF TaskOK

\* The machines, objects and measurements of the runs.
LEMMA RouteTaskOK == RouteTask => TaskOK
<1> SUFFICES ASSUME RouteTask PROVE TaskOK
  OBVIOUS
<1>1. PICK machine \in Machines, backend \in {"auto", "python", "rust"}, n \in {2, 5, 8} :
        \E knnWins, radiusWins \in SUBSET ToSet(Sizes(n)), lp \in BOOLEAN, both \in {Unset, 0, 4} :
           /\ LshClass(machine, backend) # "ImportError"
           /\ radiusWins \in {knnWins, ToSet(Sizes(n)) \ knnWins}
           /\ task = [kind |-> "route", solved |-> FALSE, machine |-> machine, n |-> n,
                      nn |-> [backend |-> backend, knn |-> Unset, radius |-> Unset,
                              both |-> both, d |-> 16, lp |-> lp],
                      wins |-> [knn |-> knnWins, radius |-> radiusWins]]
  BY DEF RouteTask
<1>2. PICK knnWins, radiusWins \in SUBSET ToSet(Sizes(n)), lp \in BOOLEAN, both \in {Unset, 0, 4} :
           /\ LshClass(machine, backend) # "ImportError"
           /\ radiusWins \in {knnWins, ToSet(Sizes(n)) \ knnWins}
           /\ task = [kind |-> "route", solved |-> FALSE, machine |-> machine, n |-> n,
                      nn |-> [backend |-> backend, knn |-> Unset, radius |-> Unset,
                              both |-> both, d |-> 16, lp |-> lp],
                      wins |-> [knn |-> knnWins, radius |-> radiusWins]]
  BY <1>1
<1> DEFINE wins == [knn |-> knnWins, radius |-> radiusWins]
<1> DEFINE nn == [backend |-> backend, knn |-> Unset, radius |-> Unset, both |-> both, d |-> 16, lp |-> lp]
<1>3. ObjectOK(machine, nn)
  BY Zenon DEF ObjectOK, Machines
<1>4. task = [kind |-> "route", solved |-> FALSE, machine |-> machine, n |-> n, nn |-> nn, wins |-> wins]
  BY <1>2
<1> HIDE DEF nn, wins
<1> QED
  BY <1>3, <1>4 DEF TaskOK

\* The arms and checks of the runs.
LEMMA AblationTaskOK == AblationTask => TaskOK
<1> SUFFICES ASSUME AblationTask PROVE TaskOK
  OBVIOUS
<1>1. PICK arm \in AblationArms, k \in 1..2 : \E gap \in ArmGaps(arm) :
        LET n == IF arm.high <= 4 THEN 5 ELSE 18
        IN  /\ k * arm.high < n
            /\ task = [kind |-> "ablation", solved |-> FALSE, arm |-> arm,
                       check |-> [n |-> n, own |-> 0, gap |-> gap, k |-> k]]
  BY DEF AblationTask
<1> DEFINE n == IF arm.high <= 4 THEN 5 ELSE 18
<1>2. PICK gap \in ArmGaps(arm) :
        /\ k * arm.high < n
        /\ task = [kind |-> "ablation", solved |-> FALSE, arm |-> arm,
                   check |-> [n |-> n, own |-> 0, gap |-> gap, k |-> k]]
  BY <1>1
<1>3. /\ n \in {5, 18}
      /\ arm.high <= 4 => 0..(n - 1) = 0..4
      /\ ~(arm.high <= 4) => 0..(n - 1) = 0..17
  <2>1. CASE arm.high <= 4
    BY <2>1
  <2>2. CASE ~(arm.high <= 4)
    BY <2>2
  <2> QED
    BY <2>1, <2>2
<1>4. gap \in [0..(n - 1) -> Nat]
  <2>1. CASE arm.high <= 4
    BY <1>2, <1>3, <2>1 DEF ArmGaps
  <2>2. CASE ~(arm.high <= 4)
    <3>1. PICK group \in {1, 2, 3, 5} : gap = [i \in 0..17 |-> i \div group]
      BY <1>2, <2>2 DEF ArmGaps
    <3>2. \A i \in 0..17 : i \div 1 \in Nat /\ i \div 2 \in Nat /\ i \div 3 \in Nat /\ i \div 5 \in Nat
      OBVIOUS
    <3> QED
      BY <1>3, <2>2, <3>1, <3>2
  <2> QED
    BY <2>1, <2>2
<1> DEFINE check == [n |-> n, own |-> 0, gap |-> gap, k |-> k]
<1> HIDE DEF n
<1>5. PointIds(check) = 0..(n - 1)
  BY DEF PointIds
<1>6. CheckOK(check) /\ ArmOK(check, arm)
  BY <1>1, <1>2, <1>3, <1>4, <1>5 DEF CheckOK, ArmOK
<1>7. task = [kind |-> "ablation", solved |-> FALSE, arm |-> arm, check |-> check]
  BY <1>2
<1> HIDE DEF check
<1> QED
  BY <1>6, <1>7 DEF TaskOK

\* The checks of the runs.
LEMMA CheckTaskOK == CheckTask => TaskOK
<1> SUFFICES ASSUME CheckTask PROVE TaskOK
  OBVIOUS
<1>1. PICK n \in 3..5, k \in 1..2, radius \in 0..1 : \E own \in {0, 2}, got \in SUBSET (0..(n - 1)) :
        \E gap \in [0..(n - 1) -> 0..2] :
           /\ gap[own] = 0 /\ own \notin got /\ Cardinality(got) <= k
           /\ task = [kind |-> "recall", solved |-> FALSE,
                      check |-> [n |-> n, own |-> own, gap |-> gap, k |-> k, radius |-> radius,
                                 got |-> Ordered(got, <) \o [i \in 1..(k - Cardinality(got)) |-> -1],
                                 near |-> got \cup {own}]]
  BY Zenon DEF CheckTask
<1>2. PICK own \in {0, 2}, got \in SUBSET (0..(n - 1)) :
        \E gap \in [0..(n - 1) -> 0..2] :
           /\ gap[own] = 0 /\ own \notin got /\ Cardinality(got) <= k
           /\ task = [kind |-> "recall", solved |-> FALSE,
                      check |-> [n |-> n, own |-> own, gap |-> gap, k |-> k, radius |-> radius,
                                 got |-> Ordered(got, <) \o [i \in 1..(k - Cardinality(got)) |-> -1],
                                 near |-> got \cup {own}]]
  BY <1>1
<1>3. PICK gap \in [0..(n - 1) -> 0..2] :
           /\ gap[own] = 0 /\ own \notin got /\ Cardinality(got) <= k
           /\ task = [kind |-> "recall", solved |-> FALSE,
                      check |-> [n |-> n, own |-> own, gap |-> gap, k |-> k, radius |-> radius,
                                 got |-> Ordered(got, <) \o [i \in 1..(k - Cardinality(got)) |-> -1],
                                 near |-> got \cup {own}]]
  BY <1>2
<1> DEFINE ids == Ordered(got, <) \o [i \in 1..(k - Cardinality(got)) |-> -1]
           near == got \cup {own}
<1> HIDE DEF ids, near
<1>4. \E x, y : task = [kind |-> "recall", solved |-> FALSE,
                         check |-> [n |-> n, own |-> own, gap |-> gap, k |-> k, radius |-> radius,
                                    got |-> x, near |-> y]]
  BY <1>3
<1>5. PICK x, y : task = [kind |-> "recall", solved |-> FALSE,
                         check |-> [n |-> n, own |-> own, gap |-> gap, k |-> k, radius |-> radius,
                                    got |-> x, near |-> y]]
  BY <1>4
<1> DEFINE check == [n |-> n, own |-> own, gap |-> gap, k |-> k, radius |-> radius, got |-> x, near |-> y]
<1>6. /\ check.n = n /\ check.own = own /\ check.gap = gap /\ check.k = k /\ check.radius = radius
      /\ PointIds(check) = 0..(n - 1)
  BY DEF PointIds
<1>7. task = [kind |-> "recall", solved |-> FALSE, check |-> check]
  BY <1>5
<1> HIDE DEF check
<1>8. gap[own] = 0 /\ own \in 0..(n - 1) /\ k < n /\ n \in Nat /\ k \in Nat /\ k >= 1 /\ radius \in Nat
  <2>1. n \in 3..5 /\ k \in 1..2 /\ radius \in 0..1
    BY <1>1, Zenon
  <2>2. own \in {0, 2}
    BY <1>2, Zenon
  <2>3. gap[own] = 0
    BY <1>3, Zenon
  <2> QED
    BY ONLY <2>1, <2>2, <2>3
<1>9. gap \in [0..(n - 1) -> Nat]
  <2>1. gap \in [0..(n - 1) -> 0..2]
    BY <1>3, Zenon
  <2> QED
    BY ONLY <2>1
<1>10. ScoreOK(check)
  BY <1>6, <1>8, <1>9 DEF ScoreOK, CheckOK
<1> QED
  BY <1>7, <1>10 DEF TaskOK

\* Whatever is set is an input the theorems hold for, before and after it is solved.
LEMMA TasksStayOK == AlgorithmSpec => []TaskOK
<1>1. AlgorithmInit => TaskOK
  <2>1. task = NoTask => TaskOK
    BY DEF NoTask, TaskOK
  <2>2. LaneTask => TaskOK
    <3> SUFFICES ASSUME LaneTask PROVE TaskOK
      OBVIOUS
    <3>1. PICK d \in 1..34, p \in {"1", "3/4", "1/2", "1/4"} :
            task = [kind |-> "lanes", solved |-> FALSE, d |-> d, p |-> p]
      BY DEF LaneTask
    <3> QED
      BY <3>1 DEF TaskOK
  <2>3. HitTask => TaskOK
    BY DEF HitTask, TaskOK
  <2>4. DriverTask => TaskOK
    BY DEF DriverTask, TaskOK
  <2> QED
    BY <2>1, <2>2, <2>3, <2>4, RowTaskOK, SeparationTaskOK, PlanTaskOK, RouteTaskOK, AblationTaskOK,
       CheckTaskOK
    DEF AlgorithmInit
<1>2. TaskOK /\ [AlgorithmNext]_AlgorithmVars => TaskOK'
  <2> SUFFICES ASSUME TaskOK, [AlgorithmNext]_AlgorithmVars PROVE TaskOK'
    OBVIOUS
  <2>1. CASE UNCHANGED task
    BY <2>1 DEF TaskOK
  <2>2. CASE Solve
    <3>1. task' = [task EXCEPT !.solved = TRUE]
      BY <2>2 DEF Solve
    <3>2. /\ DOMAIN task' = DOMAIN task
          /\ \A f \in DOMAIN task : f # "solved" => task'[f] = task[f]
      BY <3>1
    <3> QED
      BY <3>2 DEF TaskOK
  <2> QED
    BY <2>1, <2>2 DEF AlgorithmNext, AlgorithmVars
<1> QED
  BY <1>1, <1>2, PTL DEF AlgorithmSpec

\* A batch gets the rows each query gets alone, whatever the blocks.
THEOREM RowsHold == AlgorithmSpec => []RowsKeepTheirPlace
<1>1. TaskOK => RowsKeepTheirPlace
  BY BatchesKeepRows DEF TaskOK, RowsKeepTheirPlace, Solved
<1> QED
  BY <1>1, TasksStayOK, PTL

\* toroidal_separation is the least distance of the batch to any other point.
THEOREM SeparationsHold == AlgorithmSpec => []SeparationIsMaximin
<1>1. TaskOK => SeparationIsMaximin
  BY SeparationExact DEF TaskOK, SeparationIsMaximin, Solved
<1> QED
  BY <1>1, TasksStayOK, PTL

\* _plan_tables returns a plan worth its tables.
THEOREM PlansHold == AlgorithmSpec => []PlansMeetGoals
<1>1. TaskOK => PlansMeetGoals
  BY PlansAreSound DEF TaskOK, PlansMeetGoals, Solved
<1> QED
  BY <1>1, TasksStayOK, PTL

\* What tune_thresholds measured is what serves.
THEOREM RoutesHold == AlgorithmSpec => []ThresholdsRoute
<1>1. TaskOK => ThresholdsRoute
  BY RoutesAsMeasured DEF TaskOK, ThresholdsRoute, Solved
<1> QED
  BY <1>1, TasksStayOK, PTL

\* The ablation's arms corrupt an answer as their names say.
THEOREM ArmsHold == AlgorithmSpec => []ArmsCorruptAsNamed
<1>1. TaskOK => ArmsCorruptAsNamed
  BY ArmsAreSound DEF TaskOK, ArmsCorruptAsNamed, Solved
<1> QED
  BY <1>1, TasksStayOK, PTL

\* Every script's recall is counted against one of the sets of nearest others.
THEOREM RecallsHold == AlgorithmSpec => []RecallsAgree
<1>1. TaskOK => RecallsAgree
  BY RecallsAreSound DEF TaskOK, RecallsAgree, Solved
<1> QED
  BY <1>1, TasksStayOK, PTL

\* The metrics add the columns up in NumPy's order.
THEOREM LanesHold == AlgorithmSpec => []LanesAddInOrder
<1>1. TaskOK => LanesAddInOrder
  BY SumsAreInOrder DEF TaskOK, LanesAddInOrder, Solved
<1> QED
  BY <1>1, TasksStayOK, PTL

-----------------------------------------------------------------------------
(***************************************************************************)
(* The candidate heap and the exact scans.  For any capacity, any          *)
(* candidates and distances, and any order and any number of offers of     *)
(* each: the bounded heap holds the nearest of what it was offered, and is *)
(* an implementation of TopK.  For any row of distances, any k and any     *)
(* cutoff: the scan that masks the excluded id, partitions and repairs its *)
(* ties returns the row of the one that skips it and keeps the heap.       *)
(***************************************************************************)
\* The candidate heap: types.
HeapTypeOK ==
    /\ dist \in [Candidates -> 0..MaxDist]
    /\ h \in Seq(HeapEntry)
    /\ Len(h) <= Capacity
    /\ sift \in {"idle", "up", "down", "emitted"}
    /\ sift \in {"up", "down"} => at \in DOMAIN h
    /\ offered \in SUBSET Candidates
    /\ IsFiniteSet(offered)

\* The ids that count.
Wanted == offered \ {Excluded}

\* Every slot is the entry of a wanted id, and no two of the same.
Genuine ==
    /\ \A i \in DOMAIN h : h[i] = EntryOf(h[i].id) /\ h[i].id \in Wanted
    /\ \A i, j \in DOMAIN h : h[i].id = h[j].id => i = j

\* A wanted id that is not held is farther than everything that is, and only a
\* full heap has turned one away.
TurnedAway == \A id \in Wanted \ Held : Full /\ \A i \in DOMAIN h : Less(h[i], EntryOf(id))

\* No slot in Slots is farther than its parent.
OrderedOn(Slots) == \A i \in Slots : i > 1 => ~Less(h[Parent(i)], h[i])

\* The children of slot at are not farther than its parent.
Straddles == at > 1 => \A i \in DOMAIN h : Parent(i) = at => ~Less(h[Parent(at)], h[i])

\* The heap order, but for the entry that is moving.
Shape ==
    /\ sift = "idle" => OrderedOn(DOMAIN h)
    /\ sift = "up" => OrderedOn(DOMAIN h \ {at}) /\ Straddles
    /\ sift = "down" => OrderedOn({i \in DOMAIN h : Parent(i) # at}) /\ Straddles

HeapInv == HeapTypeOK /\ Genuine /\ TurnedAway /\ Shape

-----------------------------------------------------------------------------
\* Entries are ranked by a strict total order.
LEMMA LessFacts ==
    ASSUME NEW x \in HeapEntry, NEW y \in HeapEntry, NEW z \in HeapEntry
    PROVE  /\ ~Less(x, x)
           /\ Less(x, y) => ~Less(y, x)
           /\ x # y => Less(x, y) \/ Less(y, x)
           /\ Less(x, y) /\ Less(y, z) => Less(x, z)
           /\ Less(x, y) /\ ~Less(z, y) => Less(x, z)
           /\ ~Less(y, x) /\ Less(y, z) => Less(x, z)
           /\ ~Less(y, x) /\ ~Less(z, y) => ~Less(z, x)
<1>1. /\ x.dist \in Int /\ y.dist \in Int /\ z.dist \in Int
      /\ x.id \in Int /\ y.id \in Int /\ z.id \in Int
  <2>1. \A e \in HeapEntry : e.dist \in 0..MaxDist /\ e.id \in Candidates
    BY DEF HeapEntry
  <2>2. 0..MaxDist \subseteq Int /\ Candidates \subseteq Int
    BY HeapAssumption
  <2> QED
    BY <2>1, <2>2
<1>2. x = y <=> x.dist = y.dist /\ x.id = y.id
  BY DEF HeapEntry
<1>3. ~Less(x, x) /\ (Less(x, y) => ~Less(y, x))
  BY <1>1 DEF Less
<1>4. x # y => Less(x, y) \/ Less(y, x)
  BY <1>1, <1>2 DEF Less
<1>5. Less(x, y) /\ Less(y, z) => Less(x, z)
  BY <1>1 DEF Less
<1>6. Less(x, y) /\ ~Less(z, y) => Less(x, z)
  BY <1>1 DEF Less
<1>7. ~Less(y, x) /\ Less(y, z) => Less(x, z)
  BY <1>1 DEF Less
<1>8. ~Less(y, x) /\ ~Less(z, y) => ~Less(z, x)
  BY <1>1 DEF Less
<1> QED
  BY <1>3, <1>4, <1>5, <1>6, <1>7, <1>8

\* The entry of a candidate is one.
LEMMA EntryFacts ==
    ASSUME HeapTypeOK, NEW id \in Candidates
    PROVE  EntryOf(id) \in HeapEntry /\ EntryOf(id).id = id
BY DEF HeapTypeOK, EntryOf, HeapEntry

\* The slots.
LEMMA HeapSlotFacts ==
    ASSUME HeapTypeOK
    PROVE  /\ Len(h) \in Nat /\ DOMAIN h = 1..Len(h)
           /\ Capacity \in Nat /\ Capacity > 0
           /\ \A i \in DOMAIN h : h[i] \in HeapEntry /\ h[i].id \in Candidates
<1>1. Len(h) \in Nat /\ DOMAIN h = 1..Len(h)
  BY LenProperties DEF HeapTypeOK
<1>2. \A i \in DOMAIN h : h[i] \in HeapEntry
  BY <1>1, ElementOfSeq DEF HeapTypeOK
<1> QED
  BY <1>1, <1>2, HeapAssumption DEF HeapEntry

\* In heap order the root is the farthest entry: the first slot that beats it would
\* have a parent that does.
LEMMA RootIsFarthest ==
    ASSUME HeapTypeOK, OrderedOn(DOMAIN h), h # <<>>
    PROVE  1 \in DOMAIN h /\ \A i \in DOMAIN h : ~Less(h[1], h[i])
<1>1. /\ Len(h) \in Nat /\ DOMAIN h = 1..Len(h)
      /\ \A i \in DOMAIN h : h[i] \in HeapEntry
  BY HeapSlotFacts
<1>2. 1 \in DOMAIN h
  BY <1>1, EmptySeq DEF HeapTypeOK
<1> DEFINE Beats == {i \in DOMAIN h : Less(h[1], h[i])}
<1>3. SUFFICES ASSUME Beats # {} PROVE FALSE
  BY <1>2
<1>4. PICK n \in Beats : \A m \in Beats : n <= m
  <2>1. Beats \in SUBSET Nat
    BY <1>1
  <2> HIDE DEF Beats
  <2> QED
    BY <1>3, <2>1, LeastNatural
<1>5. n \in DOMAIN h /\ Less(h[1], h[n])
  BY <1>4
<1>6. n > 1
  BY <1>1, <1>2, <1>5, LessFacts
<1>7. Parent(n) \in DOMAIN h /\ Parent(n) < n
  BY <1>1, <1>5, <1>6 DEF Parent
<1>8. ~Less(h[Parent(n)], h[n])
  BY <1>5, <1>6 DEF OrderedOn
<1>9. Less(h[1], h[Parent(n)])
  BY <1>1, <1>2, <1>5, <1>7, <1>8, LessFacts
<1>10. Parent(n) \in Beats
  BY <1>7, <1>9
<1> QED
  BY <1>1, <1>4, <1>7, <1>10

-----------------------------------------------------------------------------
\* Exchanging two slots moves entries and neither loses nor adds one.
LEMMA SwapKeeps ==
    ASSUME HeapTypeOK, Genuine, TurnedAway,
           NEW j \in DOMAIN h, NEW k \in DOMAIN h,
           h' = Swapped(j, k), dist' = dist, offered' = offered,
           sift' \in {"idle", "up", "down"}, at' \in DOMAIN h
    PROVE  /\ HeapTypeOK' /\ Genuine' /\ TurnedAway'
           /\ DOMAIN h' = DOMAIN h
           /\ h'[j] = h[k] /\ h'[k] = h[j]
           /\ \A i \in DOMAIN h \ {j, k} : h'[i] = h[i]
           /\ {h'[i] : i \in DOMAIN h'} = {h[i] : i \in DOMAIN h}
<1>1. /\ Len(h) \in Nat /\ DOMAIN h = 1..Len(h)
      /\ \A i \in DOMAIN h : h[i] \in HeapEntry
  BY HeapSlotFacts
<1>2. /\ DOMAIN h' = DOMAIN h
      /\ h'[j] = h[k] /\ h'[k] = h[j]
      /\ \A i \in DOMAIN h \ {j, k} : h'[i] = h[i]
  BY DEF Swapped
<1>3. h' \in Seq(HeapEntry) /\ Len(h') = Len(h)
  <2>1. h' \in [1..Len(h) -> HeapEntry]
    BY <1>1, <1>2 DEF Swapped, HeapTypeOK
  <2>2. h' \in Seq(HeapEntry)
    BY <1>1, <2>1, SeqDef
  <2> QED
    BY <1>1, <1>2, <2>2, LenProperties
<1>4. HeapTypeOK'
  BY <1>2, <1>3 DEF HeapTypeOK
<1>5. {h'[i] : i \in DOMAIN h'} = {h[i] : i \in DOMAIN h}
  BY <1>2
<1>6. Genuine'
  BY <1>2 DEF Genuine, EntryOf, Wanted
<1>7. TurnedAway'
  <2>1. Held' = Held
    BY <1>2 DEF Held
  <2> QED
    BY <1>2, <1>3, <2>1 DEF TurnedAway, Full, Wanted, EntryOf
<1> QED
  BY <1>2, <1>4, <1>5, <1>6, <1>7

\* What the parent relation is.
LEMMA ParentFacts ==
    ASSUME NEW i \in Nat, i > 1
    PROVE  Parent(i) \in Nat /\ Parent(i) >= 1 /\ Parent(i) < i
BY DEF Parent

\* A slot below i in the heap is one of the two at 2i and 2i + 1, and i is its parent.
LEMMA ChildFacts ==
    ASSUME NEW i \in Nat, NEW j \in Nat, i > 1
    PROVE  Parent(i) = j <=> i = 2 * j \/ i = 2 * j + 1
BY DEF Parent

-----------------------------------------------------------------------------
\* A turn of the upward loop.
LEMMA SiftUpKeeps ==
    ASSUME HeapInv, SiftUp
    PROVE  HeapInv' /\ {h'[i] : i \in DOMAIN h'} = {h[i] : i \in DOMAIN h}
<1>1. /\ HeapTypeOK /\ Genuine /\ TurnedAway
      /\ sift = "up" /\ at \in DOMAIN h /\ at \in Nat
      /\ OrderedOn(DOMAIN h \ {at}) /\ Straddles
  BY HeapSlotFacts DEF HeapInv, HeapTypeOK, Shape, SiftUp
<1>2. /\ Len(h) \in Nat /\ DOMAIN h = 1..Len(h)
      /\ \A i \in DOMAIN h : h[i] \in HeapEntry
  BY <1>1, HeapSlotFacts
<1>3. CASE at > 1 /\ Less(h[Parent(at)], h[at])
  <2> DEFINE p == Parent(at)
  <2>1. p \in DOMAIN h /\ p \in Nat /\ p < at
    BY <1>1, <1>2, <1>3, ParentFacts
  <2>2. h' = Swapped(at, p) /\ at' = p /\ sift' = "up" /\ UNCHANGED <<dist, offered>>
    BY <1>1, <1>3 DEF SiftUp
  <2>3. /\ HeapTypeOK' /\ Genuine' /\ TurnedAway'
        /\ DOMAIN h' = DOMAIN h
        /\ h'[at] = h[p] /\ h'[p] = h[at]
        /\ \A i \in DOMAIN h \ {at, p} : h'[i] = h[i]
        /\ {h'[i] : i \in DOMAIN h'} = {h[i] : i \in DOMAIN h}
    BY <1>1, <2>1, <2>2, SwapKeeps
  <2>4. Less(h[p], h[at])
    BY <1>3
  <2> HIDE DEF p
  <2>5. ASSUME NEW i \in DOMAIN h, i > 1, i # p
        PROVE  ~Less(h'[Parent(i)], h'[i])
    <3>1. Parent(i) \in DOMAIN h /\ i \in Nat /\ Parent(i) < i /\ Parent(i) \in Nat
      BY <1>2, <2>5, ParentFacts
    <3>2. CASE i = at
      <4>1. Parent(i) = p
        BY <3>2 DEF p
      <4> QED
        BY <1>2, <2>1, <2>3, <2>4, <3>2, <4>1, LessFacts
    <3>3. CASE i # at /\ Parent(i) = p
      <4>1. ~Less(h[p], h[i])
        BY <1>1, <2>5, <3>3 DEF OrderedOn
      <4>2. ~Less(h[at], h[i])
        BY <1>1, <1>2, <2>1, <2>4, <4>1, LessFacts
      <4> QED
        BY <2>3, <2>5, <3>3, <4>2
    <3>4. CASE Parent(i) = at
      <4>1. ~Less(h[p], h[i])
        BY <1>3, <1>1, <3>4 DEF Straddles, p
      <4>2. i # at
        BY <3>1, <3>4
      <4> QED
        BY <2>3, <2>5, <3>4, <4>1, <4>2
    <3>5. CASE i # at /\ Parent(i) # p /\ Parent(i) # at
      BY <1>1, <2>3, <2>5, <3>1, <3>5 DEF OrderedOn
    <3> QED
      BY <3>2, <3>3, <3>4, <3>5
  <2>6. ASSUME p > 1, NEW i \in DOMAIN h, Parent(i) = p
        PROVE  ~Less(h'[Parent(p)], h'[i])
    <3>1. Parent(p) \in DOMAIN h /\ Parent(p) # p /\ Parent(p) # at
      BY <1>1, <1>2, <2>1, <2>6, ParentFacts
    <3>2. ~Less(h[Parent(p)], h[p])
      BY <1>1, <2>1, <2>6 DEF OrderedOn
    <3>3. h'[Parent(p)] = h[Parent(p)]
      BY <2>3, <3>1
    <3>4. CASE i = at
      BY <2>3, <3>2, <3>3, <3>4
    <3>5. CASE i # at
      <4>1. i > 1 /\ i # p
        BY <1>2, <2>1, <2>6, ParentFacts DEF Parent
      <4>2. ~Less(h[p], h[i])
        BY <1>1, <2>6, <3>5, <4>1 DEF OrderedOn
      <4>3. ~Less(h[Parent(p)], h[i])
        BY <1>2, <2>1, <3>1, <3>2, <4>2, LessFacts
      <4> QED
        BY <2>3, <3>3, <3>5, <4>1, <4>3
    <3> QED
      BY <3>4, <3>5
  <2>7. Shape'
    BY <2>2, <2>3, <2>5, <2>6 DEF Shape, OrderedOn, Straddles, Parent
  <2> QED
    BY <2>3, <2>7 DEF HeapInv
<1>4. CASE ~(at > 1 /\ Less(h[Parent(at)], h[at]))
  <2>1. h' = h /\ sift' = "idle" /\ at' = 0 /\ UNCHANGED <<dist, offered>>
    BY <1>1, <1>4 DEF SiftUp
  <2>2. OrderedOn(DOMAIN h)
    BY <1>1, <1>4 DEF OrderedOn
  <2> QED
    BY <1>1, <2>1, <2>2
    DEF HeapInv, HeapTypeOK, Genuine, TurnedAway, Shape, OrderedOn, EntryOf, Wanted, Held, Full
<1> QED
  BY <1>3, <1>4

\* The slot the downward loop continues with: none of the three is farther.
LEMMA LargestFacts ==
    ASSUME HeapTypeOK, NEW i \in DOMAIN h
    PROVE  LET near == {i, 2 * i, 2 * i + 1} \cap DOMAIN h
           IN  Largest(i) \in near /\ \A m \in near : ~Less(h[Largest(i)], h[m])
<1> DEFINE near == {i, 2 * i, 2 * i + 1} \cap DOMAIN h
           left == 2 * i
           right == 2 * i + 1
           tops(j) == \A m \in near : ~Less(h[j], h[m])
<1>1. \A j \in DOMAIN h : h[j] \in HeapEntry
  BY HeapSlotFacts
<1>2. \A j \in near : h[j] \in HeapEntry /\ ~Less(h[j], h[j])
  BY <1>1, LessFacts
<1>3. \A j, k, m \in near : ~Less(h[k], h[j]) /\ ~Less(h[m], h[k]) => ~Less(h[m], h[j])
  BY <1>2, LessFacts
<1>4. \A j, k \in near : Less(h[j], h[k]) => ~Less(h[k], h[j])
  BY <1>2, LessFacts
<1>5. \E j \in near : tops(j)
  <2> HIDE DEF left, right
  <2>1. near = {i, left, right} \cap DOMAIN h
    BY DEF left, right
  <2> HIDE DEF near
  <2>2. i \in near
    BY <2>1
  <2>3. PICK j \in near : j \in {i, left} /\ \A m \in near \cap {i, left} : ~Less(h[j], h[m])
    <3>1. CASE left \in near /\ Less(h[i], h[left])
      BY <1>2, <1>4, <2>2, <3>1
    <3>2. CASE ~(left \in near /\ Less(h[i], h[left]))
      BY <1>2, <2>2, <3>2
    <3> QED
      BY <3>1, <3>2
  <2>4. CASE right \in near /\ Less(h[j], h[right])
    <3>1. \A m \in near : ~Less(h[right], h[m])
      BY <1>2, <1>3, <1>4, <2>1, <2>3, <2>4
    <3> QED
      BY <2>4, <3>1
  <2>5. CASE ~(right \in near /\ Less(h[j], h[right]))
    BY <2>1, <2>3, <2>5
  <2> QED
    BY <2>4, <2>5
<1>6. Largest(i) = CHOOSE j \in near : tops(j)
  BY DEF Largest
<1> HIDE DEF near
<1>7. Largest(i) \in near /\ tops(Largest(i))
  BY <1>5, <1>6
<1> QED
  BY <1>7 DEF near

\* A turn of the downward loop.
LEMMA SiftDownKeeps ==
    ASSUME HeapInv, SiftDown
    PROVE  HeapInv' /\ {h'[i] : i \in DOMAIN h'} = {h[i] : i \in DOMAIN h}
<1>1. /\ HeapTypeOK /\ Genuine /\ TurnedAway
      /\ sift = "down" /\ at \in DOMAIN h /\ at \in Nat /\ at >= 1
      /\ OrderedOn({i \in DOMAIN h : Parent(i) # at}) /\ Straddles
  BY HeapSlotFacts DEF HeapInv, HeapTypeOK, Shape, SiftDown
<1>2. /\ Len(h) \in Nat /\ DOMAIN h = 1..Len(h)
      /\ \A i \in DOMAIN h : h[i] \in HeapEntry
  BY <1>1, HeapSlotFacts
<1> DEFINE j == Largest(at)
<1>3. /\ j \in {at, 2 * at, 2 * at + 1} /\ j \in DOMAIN h
      /\ \A m \in {at, 2 * at, 2 * at + 1} \cap DOMAIN h : ~Less(h[j], h[m])
  BY <1>1, LargestFacts
<1>4. \A i \in DOMAIN h : i > 1 /\ Parent(i) = at => i \in {at, 2 * at, 2 * at + 1}
  BY <1>1, <1>2, ChildFacts
<1>5. CASE j # at
  <2>1. h' = Swapped(at, j) /\ at' = j /\ sift' = "down" /\ UNCHANGED <<dist, offered>>
    BY <1>1, <1>5 DEF SiftDown
  <2> HIDE DEF j
  <2>2. /\ HeapTypeOK' /\ Genuine' /\ TurnedAway'
        /\ DOMAIN h' = DOMAIN h
        /\ h'[at] = h[j] /\ h'[j] = h[at]
        /\ \A i \in DOMAIN h \ {at, j} : h'[i] = h[i]
        /\ {h'[i] : i \in DOMAIN h'} = {h[i] : i \in DOMAIN h}
    BY <1>1, <1>3, <2>1, SwapKeeps
  <2>3. j \in Nat /\ j > 1 /\ j > at /\ Parent(j) = at
    <3>1. j = 2 * at \/ j = 2 * at + 1
      BY <1>3, <1>5
    <3>2. j \in Nat /\ j > 1 /\ j > at
      BY <1>1, <3>1
    <3> QED
      BY <1>1, <3>1, <3>2, ChildFacts
  <2>4. ASSUME NEW i \in DOMAIN h, i > 1, Parent(i) # j
        PROVE  ~Less(h'[Parent(i)], h'[i])
    <3>1. Parent(i) \in DOMAIN h /\ i \in Nat /\ Parent(i) < i /\ Parent(i) \in Nat
      BY <1>2, <2>4, ParentFacts
    <3>2. CASE i = j
      <4>1. ~Less(h[j], h[at])
        BY <1>1, <1>3
      <4> QED
        BY <2>2, <2>3, <3>2, <4>1
    <3>3. CASE i # j /\ Parent(i) = at
      <4>1. ~Less(h[j], h[i])
        BY <1>3, <1>4, <2>4, <3>3
      <4>2. i # at
        BY <3>1, <3>3
      <4> QED
        BY <2>2, <2>4, <3>3, <4>1, <4>2
    <3>4. CASE i = at
      <4>1. ~Less(h[Parent(at)], h[j])
        BY <1>1, <1>3, <2>3, <2>4, <3>4 DEF Straddles
      <4>2. Parent(i) # at
        BY <3>1, <3>4
      <4> QED
        BY <2>2, <2>4, <3>1, <3>4, <4>1, <4>2
    <3>5. CASE i # j /\ i # at /\ Parent(i) # at
      BY <1>1, <2>2, <2>4, <3>1, <3>5 DEF OrderedOn
    <3> QED
      BY <3>2, <3>3, <3>4, <3>5
  <2>5. ASSUME NEW i \in DOMAIN h, Parent(i) = j
        PROVE  ~Less(h'[Parent(j)], h'[i])
    <3>1. i > 1 /\ i # j /\ i # at /\ Parent(i) # at
      <4>1. i \in Nat /\ i > 1
        BY <1>2, <2>3, <2>5 DEF Parent
      <4>2. j < i
        BY <2>5, <4>1, ParentFacts
      <4> QED
        BY <1>1, <2>3, <2>5, <4>1, <4>2
    <3>2. ~Less(h[j], h[i])
      BY <1>1, <2>5, <3>1 DEF OrderedOn
    <3> QED
      BY <2>2, <2>3, <3>1, <3>2
  <2>6. Shape'
    BY <2>1, <2>2, <2>4, <2>5 DEF Shape, OrderedOn, Straddles, Parent
  <2> QED
    BY <2>2, <2>6 DEF HeapInv
<1>6. CASE j = at
  <2>1. h' = h /\ sift' = "idle" /\ at' = 0 /\ UNCHANGED <<dist, offered>>
    BY <1>1, <1>6 DEF SiftDown
  <2>2. OrderedOn(DOMAIN h)
    <3> SUFFICES ASSUME NEW i \in DOMAIN h, i > 1 PROVE ~Less(h[Parent(i)], h[i])
      BY DEF OrderedOn
    <3>1. CASE Parent(i) = at
      BY <1>3, <1>4, <1>6, <3>1
    <3>2. CASE Parent(i) # at
      BY <1>1, <3>2 DEF OrderedOn
    <3> QED
      BY <3>1, <3>2
  <2> QED
    BY <1>1, <2>1, <2>2
    DEF HeapInv, HeapTypeOK, Genuine, TurnedAway, Shape, OrderedOn, EntryOf, Wanted, Held, Full
<1> QED
  BY <1>5, <1>6

-----------------------------------------------------------------------------
\* An id that is dropped would not have changed what is held.
LEMMA DropKeeps ==
    ASSUME HeapInv, NEW id \in Candidates, Offer(id), Dropped(id)
    PROVE  HeapInv' /\ h' = h
<1>1. /\ HeapTypeOK /\ Genuine /\ TurnedAway /\ OrderedOn(DOMAIN h) /\ sift = "idle"
      /\ UNCHANGED <<dist, h, sift, at>> /\ offered' = offered \cup {id}
  BY DEF HeapInv, Shape, Offer
<1>2. HeapTypeOK'
  BY <1>1, FS_AddElement DEF HeapTypeOK
<1>3. Genuine'
  BY <1>1 DEF Genuine, Wanted, EntryOf
<1>4. TurnedAway'
  <2> SUFFICES ASSUME NEW x \in (Wanted \cup {id}) \ {Excluded}, x \notin Held
               PROVE  Full /\ \A i \in DOMAIN h : Less(h[i], EntryOf(x))
    BY <1>1 DEF TurnedAway, Wanted, Held, Full, EntryOf
  <2>1. CASE x \in Wanted
    BY <1>1, <2>1 DEF TurnedAway
  <2>2. CASE x = id /\ x \notin Wanted
    <3>1. Full /\ ~Less(EntryOf(id), h[1])
      BY <2>2 DEF Dropped, Wanted
    <3>2. h # <<>>
      BY <1>1, <3>1, HeapSlotFacts, EmptySeq DEF Full
    <3>3. 1 \in DOMAIN h /\ \A i \in DOMAIN h : ~Less(h[1], h[i])
      BY <1>1, <3>2, RootIsFarthest
    <3>4. EntryOf(id) \in HeapEntry /\ EntryOf(id).id = id
      BY <1>1, EntryFacts
    <3>5. ASSUME NEW i \in DOMAIN h PROVE Less(h[i], EntryOf(id))
      <4>1. h[1] \in HeapEntry /\ h[i] \in HeapEntry
        BY <1>1, <3>3, HeapSlotFacts
      <4>2. h[i] # EntryOf(id)
        BY <2>2, <3>4 DEF Held
      <4>3. ~Less(EntryOf(id), h[i])
        BY <3>1, <3>3, <3>4, <4>1, LessFacts
      <4> QED
        BY <3>4, <4>1, <4>2, <4>3, LessFacts
    <3> QED
      BY <2>2, <3>1, <3>5
  <2> QED
    BY <2>1, <2>2
<1>5. Shape'
  BY <1>1 DEF Shape, OrderedOn
<1> QED
  BY <1>1, <1>2, <1>3, <1>4, <1>5 DEF HeapInv

\* An id that is taken is not held yet.
LEMMA TakenIsNew ==
    ASSUME HeapInv, NEW id \in Candidates, Offer(id), ~Dropped(id)
    PROVE  id \notin Held /\ id # Excluded
<1>1. id # Excluded /\ ~(Dedupes /\ id \in Held)
  BY DEF Dropped
<1>2. Held \subseteq offered
  BY DEF HeapInv, Genuine, Wanted, Held
<1> QED
  BY <1>1, <1>2 DEF Offer

\* A heap with room takes any entry.
LEMMA InsertKeeps ==
    ASSUME HeapInv, NEW id \in Candidates, Offer(id), ~Dropped(id), Insert(id)
    PROVE  /\ HeapInv'
           /\ {h'[i] : i \in DOMAIN h'} = {h[i] : i \in DOMAIN h} \cup {EntryOf(id)}
<1> DEFINE e == EntryOf(id)
           n == Len(h)
<1>1. /\ HeapTypeOK /\ Genuine /\ TurnedAway /\ OrderedOn(DOMAIN h) /\ ~Full
      /\ h' = Append(h, e) /\ sift' = "up" /\ at' = n + 1
      /\ UNCHANGED dist /\ offered' = offered \cup {id}
  BY DEF HeapInv, Shape, Offer, Insert
<1>2. id \notin Held /\ id # Excluded
  BY TakenIsNew
<1>3. /\ n \in Nat /\ DOMAIN h = 1..n /\ Capacity \in Nat
      /\ \A i \in DOMAIN h : h[i] \in HeapEntry
  BY <1>1, HeapSlotFacts
<1>4. e \in HeapEntry /\ e.id = id
  BY <1>1, EntryFacts
<1> HIDE DEF e
<1>5. /\ h' \in Seq(HeapEntry) /\ Len(h') = n + 1
      /\ DOMAIN h' = 1..(n + 1)
      /\ \A i \in 1..n : h'[i] = h[i]
      /\ h'[n + 1] = e
  BY <1>1, <1>3, <1>4, AppendProperties, LenProperties DEF HeapTypeOK
<1>6. DOMAIN h' = DOMAIN h \cup {n + 1}
  BY <1>3, <1>5
<1> HIDE DEF n
<1>7. \A i \in DOMAIN h : h'[i] = h[i] /\ i # n + 1
  BY <1>3, <1>5
<1>8. HeapTypeOK'
  <2>1. n <= Capacity /\ n # Capacity
    BY <1>1 DEF Full, HeapTypeOK, n
  <2>2. Len(h') <= Capacity
    BY <1>3, <1>5, <2>1
  <2> QED
    BY <1>1, <1>5, <1>6, <2>2, FS_AddElement DEF HeapTypeOK
<1>9. Genuine'
  BY <1>1, <1>2, <1>4, <1>5, <1>6, <1>7 DEF Genuine, Held, Wanted, EntryOf, e
<1>10. TurnedAway'
  <2>1. Held' = Held \cup {id}
    <3>1. Held' = {h'[i].id : i \in DOMAIN h \cup {n + 1}}
      BY <1>6 DEF Held
    <3>2. {h'[i].id : i \in DOMAIN h} = Held
      BY <1>7 DEF Held
    <3> QED
      BY <1>4, <1>5, <3>1, <3>2
  <2>2. Wanted \subseteq Held
    BY <1>1 DEF TurnedAway
  <2> QED
    BY <1>1, <2>1, <2>2 DEF TurnedAway, Wanted
<1>11. Shape'
  <2>1. OrderedOn(DOMAIN h \ {at})'
    <3> SUFFICES ASSUME NEW i \in DOMAIN h', i # n + 1, i > 1
                 PROVE  ~Less(h'[Parent(i)], h'[i])
      BY <1>1 DEF OrderedOn, Parent, n
    <3>1. i \in DOMAIN h /\ Parent(i) \in DOMAIN h
      BY <1>3, <1>6, ParentFacts
    <3> QED
      BY <1>1, <1>7, <3>1 DEF OrderedOn
  <2>2. ASSUME NEW i \in DOMAIN h' PROVE Parent(i) # n + 1
    BY <1>3, <1>5 DEF Parent
  <2> QED
    BY <1>1, <2>1, <2>2 DEF Shape, Straddles, Parent, n
<1>12. {h'[i] : i \in DOMAIN h'} = {h[i] : i \in DOMAIN h} \cup {e}
  <2>1. {h'[i] : i \in DOMAIN h} = {h[i] : i \in DOMAIN h}
    BY <1>7
  <2> QED
    BY <1>5, <1>6, <2>1
<1> QED
  BY <1>8, <1>9, <1>10, <1>11, <1>12 DEF HeapInv, e

\* A full heap gives up its root, the farthest entry, for a nearer one.
LEMMA ReplaceRootKeeps ==
    ASSUME HeapInv, NEW id \in Candidates, Offer(id), ~Dropped(id), ReplaceRoot(id)
    PROVE  /\ HeapInv'
           /\ Full /\ 1 \in DOMAIN h
           /\ \A i \in DOMAIN h : i # 1 => Less(h[i], h[1])
           /\ Less(EntryOf(id), h[1])
           /\ {h'[i] : i \in DOMAIN h'} =
                  ({h[i] : i \in DOMAIN h} \ {h[1]}) \cup {EntryOf(id)}
<1> DEFINE e == EntryOf(id)
<1>1. /\ HeapTypeOK /\ Genuine /\ TurnedAway /\ OrderedOn(DOMAIN h) /\ Full
      /\ Less(e, h[1])
      /\ h' = [h EXCEPT ![1] = e] /\ sift' = "down" /\ at' = 1
      /\ UNCHANGED dist /\ offered' = offered \cup {id}
  BY DEF HeapInv, Shape, Offer, ReplaceRoot
<1>2. id \notin Held /\ id # Excluded
  BY TakenIsNew
<1>3. /\ Len(h) \in Nat /\ DOMAIN h = 1..Len(h) /\ Capacity \in Nat /\ Capacity > 0
      /\ \A i \in DOMAIN h : h[i] \in HeapEntry
  BY <1>1, HeapSlotFacts
<1>4. e \in HeapEntry /\ e.id = id
  BY <1>1, EntryFacts
<1> HIDE DEF e
<1>5. h # <<>>
  BY <1>1, <1>3, EmptySeq DEF Full
<1>6. 1 \in DOMAIN h /\ \A i \in DOMAIN h : ~Less(h[1], h[i])
  BY <1>1, <1>5, RootIsFarthest
<1>7. \A i \in DOMAIN h : i # 1 => h[i] # h[1] /\ Less(h[i], h[1])
  <2> SUFFICES ASSUME NEW i \in DOMAIN h, i # 1 PROVE h[i] # h[1] /\ Less(h[i], h[1])
    OBVIOUS
  <2>1. h[i] # h[1]
    BY <1>1, <1>6 DEF Genuine
  <2> QED
    BY <1>3, <1>6, <2>1, LessFacts
<1>8. /\ DOMAIN h' = DOMAIN h /\ h'[1] = e
      /\ \A i \in DOMAIN h : i # 1 => h'[i] = h[i]
  BY <1>1, <1>6
<1>9. h' \in Seq(HeapEntry) /\ Len(h') = Len(h)
  <2>1. h' \in [1..Len(h) -> HeapEntry]
    BY <1>1, <1>3, <1>4, <1>8, LenProperties DEF HeapTypeOK
  <2>2. h' \in Seq(HeapEntry)
    BY <1>3, <2>1, SeqDef
  <2> QED
    BY <1>3, <1>8, <2>2, LenProperties
<1>10. HeapTypeOK'
  BY <1>1, <1>6, <1>8, <1>9, FS_AddElement DEF HeapTypeOK
<1>11. Genuine'
  BY <1>1, <1>2, <1>4, <1>6, <1>8 DEF Genuine, Held, Wanted, EntryOf, e
<1>12. {h'[i] : i \in DOMAIN h'} = ({h[i] : i \in DOMAIN h} \ {h[1]}) \cup {e}
  BY <1>6, <1>7, <1>8
<1>13. TurnedAway'
  <2> SUFFICES ASSUME NEW x \in (Wanted \cup {id}) \ {Excluded}, x \notin Held'
               PROVE  \A i \in DOMAIN h' : Less(h'[i], EntryOf(x))
    BY <1>1, <1>9 DEF TurnedAway, Wanted, Full, EntryOf
  <2>1. x # id
    BY <1>4, <1>6, <1>8 DEF Held
  <2>2. x \in Wanted /\ x \in Candidates /\ EntryOf(x) \in HeapEntry
    BY <1>1, <2>1, EntryFacts DEF Wanted, HeapTypeOK
  <2>3. CASE x = h[1].id
    <3>1. EntryOf(x) = h[1]
      BY <1>1, <1>6, <2>3 DEF Genuine
    <3> QED
      BY <1>1, <1>7, <1>8, <3>1
  <2>4. CASE x # h[1].id
    <3>1. x \notin Held
      BY <1>8, <2>4 DEF Held
    <3>2. \A i \in DOMAIN h : Less(h[i], EntryOf(x))
      BY <1>1, <2>2, <3>1 DEF TurnedAway
    <3>3. Less(e, EntryOf(x))
      BY <1>1, <1>3, <1>4, <1>6, <2>2, <3>2, LessFacts
    <3> QED
      BY <1>8, <3>2, <3>3
  <2> QED
    BY <2>3, <2>4
<1>14. Shape'
  <2>1. ASSUME NEW i \in DOMAIN h', Parent(i) # 1, i > 1
        PROVE  ~Less(h'[Parent(i)], h'[i])
    <3>1. i \in DOMAIN h /\ Parent(i) \in DOMAIN h
      BY <1>3, <1>8, <2>1, ParentFacts
    <3> QED
      BY <1>1, <1>8, <2>1, <3>1 DEF OrderedOn
  <2> QED
    BY <1>1, <2>1 DEF Shape, OrderedOn, Straddles, Parent
<1> QED
  BY <1>1, <1>6, <1>7, <1>10, <1>11, <1>12, <1>13, <1>14 DEF HeapInv, e

\* Sorting moves the entries and neither adds nor loses one.
LEMMA EmitKeeps ==
    ASSUME HeapInv, HeapEmit
    PROVE  HeapInv' /\ {h'[i] : i \in DOMAIN h'} = {h[i] : i \in DOMAIN h}
<1>1. /\ HeapTypeOK /\ Genuine /\ TurnedAway
      /\ sift' = "emitted" /\ UNCHANGED <<dist, at, offered>>
  BY DEF HeapInv, HeapEmit
<1>2. /\ Len(h) \in Nat /\ DOMAIN h = 1..Len(h)
      /\ \A i \in DOMAIN h : h[i] \in HeapEntry
  BY <1>1, HeapSlotFacts
<1> DEFINE D == DOMAIN h
<1>3. PICK p \in Bijection(D, D) : h' = [i \in D |-> h[p[i]]]
  BY DEF HeapEmit
<1>4. /\ \A i \in D : p[i] \in D
      /\ \A i, j \in D : p[i] = p[j] => i = j
      /\ \A j \in D : \E i \in D : p[i] = j
  BY Fun_BijectionProperties
<1>5. DOMAIN h' = D /\ \A i \in D : h'[i] = h[p[i]]
  BY <1>3
<1>6. h' \in Seq(HeapEntry) /\ Len(h') = Len(h)
  <2>1. h' \in [1..Len(h) -> HeapEntry]
    BY <1>2, <1>3, <1>4
  <2>2. h' \in Seq(HeapEntry)
    BY <1>2, <2>1, SeqDef
  <2> QED
    BY <1>2, <1>5, <2>2, LenProperties
<1> HIDE DEF D
<1>7. \A j \in D : \E i \in D : h'[i] = h[j]
  <2> SUFFICES ASSUME NEW j \in D PROVE \E i \in D : h'[i] = h[j]
    OBVIOUS
  <2>1. PICK i \in D : p[i] = j
    BY <1>4
  <2> QED
    BY <1>5, <2>1
<1>8. {h'[i] : i \in D} = {h[i] : i \in D}
  <2>1. {h'[i] : i \in D} \subseteq {h[i] : i \in D}
    BY <1>4, <1>5
  <2>2. {h[i] : i \in D} \subseteq {h'[i] : i \in D}
    <3> SUFFICES ASSUME NEW j \in D PROVE \E i \in D : h[j] = h'[i]
      OBVIOUS
    <3> QED
      BY <1>7
  <2> QED
    BY <2>1, <2>2
<1>9. HeapTypeOK'
  BY <1>1, <1>6 DEF HeapTypeOK
<1>10. Held' = Held
  <2>1. {h'[i].id : i \in D} \subseteq {h[i].id : i \in D}
    BY <1>4, <1>5
  <2>2. {h[i].id : i \in D} \subseteq {h'[i].id : i \in D}
    <3> SUFFICES ASSUME NEW j \in D PROVE \E i \in D : h[j].id = h'[i].id
      OBVIOUS
    <3> QED
      BY <1>7
  <2> QED
    BY <1>5, <2>1, <2>2 DEF Held, D
<1>11. Genuine'
  <2>1. \A i \in D : h[p[i]] = EntryOf(h[p[i]].id) /\ h[p[i]].id \in Wanted
    BY <1>1, <1>4 DEF Genuine, D
  <2>2. \A i, j \in D : h[p[i]].id = h[p[j]].id => i = j
    <3> SUFFICES ASSUME NEW i \in D, NEW j \in D, h[p[i]].id = h[p[j]].id PROVE i = j
      OBVIOUS
    <3>1. p[i] \in D /\ p[j] \in D
      BY <1>4
    <3>2. p[i] = p[j]
      BY <1>1, <3>1 DEF Genuine, D
    <3> QED
      BY <1>4, <3>2
  <2>3. \A i \in D : h'[i] = EntryOf(h'[i].id) /\ h'[i].id \in Wanted
    BY <1>5, <2>1
  <2>4. \A i, j \in D : h'[i].id = h'[j].id => i = j
    BY <1>5, <2>2
  <2> QED
    BY <1>1, <1>5, <2>3, <2>4 DEF Genuine, Wanted, EntryOf
<1>12. TurnedAway'
  <2> SUFFICES ASSUME NEW x \in Wanted \ Held
               PROVE  Full' /\ \A i \in D : Less(h[p[i]], EntryOf(x))
    BY <1>1, <1>5, <1>10 DEF TurnedAway, Wanted, EntryOf
  <2>1. Full /\ \A i \in D : Less(h[i], EntryOf(x))
    BY <1>1 DEF TurnedAway, D
  <2> QED
    BY <1>4, <1>6, <2>1 DEF Full
<1>13. Shape'
  BY <1>1 DEF Shape
<1> QED
  BY <1>5, <1>8, <1>9, <1>11, <1>12, <1>13 DEF HeapInv, D

-----------------------------------------------------------------------------
\* The entries held.
Kept == {h[i] : i \in DOMAIN h}

\* An empty heap has nothing out of order.
LEMMA HeapInitOk ==
    ASSUME HeapInit
    PROVE  HeapInv
<1>1. h = <<>> /\ DOMAIN h = {} /\ offered = {} /\ sift = "idle"
  BY DEF HeapInit
<1>2. HeapTypeOK
  BY <1>1, EmptySeq, FS_EmptySet, HeapAssumption DEF HeapTypeOK, HeapInit
<1> QED
  BY <1>1, <1>2 DEF HeapInv, Genuine, TurnedAway, Wanted, Shape, OrderedOn

\* An offer is dropped, or inserted, or takes the place of the root.
LEMMA OfferCases ==
    ASSUME NEW id \in Candidates, Offer(id)
    PROVE  Dropped(id) \/ (~Dropped(id) /\ Insert(id)) \/ (~Dropped(id) /\ ReplaceRoot(id))
BY DEF Offer

\* Every step keeps the invariant.
LEMMA HeapNextKeeps ==
    ASSUME HeapInv, [HeapNext]_heapVars
    PROVE  HeapInv'
<1>1. CASE UNCHANGED heapVars
  BY <1>1 DEF heapVars, HeapInv, HeapTypeOK, Genuine, TurnedAway, Wanted, Held, Full,
     Shape, OrderedOn, Straddles, EntryOf
<1>2. ASSUME NEW id \in Candidates, Offer(id) PROVE HeapInv'
  BY <1>2, OfferCases, DropKeeps, InsertKeeps, ReplaceRootKeeps
<1>3. CASE SiftUp
  BY <1>3, SiftUpKeeps
<1>4. CASE SiftDown
  BY <1>4, SiftDownKeeps
<1>5. CASE HeapEmit
  BY <1>5, EmitKeeps
<1> QED
  BY <1>1, <1>2, <1>3, <1>4, <1>5 DEF HeapNext

\* There are as many entries, and as many ids, as slots.
LEMMA KeptFacts ==
    ASSUME HeapInv
    PROVE  /\ IsFiniteSet(Kept) /\ Cardinality(Kept) = Len(h)
           /\ Cardinality(Held) = Len(h)
           /\ Kept \subseteq HeapEntry
<1>1. HeapTypeOK /\ Genuine
  BY DEF HeapInv
<1>2. /\ Len(h) \in Nat /\ DOMAIN h = 1..Len(h)
      /\ \A i \in DOMAIN h : h[i] \in HeapEntry
  BY <1>1, HeapSlotFacts
<1>3. IsFiniteSet(DOMAIN h) /\ Cardinality(DOMAIN h) = Len(h)
  BY <1>2, FS_Interval
<1> DEFINE ids == [i \in DOMAIN h |-> h[i].id]
           slots == [i \in DOMAIN h |-> h[i]]
<1>4. ids \in [DOMAIN h -> Held] /\ slots \in [DOMAIN h -> Kept]
  BY DEF Held, Kept
<1>5. ids \in Surjection(DOMAIN h, Held) /\ ids \in Injection(DOMAIN h, Held)
  <2>1. \A i, j \in DOMAIN h : ids[i] = ids[j] => i = j
    BY <1>1 DEF Genuine
  <2>2. \A t \in Held : \E s \in DOMAIN h : ids[s] = t
    BY DEF Held
  <2> QED
    BY <1>4, <2>1, <2>2, Fun_IsInj, Fun_IsSurj
<1>6. slots \in Surjection(DOMAIN h, Kept) /\ slots \in Injection(DOMAIN h, Kept)
  <2>1. \A i, j \in DOMAIN h : slots[i] = slots[j] => i = j
    BY <1>1 DEF Genuine
  <2>2. \A t \in Kept : \E s \in DOMAIN h : slots[s] = t
    BY DEF Kept
  <2> QED
    BY <1>4, <2>1, <2>2, Fun_IsInj, Fun_IsSurj
<1> HIDE DEF ids, slots
<1>7. Cardinality(Held) = Len(h)
  BY <1>3, <1>5, FS_Surjection
<1>8. IsFiniteSet(Kept) /\ Cardinality(Kept) = Len(h)
  BY <1>3, <1>6, FS_Surjection
<1> QED
  BY <1>2, <1>7, <1>8 DEF Kept

\* The entries of finitely many ids are finitely many.
LEMMA EntriesFinite ==
    ASSUME NEW ids, IsFiniteSet(ids)
    PROVE  IsFiniteSet({EntryOf(id) : id \in ids})
<1> DEFINE E == {EntryOf(id) : id \in ids}
           f == [id \in ids |-> EntryOf(id)]
<1>1. f \in [ids -> E] /\ \A t \in E : \E s \in ids : f[s] = t
  OBVIOUS
<1>2. f \in Surjection(ids, E)
  BY <1>1, Fun_IsSurj
<1> QED
  BY <1>2, FS_Surjection

\* What the heap holds is what is nearest of what it was offered.
LEMMA KeptIsNearest ==
    ASSUME HeapInv
    PROVE  Kept = Nearest(Wanted)
<1>1. /\ HeapTypeOK /\ Genuine /\ TurnedAway /\ Wanted \subseteq Candidates
      /\ IsFiniteSet(Wanted) /\ Len(h) <= Capacity
  BY FS_RemoveElement DEF HeapInv, HeapTypeOK, Wanted
<1>2. Len(h) \in Nat /\ Capacity \in Nat
  BY <1>1, HeapSlotFacts
<1>3. IsFiniteSet(Kept) /\ Cardinality(Kept) = Len(h) /\ Kept \subseteq HeapEntry
  BY KeptFacts
<1> DEFINE E == {EntryOf(id) : id \in Wanted}
           nearer(e) == {x \in E : Less(x, e)}
<1>4. IsFiniteSet(E)
  BY <1>1, EntriesFinite
<1>5. E \subseteq HeapEntry
  BY <1>1, EntryFacts
<1>6. Kept \subseteq E
  BY <1>1 DEF Kept, Genuine
<1>7. ASSUME NEW x \in E \ Kept PROVE Full /\ \A y \in Kept : Less(y, x)
  <2>1. PICK id \in Wanted : x = EntryOf(id)
    OBVIOUS
  <2>2. id \notin Held
    <3>1. SUFFICES ASSUME NEW i \in DOMAIN h, h[i].id = id PROVE FALSE
      BY DEF Held
    <3>2. h[i] = x
      BY <1>1, <2>1, <3>1 DEF Genuine
    <3> QED
      BY <3>2 DEF Kept
  <2> QED
    BY <1>1, <2>1, <2>2 DEF TurnedAway, Kept
<1>8. ASSUME NEW x \in Kept PROVE Cardinality(nearer(x)) < Capacity
  <2>1. nearer(x) \subseteq Kept \ {x}
    <3> SUFFICES ASSUME NEW y \in E, Less(y, x) PROVE y \in Kept /\ y # x
      OBVIOUS
    <3>1. x \in HeapEntry /\ y \in HeapEntry
      BY <1>3, <1>5
    <3> QED
      BY <1>7, <3>1, LessFacts
  <2>2. IsFiniteSet(Kept \ {x}) /\ Cardinality(Kept \ {x}) = Len(h) - 1
    BY <1>3, FS_RemoveElement
  <2> HIDE DEF nearer
  <2>3. IsFiniteSet(nearer(x)) /\ Cardinality(nearer(x)) <= Len(h) - 1
    BY <2>1, <2>2, FS_Subset
  <2>4. Cardinality(nearer(x)) \in Nat
    BY <2>3, FS_CardinalityType
  <2> QED
    BY <1>1, <1>2, <2>3, <2>4
<1>9. ASSUME NEW x \in E \ Kept PROVE ~(Cardinality(nearer(x)) < Capacity)
  <2>1. Kept \subseteq nearer(x) /\ nearer(x) \subseteq E
    BY <1>6, <1>7
  <2> HIDE DEF nearer
  <2>2. IsFiniteSet(nearer(x)) /\ Cardinality(nearer(x)) \in Nat
    BY <1>4, <2>1, FS_Subset, FS_CardinalityType
  <2>3. Cardinality(Kept) <= Cardinality(nearer(x))
    BY <2>1, <2>2, FS_Subset
  <2>4. Cardinality(Kept) = Capacity
    BY <1>3, <1>7 DEF Full
  <2> QED
    BY <1>2, <2>2, <2>3, <2>4
<1>10. Nearest(Wanted) = {e \in E : Cardinality(nearer(e)) < Capacity}
  BY DEF Nearest
<1> HIDE DEF nearer, E
<1> QED
  BY <1>6, <1>8, <1>9, <1>10

-----------------------------------------------------------------------------
\* The slots are always in the order the sift loops rely on, and no candidate that
\* belongs into the heap has been turned away.
THEOREM HeapInOrder == HeapSpec => []HeapInv
<1>1. HeapInit => HeapInv
  BY HeapInitOk
<1>2. HeapInv /\ [HeapNext]_heapVars => HeapInv'
  BY HeapNextKeeps
<1> QED
  BY <1>1, <1>2, PTL DEF HeapSpec

\* heap_offer keeps the k nearest of all it was offered, each once, whatever the
\* order of the offers and however often a point comes back.
THEOREM HeapHoldsNearest == HeapSpec => []HoldsNearest
<1>1. ASSUME HeapInv PROVE HoldsNearest
  <2>1. {h[i] : i \in DOMAIN h} = Nearest(offered \ {Excluded})
    BY <1>1, KeptIsNearest DEF Kept, Wanted
  <2>2. Len(h) = Cardinality(Held)
    BY <1>1, KeptFacts
  <2>3. sift = "idle" => \A i \in DOMAIN h : i > 1 => ~Less(h[Parent(i)], h[i])
    BY <1>1 DEF HeapInv, Shape, OrderedOn
  <2> QED
    BY <2>1, <2>2, <2>3 DEF HoldsNearest
<1>2. HeapInv => HoldsNearest
  BY <1>1
<1> QED
  BY <1>2, HeapInOrder, PTL

-----------------------------------------------------------------------------
\* Where there is room for one more entry, none is nearest out of reach.
LEMMA RoomKeepsAll ==
    ASSUME NEW all \in SUBSET HeapEntry, IsFiniteSet(all),
           Cardinality(all) <= Capacity
    PROVE  {x \in all : Cardinality({y \in all : Less(y, x)}) < Capacity} = all
<1> SUFFICES ASSUME NEW x \in all
             PROVE  Cardinality({y \in all : Less(y, x)}) < Capacity
  OBVIOUS
<1> DEFINE nearer == {y \in all : Less(y, x)}
<1>1. nearer \subseteq all \ {x}
  BY LessFacts
<1>2. IsFiniteSet(all \ {x}) /\ Cardinality(all \ {x}) = Cardinality(all) - 1
  BY FS_RemoveElement
<1>3. Cardinality(all) \in Nat /\ Capacity \in Nat
  BY FS_CardinalityType, HeapAssumption
<1> HIDE DEF nearer
<1>4. IsFiniteSet(nearer) /\ Cardinality(nearer) <= Cardinality(all) - 1
  BY <1>1, <1>2, FS_Subset
<1>5. Cardinality(nearer) < Capacity
  BY <1>3, <1>4, FS_CardinalityType
<1> QED
  BY <1>5 DEF nearer

\* Of one entry too many, only the farthest has all the others before it.
LEMMA FarthestLeaves ==
    ASSUME NEW all \in SUBSET HeapEntry, IsFiniteSet(all),
           Cardinality(all) = Capacity + 1,
           NEW far \in all, \A y \in all \ {far} : Less(y, far)
    PROVE  {x \in all : Cardinality({y \in all : Less(y, x)}) < Capacity} = all \ {far}
<1> DEFINE nearer(x) == {y \in all : Less(y, x)}
<1>1. Capacity \in Nat
  BY HeapAssumption
<1>2. IsFiniteSet(all \ {far}) /\ Cardinality(all \ {far}) = Capacity
  BY <1>1, FS_RemoveElement
<1>3. nearer(far) = all \ {far}
  BY LessFacts
<1>4. ASSUME NEW x \in all \ {far} PROVE Cardinality(nearer(x)) < Capacity
  <2>1. nearer(x) \subseteq (all \ {far}) \ {x}
    <3> SUFFICES ASSUME NEW y \in all, Less(y, x) PROVE y # far /\ y # x
      OBVIOUS
    <3>1. Less(x, far)
      OBVIOUS
    <3> QED
      BY <3>1, LessFacts
  <2>2. /\ IsFiniteSet((all \ {far}) \ {x})
        /\ Cardinality((all \ {far}) \ {x}) = Capacity - 1
    BY <1>2, FS_RemoveElement
  <2> HIDE DEF nearer
  <2>3. IsFiniteSet(nearer(x)) /\ Cardinality(nearer(x)) <= Capacity - 1
    BY <2>1, <2>2, FS_Subset
  <2> QED
    BY <1>1, <2>3, FS_CardinalityType
<1>5. ~(Cardinality(nearer(far)) < Capacity)
  BY <1>1, <1>2, <1>3
<1>6. {x \in all : Cardinality(nearer(x)) < Capacity} = all \ {far}
  <2> HIDE DEF nearer
  <2> QED
    BY <1>4, <1>5
<1> QED
  BY <1>6

\* TopK counts as this module does.
LEMMA SameCount == \A some : Best!Cardinality(some) = Cardinality(some)
BY DEF Cardinality, Best!Cardinality

\* A step of the heap is an offer to TopK, or leaves what is held alone.
LEMMA HeapStepIsOffer ==
    ASSUME HeapInv, [HeapNext]_heapVars
    PROVE  [Best!Next]_Kept
<1> DEFINE Entries == {e \in HeapEntry : e.id # Excluded}
           all(e) == Kept \cup {e}
           FirstOf(of) == {x \in of : Cardinality({y \in of : Less(y, x)}) < Capacity}
<1>1. HeapTypeOK
  BY DEF HeapInv
<1>2. /\ Len(h) \in Nat /\ Capacity \in Nat /\ Len(h) <= Capacity
      /\ Capacity > 0
  BY <1>1, HeapSlotFacts DEF HeapTypeOK
<1>3. IsFiniteSet(Kept) /\ Cardinality(Kept) = Len(h) /\ Kept \subseteq HeapEntry
  BY KeptFacts
<1>4. ASSUME NEW id \in Candidates, Offer(id), ~Dropped(id)
      PROVE  /\ EntryOf(id) \in Entries /\ EntryOf(id) \notin Kept
             /\ all(EntryOf(id)) \subseteq HeapEntry
             /\ IsFiniteSet(all(EntryOf(id)))
             /\ Cardinality(all(EntryOf(id))) = Len(h) + 1
  <2>1. id \notin Held /\ id # Excluded
    BY <1>4, TakenIsNew
  <2>2. EntryOf(id) \in HeapEntry /\ EntryOf(id).id = id
    BY <1>1, EntryFacts
  <2>3. EntryOf(id) \notin Kept
    BY <2>1, <2>2 DEF Kept, Held
  <2> HIDE DEF Entries
  <2>4. IsFiniteSet(all(EntryOf(id))) /\ Cardinality(all(EntryOf(id))) = Len(h) + 1
    BY <1>3, <2>3, FS_AddElement
  <2> USE DEF Entries
  <2> QED
    BY <1>3, <2>1, <2>2, <2>3, <2>4
<1>5. \A e \in Entries : Kept' = FirstOf(all(e)) => Best!Next
  BY SameCount DEF Best!Next, Best!Offer, Kept
<1>6. ASSUME NEW id \in Candidates, Offer(id), ~Dropped(id), Insert(id)
      PROVE  Best!Next
  <2> DEFINE e == EntryOf(id)
  <2>1. Kept' = all(e)
    BY <1>6, InsertKeeps DEF Kept
  <2>2. Len(h) < Capacity
    BY <1>2, <1>6 DEF Insert, Full
  <2>3. e \in Entries /\ all(e) \subseteq HeapEntry /\ IsFiniteSet(all(e))
        /\ Cardinality(all(e)) = Len(h) + 1
    BY <1>4, <1>6
  <2> HIDE DEF e, Entries
  <2>4. Cardinality(all(e)) <= Capacity
    BY <1>2, <2>2, <2>3
  <2>5. FirstOf(all(e)) = all(e)
    BY <2>3, <2>4, RoomKeepsAll
  <2> QED
    BY <1>5, <2>1, <2>3, <2>5
<1>7. ASSUME NEW id \in Candidates, Offer(id), ~Dropped(id), ReplaceRoot(id)
      PROVE  Best!Next
  <2> DEFINE e == EntryOf(id)
  <2>1. /\ Kept' = (Kept \ {h[1]}) \cup {e}
        /\ Full /\ h[1] \in Kept
        /\ \A y \in Kept \ {h[1]} : Less(y, h[1])
        /\ Less(e, h[1])
    BY <1>7, ReplaceRootKeeps DEF Kept
  <2>2. /\ e \in Entries /\ e \notin Kept
        /\ all(e) \subseteq HeapEntry /\ IsFiniteSet(all(e))
        /\ Cardinality(all(e)) = Len(h) + 1
    BY <1>4, <1>7
  <2> HIDE DEF e, Entries
  <2>3. Cardinality(all(e)) = Capacity + 1
    BY <2>1, <2>2 DEF Full
  <2>4. h[1] \in all(e) /\ \A y \in all(e) \ {h[1]} : Less(y, h[1])
    BY <2>1
  <2>5. FirstOf(all(e)) = all(e) \ {h[1]}
    BY <2>2, <2>3, <2>4, FarthestLeaves
  <2>6. all(e) \ {h[1]} = Kept'
    BY <2>1, <2>2
  <2> QED
    BY <1>5, <2>2, <2>5, <2>6
<1>8. CASE UNCHANGED heapVars
  BY <1>8 DEF heapVars, Kept
<1>9. ASSUME NEW id \in Candidates, Offer(id) PROVE [Best!Next]_Kept
  <2>1. CASE Dropped(id)
    BY <1>9, <2>1, DropKeeps DEF Kept
  <2> QED
    BY <1>6, <1>7, <1>9, <2>1, OfferCases
<1>10. CASE SiftUp
  BY <1>10, SiftUpKeeps DEF Kept
<1>11. CASE SiftDown
  BY <1>11, SiftDownKeeps DEF Kept
<1>12. CASE HeapEmit
  BY <1>12, EmitKeeps DEF Kept
<1> HIDE DEF Entries
<1> QED
  BY <1>8, <1>9, <1>10, <1>11, <1>12 DEF HeapNext

\* With the sift loops invisible, heap_offer is a bounded set that keeps the k
\* nearest: no layout of the array shows in what it holds.
THEOREM HeapImplementsTopK == HeapSpec => ImplementsTopK
<1>1. HeapInit => Best!Init
  BY DEF HeapInit, Best!Init
<1>2. HeapInv /\ [HeapNext]_heapVars => [Best!Next]_{h[i] : i \in DOMAIN h}
  BY HeapStepIsOffer DEF Kept
<1> QED
  BY <1>1, <1>2, HeapInOrder, PTL DEF HeapSpec, ImplementsTopK, Best!Spec

-----------------------------------------------------------------------------
\* The arguments of a scan.
RowOK ==
    /\ row \in Seq(0..Farthest) /\ row # <<>>
    /\ excluded \in -1..(Len(row) - 1)
    /\ asked \in Nat /\ asked >= 1
    /\ cutoff \in Int

\* What both k-NN scans return, and both range scans at a finite cutoff.
KnnRow ==
    LET ranked == Ranked(RowIds \ {excluded}, Raw)
    IN  [n \in 1..asked |-> IF n <= Len(ranked) THEN ranked[n] ELSE -1]
HitRow == Ranked({i \in RowIds \ {excluded} : Raw[i] <= cutoff}, Raw)

\* What exact_knn returns of a partition of kk columns.
Taken(part, kk) ==
    LET order == Ranked(Reselected(part, kk), Masked)
    IN  [n \in 1..asked |-> IF n <= kk /\ Masked[order[n]] < Inf THEN order[n] ELSE -1]

\* Every scan that has answered has given that row.
ScanInv ==
    /\ RowOK
    /\ "exact_knn" \in answered => pyKnn = KnnRow
    /\ "brute_knn" \in answered => rsKnn = KnnRow
    /\ "exact_radius" \in answered /\ cutoff < Inf => pyRadius = HitRow
    /\ "brute_radius" \in answered => rsRadius = HitRow

-----------------------------------------------------------------------------
\* The ids of a row and their distances, before and after the mask.
LEMMA RowFacts ==
    ASSUME RowOK
    PROVE  /\ Len(row) \in Nat /\ Len(row) >= 1
           /\ IsFiniteSet(RowIds) /\ Cardinality(RowIds) = Len(row)
           /\ Inf \in Nat
           /\ \A i \in RowIds : /\ i \in Nat /\ Raw[i] \in Nat /\ Raw[i] < Inf
                                /\ Masked[i] = (IF i = excluded THEN Inf ELSE Raw[i])
<1>1. row \in Seq(0..Farthest) /\ row # <<>> /\ Farthest \in Nat
  BY ScanAssumption DEF RowOK
<1>2. Len(row) \in Nat /\ Len(row) >= 1 /\ \A i \in 1..Len(row) : row[i] \in 0..Farthest
  BY <1>1, EmptySeq, LenProperties, ElementOfSeq
<1>3. RowIds = 0..(Len(row) - 1)
  BY DEF RowIds
<1>4. IsFiniteSet(RowIds) /\ Cardinality(RowIds) = Len(row)
  <2> DEFINE n == Len(row) - 1
  <2>1. n \in Int /\ 0 <= n /\ n - 0 + 1 = Len(row)
    BY <1>2
  <2> HIDE DEF n
  <2>2. IsFiniteSet(0..n) /\ Cardinality(0..n) = n - 0 + 1
    BY <2>1, FS_Interval
  <2> QED
    BY <1>3, <2>1, <2>2 DEF n
<1>5. ASSUME NEW i \in RowIds
      PROVE  /\ i \in Nat /\ Raw[i] \in Nat /\ Raw[i] < Inf
             /\ Masked[i] = (IF i = excluded THEN Inf ELSE Raw[i])
  <2>1. i \in Nat /\ i + 1 \in 1..Len(row)
    BY <1>2, <1>3
  <2>2. Raw[i] = row[i + 1] /\ Masked[i] = (IF i = excluded THEN Inf ELSE row[i + 1])
    BY DEF Raw, Masked
  <2> QED
    BY <1>1, <1>2, <2>1, <2>2 DEF Inf
<1> QED
  BY <1>1, <1>2, <1>4, <1>5 DEF Inf

\* Ranks of a row are those of the generic order.
LEMMA RowRanks ==
    ASSUME RowOK, NEW ids \in SUBSET RowIds, NEW d, d \in {Raw, Masked}
    PROVE  /\ Rankable(d, ids)
           /\ \A i, j : Nearer(d, i, j) <=> Closer(d, i, j)
           /\ \A i : Ahead(ids, d, i) = Cardinality(Passed(d, ids, i))
<1>1. IsFiniteSet(ids)
  BY RowFacts, FS_Subset
<1>2. \A i \in ids : i \in Int /\ d[i] \in Int
  BY RowFacts
<1>3. \A i, j : Nearer(d, i, j) <=> Closer(d, i, j)
  BY DEF Nearer, Closer
<1>4. \A i : {j \in ids : Nearer(d, j, i)} = Passed(d, ids, i)
  BY <1>3 DEF Passed
<1> QED
  BY <1>1, <1>2, <1>3, <1>4 DEF Rankable, Ahead

\* A ranked row lists its ids by the number nearer.
LEMMA RankedRow ==
    ASSUME RowOK, NEW ids \in SUBSET RowIds, NEW d, d \in {Raw, Masked}
    PROVE  /\ Cardinality(ids) \in Nat /\ Len(Ranked(ids, d)) = Cardinality(ids)
           /\ \A n \in 1..Cardinality(ids) :
                 /\ Ranked(ids, d)[n] \in ids
                 /\ Cardinality(Passed(d, ids, Ranked(ids, d)[n])) = n - 1
           /\ \A i \in ids : \E n \in 1..Cardinality(ids) : Ranked(ids, d)[n] = i
<1> DEFINE nth(n) == CHOOSE i \in ids : Ahead(ids, d, i) = n - 1
           s == [n \in 1..Cardinality(ids) |-> nth(n)]
           T == {nth(n) : n \in 1..Cardinality(ids)}
<1>1. Rankable(d, ids) /\ \A i \in ids : Ahead(ids, d, i) = Cardinality(Passed(d, ids, i))
  BY RowRanks
<1>2. Ranked(ids, d) = s
  BY DEF Ranked
<1>3. ASSUME NEW n \in 1..Cardinality(ids), NEW i \in ids, Cardinality(Passed(d, ids, i)) = n - 1
      PROVE  nth(n) \in ids /\ Cardinality(Passed(d, ids, nth(n))) = n - 1
  <2>1. \E x \in ids : Ahead(ids, d, x) = n - 1
    BY <1>1, <1>3
  <2>2. nth(n) \in ids /\ Ahead(ids, d, nth(n)) = n - 1
    BY <2>1
  <2> HIDE DEF nth
  <2> QED
    BY <1>1, <2>2
<1> HIDE DEF nth
<1>4. s \in [1..Cardinality(ids) -> T] /\ \A n \in 1..Cardinality(ids) : s[n] = nth(n)
  OBVIOUS
<1> HIDE DEF s, T
<1>5. ListsByRank(s, d, ids)
  BY <1>3, <1>4 DEF ListsByRank
<1>6. /\ Cardinality(ids) \in Nat
      /\ s \in [1..Cardinality(ids) -> ids]
      /\ \A i \in ids : \E n \in 1..Cardinality(ids) : s[n] = i
      /\ \A m, n \in 1..Cardinality(ids) : s[m] = s[n] => m = n
  <2>1. Rankable(d, ids)
    BY <1>1
  <2>2. s \in [1..Cardinality(ids) -> T]
    BY <1>4
  <2> QED
    BY ONLY <2>1, <2>2, <1>5, RankedFacts
<1>7. s \in Seq(ids) /\ Len(s) = Cardinality(ids)
  <2>1. s \in Seq(ids)
    BY <1>6, SeqDef
  <2> QED
    BY <1>6, <2>1, LenProperties
<1>8. ASSUME NEW n \in 1..Cardinality(ids)
      PROVE  s[n] \in ids /\ Cardinality(Passed(d, ids, s[n])) = n - 1
  <2>1. \E i \in ids : Cardinality(Passed(d, ids, i)) = n - 1
    BY <1>1, RanksTaken
  <2> QED
    BY <1>5, <2>1 DEF ListsByRank
<1> QED
  BY <1>2, <1>6, <1>7, <1>8

-----------------------------------------------------------------------------
\* Ids that come before everybody else are the nearest there are of their number.
LEMMA AheadOfRest ==
    ASSUME NEW g, NEW ids, Rankable(g, ids), NEW part \in SUBSET ids,
           \A i \in part, j \in ids \ part : Closer(g, i, j)
    PROVE  part = TopOf(g, ids, Cardinality(part))
<1>1. IsFiniteSet(ids) /\ IsFiniteSet(part) /\ Cardinality(part) \in Nat
  BY FS_Subset, FS_CardinalityType DEF Rankable
<1>2. ASSUME NEW i \in part PROVE Cardinality(Passed(g, ids, i)) < Cardinality(part)
  <2>1. Passed(g, ids, i) \subseteq part \ {i}
    BY CloserFacts DEF Passed
  <2>2. Cardinality(part \ {i}) = Cardinality(part) - 1 /\ IsFiniteSet(part \ {i})
    BY <1>1, FS_RemoveElement
  <2>3. Cardinality(Passed(g, ids, i)) <= Cardinality(part \ {i}) /\ Cardinality(Passed(g, ids, i)) \in Nat
    BY <2>1, <2>2, FS_Subset, FS_CardinalityType
  <2> QED
    BY <1>1, <2>2, <2>3
<1>3. ASSUME NEW j \in ids \ part PROVE ~(Cardinality(Passed(g, ids, j)) < Cardinality(part))
  <2>1. part \subseteq Passed(g, ids, j)
    BY DEF Passed
  <2>2. IsFiniteSet(Passed(g, ids, j)) /\ Cardinality(Passed(g, ids, j)) \in Nat
    BY PassedFacts
  <2>3. Cardinality(part) <= Cardinality(Passed(g, ids, j))
    BY <2>1, <2>2, FS_Subset
  <2> QED
    BY <1>1, <2>2, <2>3
<1> QED
  BY <1>2, <1>3 DEF TopOf

\* Nobody above a bar is among the nearest k, when k are at or below it.
LEMMA BarKeepsTop ==
    ASSUME NEW g, NEW ids, Rankable(g, ids), NEW k \in Nat, NEW bar \in Int,
           NEW pool, pool = {i \in ids : g[i] <= bar}, Cardinality(pool) >= k
    PROVE  TopOf(g, pool, k) = TopOf(g, ids, k)
<1>1. IsFiniteSet(pool) /\ pool \subseteq ids /\ Cardinality(pool) \in Nat
  BY FS_Subset, FS_CardinalityType DEF Rankable
<1>2. ASSUME NEW i \in pool PROVE Passed(g, ids, i) = Passed(g, pool, i)
  BY DEF Passed, Closer, Rankable
<1>3. ASSUME NEW j \in ids \ pool PROVE ~(Cardinality(Passed(g, ids, j)) < k)
  <2>1. pool \subseteq Passed(g, ids, j)
    BY DEF Passed, Closer, Rankable
  <2>2. IsFiniteSet(Passed(g, ids, j)) /\ Cardinality(Passed(g, ids, j)) \in Nat
    BY PassedFacts
  <2>3. Cardinality(pool) <= Cardinality(Passed(g, ids, j))
    BY <2>1, <2>2, FS_Subset
  <2> QED
    BY <1>1, <2>2, <2>3
<1> QED
  BY <1>1, <1>2, <1>3 DEF TopOf

\* Whatever argpartition kept, after the repair it is the nearest kk.
LEMMA SelectedAreNearest ==
    ASSUME RowOK, NEW kk \in 1..Len(row), NEW part \in Partitions(kk)
    PROVE  Reselected(part, kk) = TopOf(Masked, RowIds, kk)
<1> DEFINE kth == Max({Masked[i] : i \in part})
           tied(ids) == Cardinality({i \in ids : Masked[i] = kth})
           pool == {i \in RowIds : Masked[i] <= kth}
<1>1. /\ Rankable(Masked, RowIds)
      /\ \A i, j : Nearer(Masked, i, j) <=> Closer(Masked, i, j)
  BY RowRanks
<1>2. \A i : Ahead(pool, Masked, i) = Cardinality(Passed(Masked, pool, i))
  BY RowRanks
<1>3. kk \in Nat /\ kk >= 1 /\ Len(row) \in Nat
  BY RowFacts
<1>4. CASE kk = 1
  <2>1. part = {i \in RowIds : \A j \in RowIds \ {i} : Closer(Masked, i, j)}
    BY <1>1, <1>4 DEF Partitions
  <2>2. PICK i \in RowIds : Cardinality(Passed(Masked, RowIds, i)) = 0
    <3>1. 1 \in 1..Cardinality(RowIds)
      BY RowFacts
    <3>2. \E i \in RowIds : Cardinality(Passed(Masked, RowIds, i)) = 1 - 1
      BY <1>1, <3>1, RanksTaken
    <3> QED
      BY <3>2
  <2>3. Passed(Masked, RowIds, i) = {}
    BY <1>1, <2>2, PassedFacts, FS_EmptySet
  <2>4. \A j \in RowIds \ {i} : Closer(Masked, i, j)
    BY <1>1, <2>3, CloserFacts DEF Passed
  <2>5. part = {i}
    <3>1. \A j \in RowIds : j # i => ~Closer(Masked, j, i)
      BY <1>1, <2>4, CloserFacts
    <3> QED
      BY <2>1, <2>4, <3>1
  <2>6. Cardinality(part) = 1
    BY <2>5, FS_Singleton
  <2>7. part \subseteq RowIds /\ \A x \in part, j \in RowIds \ part : Closer(Masked, x, j)
    BY <2>4, <2>5
  <2>8. part = TopOf(Masked, RowIds, 1)
    BY <1>1, <2>6, <2>7, AheadOfRest
  <2>9. Reselected(part, kk) = part
    BY <1>4 DEF Reselected
  <2> QED
    BY <1>4, <2>8, <2>9
<1>5. CASE kk > 1
  <2>1. /\ part \subseteq RowIds /\ IsFiniteSet(part) /\ Cardinality(part) = kk
        /\ \A i \in part, j \in RowIds \ part : Masked[i] <= Masked[j]
    <3>1. part \in kSubset(kk, RowIds) /\ \A i \in part, j \in RowIds \ part : Masked[i] <= Masked[j]
      BY <1>3, <1>5 DEF Partitions
    <3>2. part \in SUBSET RowIds /\ Cardinality(part) = kk
      BY <3>1 DEF kSubset
    <3> QED
      BY <3>1, <3>2, RowFacts, FS_Subset
  <2>2. \A i \in RowIds : Masked[i] \in Int /\ i \in Int
    BY <1>1 DEF Rankable
  <2>3. kth \in Int /\ (\E i \in part : Masked[i] = kth) /\ \A i \in part : Masked[i] <= kth
    <3> DEFINE X == {Masked[i] : i \in part}
    <3>1. IsFiniteSet(X)
      <4> DEFINE f == [i \in part |-> Masked[i]]
      <4>1. f \in Surjection(part, X)
        BY DEF Surjection
      <4> HIDE DEF f, X
      <4> QED
        BY <2>1, <4>1, FS_Surjection
    <3>2. X # {}
      <4>1. part # {}
        BY <1>3, <1>5, <2>1, FS_EmptySet
      <4> QED
        BY <4>1
    <3>3. \A x \in X : x \in Int
      BY <2>1, <2>2
    <3> HIDE DEF X
    <3>4. Max(X) \in X /\ \A y \in X : Max(X) >= y
      BY ONLY <3>1, <3>2, <3>3, Extremes
    <3>5. kth = Max(X)
      BY DEF X
    <3> HIDE DEF kth
    <3> QED
      BY <3>3, <3>4, <3>5 DEF X
  <2>4. Reselected(part, kk) = IF tied(RowIds) > tied(part)
                               THEN {i \in pool : Ahead(pool, Masked, i) < kk} ELSE part
    BY <1>5 DEF Reselected
  <2> HIDE DEF kth
  <2>5. CASE tied(RowIds) > tied(part)
    <3>1. part \subseteq pool /\ pool \subseteq RowIds
      BY <2>1, <2>3
    <3>2. Cardinality(pool) >= kk
      BY <2>1, <3>1, RowFacts, FS_Subset, FS_CardinalityType
    <3>3. TopOf(Masked, pool, kk) = TopOf(Masked, RowIds, kk)
      <4>1. pool = {i \in RowIds : Masked[i] <= kth}
        OBVIOUS
      <4> HIDE DEF pool
      <4> QED
        BY ONLY <1>1, <1>3, <2>3, <3>2, <4>1, BarKeepsTop
    <3> QED
      BY <1>2, <2>4, <2>5, <3>3 DEF TopOf
  <2>6. CASE ~(tied(RowIds) > tied(part))
    <3> DEFINE X == {i \in RowIds : Masked[i] = kth}
               Y == {i \in part : Masked[i] = kth}
    <3>1. IsFiniteSet(X) /\ IsFiniteSet(Y) /\ Y \subseteq X
      BY <2>1, RowFacts, FS_Subset
    <3>2. Cardinality(X) <= Cardinality(Y)
      <4>1. Cardinality(X) \in Nat /\ Cardinality(Y) \in Nat
        BY <3>1, FS_CardinalityType
      <4> QED
        BY <2>6, <4>1
    <3>3. X = Y
      <4> HIDE DEF X, Y
      <4> QED
        BY <3>1, <3>2, FS_Subset, FS_CardinalityType
    <3>4. ASSUME NEW i \in part, NEW j \in RowIds \ part PROVE Closer(Masked, i, j)
      <4>1. Masked[j] # kth
        BY <3>3
      <4>2. kth <= Masked[j]
        BY <2>1, <2>3
      <4>3. Masked[i] <= kth
        BY <2>3
      <4> QED
        BY <2>1, <2>2, <2>3, <4>1, <4>2, <4>3 DEF Closer
    <3>5. part = TopOf(Masked, RowIds, kk)
      BY <1>1, <2>1, <3>4, AheadOfRest
    <3> QED
      BY <2>4, <2>6, <3>5
  <2> QED
    BY <2>5, <2>6
<1> QED
  BY <1>3, <1>4, <1>5

\* The nearest kk keep their ranks among themselves, and there are kk of them.
LEMMA NearestKeepRank ==
    ASSUME NEW g, NEW ids, Rankable(g, ids), NEW k \in 1..Cardinality(ids)
    PROVE  /\ Cardinality(TopOf(g, ids, k)) = k
           /\ \A i \in TopOf(g, ids, k) : Passed(g, TopOf(g, ids, k), i) = Passed(g, ids, i)
<1> DEFINE top == TopOf(g, ids, k)
<1>1. /\ IsFiniteSet(ids) /\ Cardinality(ids) \in Nat /\ k \in Nat /\ top \subseteq ids
      /\ \A i \in ids : Cardinality(Passed(g, ids, i)) \in Nat
  BY PassedFacts, FS_CardinalityType DEF Rankable, TopOf
<1>2. ASSUME NEW i \in top PROVE Passed(g, top, i) = Passed(g, ids, i)
  <2>1. ASSUME NEW j \in Passed(g, ids, i) PROVE j \in top
    <3>1. j \in ids /\ Closer(g, j, i) /\ i \in ids
      BY <1>1, <1>2 DEF Passed
    <3>2. Cardinality(Passed(g, ids, j)) < Cardinality(Passed(g, ids, i))
      BY <3>1, PassedFacts
    <3>3. Cardinality(Passed(g, ids, i)) < k
      BY <1>2 DEF TopOf
    <3> QED
      BY <1>1, <3>1, <3>2, <3>3 DEF TopOf
  <2> QED
    BY <1>1, <2>1 DEF Passed
<1>3. Rankable(g, top)
  BY <1>1, FS_Subset DEF Rankable
<1>4. Cardinality(top) \in Nat
  BY <1>3, FS_CardinalityType DEF Rankable
<1>5. Cardinality(top) >= k
  <2>1. PICK i \in ids : Cardinality(Passed(g, ids, i)) = k - 1
    BY RanksTaken
  <2>2. i \in top
    BY <1>1, <2>1 DEF TopOf
  <2>3. i \notin Passed(g, top, i)
    BY <1>3, <2>2, CloserFacts DEF Passed
  <2>4. Passed(g, top, i) \subseteq top /\ Cardinality(Passed(g, top, i)) = k - 1
    BY <1>2, <2>1, <2>2 DEF Passed
  <2>5. IsFiniteSet(Passed(g, top, i))
    BY <1>3, PassedFacts
  <2> DEFINE P == Passed(g, top, i)
  <2> HIDE DEF P, top
  <2>6. Cardinality(P \cup {i}) = Cardinality(P) + 1 /\ P \cup {i} \subseteq top
    BY <2>2, <2>3, <2>4, <2>5, FS_AddElement DEF P
  <2>7. Cardinality(P \cup {i}) <= Cardinality(top)
    BY <1>3, <2>6, FS_Subset DEF Rankable
  <2> QED
    BY <1>1, <2>4, <2>6, <2>7 DEF P
<1>6. Cardinality(top) <= k
  <2> SUFFICES ASSUME Cardinality(top) >= k + 1 PROVE FALSE
    BY <1>1, <1>4
  <2>1. k + 1 \in 1..Cardinality(top)
    BY <1>1, <1>4
  <2>2. PICK i \in top : Cardinality(Passed(g, top, i)) = (k + 1) - 1
    <3> HIDE DEF top
    <3> QED
      BY <1>3, <2>1, RanksTaken
  <2>3. Cardinality(Passed(g, ids, i)) = k
    BY <1>1, <1>2, <2>2
  <2> QED
    BY <1>1, <2>3 DEF TopOf
<1> QED
  BY <1>1, <1>2, <1>4, <1>5, <1>6

\* The mask moves the excluded id behind every other and leaves their order.
LEMMA MaskPassed ==
    ASSUME RowOK, NEW x \in RowIds
    PROVE  /\ x # excluded => Passed(Masked, RowIds, x) = Passed(Raw, RowIds \ {excluded}, x)
           /\ x = excluded => Passed(Masked, RowIds, x) = RowIds \ {excluded}
<1>1. /\ x \in Nat /\ Raw[x] \in Nat /\ Raw[x] < Inf /\ Inf \in Nat
      /\ Masked[x] = (IF x = excluded THEN Inf ELSE Raw[x])
  BY RowFacts
<1>2. ASSUME NEW j \in RowIds, x # excluded
      PROVE  Closer(Masked, j, x) <=> j # excluded /\ Closer(Raw, j, x)
  <2>1. /\ Raw[j] \in Nat /\ Masked[j] = (IF j = excluded THEN Inf ELSE Raw[j])
        /\ Masked[x] = Raw[x]
    BY <1>1, <1>2, RowFacts
  <2> QED
    BY <1>1, <2>1 DEF Closer
<1>3. ASSUME NEW j \in RowIds, x = excluded
      PROVE  Closer(Masked, j, x) <=> j # excluded
  <2>1. /\ Raw[j] \in Nat /\ Raw[j] < Inf /\ Masked[x] = Inf /\ j \in Nat
        /\ Masked[j] = (IF j = excluded THEN Inf ELSE Raw[j])
    BY <1>1, <1>3, RowFacts
  <2> QED
    BY <1>1, <1>3, <2>1 DEF Closer
<1>4. x # excluded => Passed(Masked, RowIds, x) = Passed(Raw, RowIds \ {excluded}, x)
  BY <1>2 DEF Passed
<1>5. x = excluded => Passed(Masked, RowIds, x) = RowIds \ {excluded}
  BY <1>3 DEF Passed
<1> QED
  BY <1>4, <1>5

\* The masked scan's row, blanked where it is infinite, is the skipping scan's.
LEMMA MaskedRow ==
    ASSUME RowOK, NEW part \in Partitions(Min({asked, Len(row)}))
    PROVE  Taken(part, Min({asked, Len(row)})) = KnnRow
<1> DEFINE kk == Min({asked, Len(row)})
           order == Ranked(Reselected(part, kk), Masked)
<1>a. part \in Partitions(kk) /\ kk = Min({asked, Len(row)})
  OBVIOUS
<1>b. order = Ranked(Reselected(part, kk), Masked)
  OBVIOUS
<1>c. Taken(part, kk) = [n \in 1..asked |->
                            IF n <= kk /\ Masked[order[n]] < Inf THEN order[n] ELSE -1]
  BY DEF Taken
<1> HIDE DEF kk, order
<1> DEFINE others == RowIds \ {excluded}
           c == Cardinality(others)
           ranked == Ranked(others, Raw)
           top == TopOf(Masked, RowIds, kk)
<1>1. asked \in Nat /\ asked >= 1 /\ Len(row) \in Nat /\ Len(row) >= 1
  BY RowFacts DEF RowOK
<1>2. kk = (IF asked <= Len(row) THEN asked ELSE Len(row)) /\ kk \in 1..Len(row)
  BY <1>1, <1>a, LesserOf
<1>3. others \in SUBSET RowIds /\ IsFiniteSet(others) /\ c \in Nat /\ c <= Len(row)
  BY RowFacts, FS_Subset, FS_CardinalityType
<1>4. Rankable(Masked, RowIds) /\ Rankable(Raw, others) /\ top \in SUBSET RowIds
  BY <1>3, RowRanks DEF TopOf
<1>5. Cardinality(top) = kk /\ \A i \in top : Passed(Masked, top, i) = Passed(Masked, RowIds, i)
  <2>1. kk \in 1..Cardinality(RowIds)
    BY <1>2, RowFacts
  <2> QED
    BY <1>4, <2>1, NearestKeepRank
<1>6. order = Ranked(top, Masked)
  BY <1>2, <1>a, <1>b, SelectedAreNearest
<1> HIDE DEF top, others
<1>7. \A n \in 1..kk : order[n] \in RowIds /\ Cardinality(Passed(Masked, RowIds, order[n])) = n - 1
  <2>1. \A n \in 1..Cardinality(top) :
           order[n] \in top /\ Cardinality(Passed(Masked, top, order[n])) = n - 1
    BY <1>4, <1>6, RankedRow
  <2> QED
    BY <1>4, <1>5, <2>1
<1>8. /\ Len(ranked) = c
      /\ \A n \in 1..c : Cardinality(Passed(Raw, others, ranked[n])) = n - 1
      /\ \A i \in others : \E n \in 1..c : ranked[n] = i
  BY <1>3, RankedRow
<1>9. \A i \in RowIds : /\ Raw[i] \in Nat /\ Raw[i] < Inf /\ i \in Nat
                        /\ Masked[i] = (IF i = excluded THEN Inf ELSE Raw[i])
  BY RowFacts
<1>10. Inf \in Nat
  BY RowFacts
<1> HIDE DEF ranked
<1>11. ASSUME NEW n \in 1..asked
       PROVE  (IF n <= kk /\ Masked[order[n]] < Inf THEN order[n] ELSE -1)
                 = IF n <= Len(ranked) THEN ranked[n] ELSE -1
  <2> DEFINE x == order[n]
  <2>1. CASE n <= kk /\ x # excluded
    <3>1. x \in RowIds /\ Cardinality(Passed(Masked, RowIds, x)) = n - 1
      <4>1. n \in 1..kk
        BY <1>1, <1>2, <2>1
      <4> QED
        BY <1>7, <4>1
    <3>2. x \in others /\ Masked[x] = Raw[x] /\ Masked[x] < Inf
      BY <1>9, <2>1, <3>1 DEF others
    <3>3. Passed(Masked, RowIds, x) = Passed(Raw, others, x)
      <4> HIDE DEF x
      <4> QED
        BY <2>1, <3>1, MaskPassed DEF others
    <3>4. PICK m \in 1..c : ranked[m] = x
      BY <1>8, <3>2
    <3>5. Cardinality(Passed(Raw, others, x)) = m - 1
      BY <1>8, <3>4
    <3>6. m = n
      BY <3>1, <3>3, <3>5
    <3> QED
      BY <1>3, <1>8, <2>1, <3>2, <3>4, <3>6
  <2>2. CASE n <= kk /\ x = excluded
    <3>1. x \in RowIds /\ Cardinality(Passed(Masked, RowIds, x)) = n - 1 /\ Masked[x] = Inf
      <4>1. n \in 1..kk
        BY <1>1, <1>2, <2>2
      <4>2. x \in RowIds /\ Cardinality(Passed(Masked, RowIds, x)) = n - 1
        BY <1>7, <4>1
      <4> HIDE DEF x
      <4> QED
        BY <1>9, <2>2, <4>2
    <3>2. Passed(Masked, RowIds, x) = others
      <4> HIDE DEF x
      <4> QED
        BY <2>2, <3>1, MaskPassed DEF others
    <3>3. ~(n <= Len(ranked)) /\ ~(Masked[x] < Inf)
      BY <1>3, <1>8, <1>10, <3>1, <3>2
    <3> QED
      BY <3>3
  <2>3. CASE ~(n <= kk)
    <3>1. ~(n <= Len(ranked))
      BY <1>1, <1>2, <1>3, <1>8, <2>3
    <3> QED
      BY <2>3, <3>1
  <2> QED
    BY <2>1, <2>2, <2>3
<1>12. Taken(part, kk) = KnnRow
  BY <1>11, <1>c DEF KnnRow, ranked, others
<1> QED
  BY <1>12, <1>a

\* At a finite cutoff the mask keeps the excluded id out of the hits.
LEMMA MaskedHits ==
    ASSUME RowOK, cutoff < Inf
    PROVE  Ranked({i \in RowIds : Masked[i] <= cutoff}, Masked) = HitRow
<1> DEFINE hits == {i \in RowIds \ {excluded} : Raw[i] <= cutoff}
           py == Ranked(hits, Masked)
           rs == Ranked(hits, Raw)
           c == Cardinality(hits)
<1>1. /\ \A i \in RowIds : /\ Raw[i] \in Nat /\ Raw[i] < Inf /\ i \in Nat
                           /\ Masked[i] = (IF i = excluded THEN Inf ELSE Raw[i])
      /\ Inf \in Nat /\ cutoff \in Int
  BY RowFacts DEF RowOK
<1>2. {i \in RowIds : Masked[i] <= cutoff} = hits
  BY <1>1
<1>3. hits \in SUBSET RowIds /\ \A i \in hits : Masked[i] = Raw[i]
  BY <1>1
<1> HIDE DEF hits
<1>4. Rankable(Masked, hits) /\ Rankable(Raw, hits)
  BY <1>3, RowRanks
<1>5. \A n \in 1..c : py[n] \in hits /\ Cardinality(Passed(Masked, hits, py[n])) = n - 1
  BY <1>3, RankedRow
<1>6. \A n \in 1..c : rs[n] \in hits /\ Cardinality(Passed(Raw, hits, rs[n])) = n - 1
  BY <1>3, RankedRow
<1>7. \A i \in hits : Passed(Masked, hits, i) = Passed(Raw, hits, i)
  BY <1>3 DEF Passed, Closer
<1>8. py = [n \in 1..c |-> py[n]] /\ rs = [n \in 1..c |-> rs[n]]
  BY DEF Ranked
<1> HIDE DEF py, rs
<1>9. ASSUME NEW n \in 1..c PROVE py[n] = rs[n]
  <2> DEFINE x == py[n]
             y == rs[n]
  <2>1. /\ x \in hits /\ y \in hits
        /\ Cardinality(Passed(Raw, hits, x)) = n - 1 /\ Cardinality(Passed(Raw, hits, y)) = n - 1
    BY <1>5, <1>6, <1>7
  <2> HIDE DEF x, y
  <2>2. /\ x = y \/ Closer(Raw, x, y) \/ Closer(Raw, y, x)
        /\ Closer(Raw, x, y) => Cardinality(Passed(Raw, hits, x)) < Cardinality(Passed(Raw, hits, y))
        /\ Closer(Raw, y, x) => Cardinality(Passed(Raw, hits, y)) < Cardinality(Passed(Raw, hits, x))
    BY <1>4, <2>1, CloserFacts, PassedFacts
  <2>3. n \in Int
    OBVIOUS
  <2>4. x = y
    BY <2>1, <2>2, <2>3
  <2> QED
    BY <2>4 DEF x, y
<1>10. py = rs
  BY <1>8, <1>9
<1> QED
  BY <1>2, <1>10 DEF HitRow, py, rs, hits

\* No scan has answered at the start.
LEMMA ScanBegins == ScanInit => ScanInv
<1> SUFFICES ASSUME ScanInit PROVE ScanInv
  OBVIOUS
<1>1. PICK m \in 1..RowLength : row \in [1..m -> 0..Farthest]
  BY DEF ScanInit
<1>2. m \in Nat /\ m >= 1
  BY ScanAssumption, <1>1
<1>3. row \in Seq(0..Farthest) /\ Len(row) = m
  <2>1. row \in Seq(0..Farthest)
    BY <1>1, <1>2, SeqDef, Zenon
  <2>2. Len(row) \in Nat /\ DOMAIN row = 1..Len(row) /\ DOMAIN row = 1..m
    BY <1>1, <2>1, LenProperties
  <2> DEFINE l == Len(row)
  <2> HIDE DEF l
  <2>3. l \in Nat /\ 1..l = 1..m
    BY <2>2, Zenon DEF l
  <2>4. m \in 1..l /\ m <= l
    BY <1>2, <2>3
  <2>5. l \in 1..m
    BY <1>2, <2>3, <2>4
  <2>6. Len(row) = m
    BY <1>2, <2>3, <2>4, <2>5 DEF l
  <2> QED
    BY <2>1, <2>6
<1>4. row # <<>>
  BY <1>2, <1>3
<1>5. asked \in Nat /\ asked >= 1
  BY ScanAssumption DEF ScanInit
<1>6. cutoff \in Int
  BY ScanAssumption DEF ScanInit, Inf
<1>7. excluded \in -1..(Len(row) - 1) /\ answered = {}
  BY DEF ScanInit
<1>8. RowOK
  BY <1>3, <1>4, <1>5, <1>6, <1>7 DEF RowOK
<1> QED
  BY <1>7, <1>8 DEF ScanInv

\* The arguments stay, and with them the rows they determine.
LEMMA ScanArgumentsStay ==
    ASSUME RowOK, UNCHANGED scanInput
    PROVE  RowOK' /\ KnnRow' = KnnRow /\ HitRow' = HitRow /\ Inf' = Inf
<1>1. row' = row /\ excluded' = excluded /\ asked' = asked /\ cutoff' = cutoff
  BY DEF scanInput
<1>2. RowIds' = RowIds
  BY <1>1 DEF RowIds
<1>3. Raw' = Raw
  BY <1>1, <1>2 DEF Raw
<1> QED
  BY <1>1, <1>2, <1>3 DEF RowOK, KnnRow, HitRow, Ranked, Ahead, Nearer, Inf

\* exact_knn answers with the k-NN row, whichever partition argpartition chose.
LEMMA ExactKnnStep == ScanInv /\ ExactKnn => ScanInv'
<1> SUFFICES ASSUME ScanInv, ExactKnn PROVE ScanInv'
  OBVIOUS
<1>1. RowOK /\ UNCHANGED <<scanInput, rsKnn, pyRadius, rsRadius>>
      /\ answered' = answered \cup {"exact_knn"}
  BY DEF ScanInv, ExactKnn
<1>2. RowOK' /\ KnnRow' = KnnRow /\ HitRow' = HitRow /\ cutoff' = cutoff
  BY <1>1, ScanArgumentsStay DEF scanInput
<1> DEFINE kk == Min({asked, Len(row)})
<1>3. PICK part \in Partitions(kk) : pyKnn' = Taken(part, kk)
  BY DEF ExactKnn, Taken
<1>4. Taken(part, kk) = KnnRow
  BY <1>1, MaskedRow
<1>6. pyKnn' = KnnRow
  BY <1>3, <1>4
<1> QED
  BY <1>1, <1>2, <1>6 DEF ScanInv, Inf

\* brute_knn answers with the k-NN row.
LEMMA BruteKnnStep == ScanInv /\ BruteKnn => ScanInv'
<1> SUFFICES ASSUME ScanInv, BruteKnn PROVE ScanInv'
  OBVIOUS
<1>1. RowOK /\ UNCHANGED <<scanInput, pyKnn, pyRadius, rsRadius>>
      /\ answered' = answered \cup {"brute_knn"} /\ rsKnn' = KnnRow
  BY DEF ScanInv, BruteKnn, KnnRow
<1>2. RowOK' /\ KnnRow' = KnnRow /\ HitRow' = HitRow /\ cutoff' = cutoff
  BY <1>1, ScanArgumentsStay DEF scanInput
<1> QED
  BY <1>1, <1>2 DEF ScanInv, Inf

\* exact_radius answers with the hits, at a finite cutoff.
LEMMA ExactRadiusStep == ScanInv /\ ExactRadius => ScanInv'
<1> SUFFICES ASSUME ScanInv, ExactRadius PROVE ScanInv'
  OBVIOUS
<1>1. RowOK /\ UNCHANGED <<scanInput, pyKnn, rsKnn, rsRadius>>
      /\ answered' = answered \cup {"exact_radius"}
      /\ pyRadius' = Ranked({i \in RowIds : Masked[i] <= cutoff}, Masked)
  BY DEF ScanInv, ExactRadius
<1>2. RowOK' /\ KnnRow' = KnnRow /\ HitRow' = HitRow /\ cutoff' = cutoff
  BY <1>1, ScanArgumentsStay DEF scanInput
<1>3. cutoff < Inf => pyRadius' = HitRow
  BY <1>1, MaskedHits
<1> QED
  BY <1>1, <1>2, <1>3 DEF ScanInv, Inf

\* brute_radius answers with the hits.
LEMMA BruteRadiusStep == ScanInv /\ BruteRadius => ScanInv'
<1> SUFFICES ASSUME ScanInv, BruteRadius PROVE ScanInv'
  OBVIOUS
<1>1. RowOK /\ UNCHANGED <<scanInput, pyKnn, rsKnn, pyRadius>>
      /\ answered' = answered \cup {"brute_radius"} /\ rsRadius' = HitRow
  BY DEF ScanInv, BruteRadius, HitRow
<1>2. RowOK' /\ KnnRow' = KnnRow /\ HitRow' = HitRow /\ cutoff' = cutoff
  BY <1>1, ScanArgumentsStay DEF scanInput
<1> QED
  BY <1>1, <1>2 DEF ScanInv, Inf

\* Each scan answers with the row its arguments determine, in whatever order the
\* scans run: the inductive invariant of the exact path.
THEOREM ScansHold == ScanSpec => []ScanInv
<1>1. ScanInit => ScanInv
  BY ScanBegins
<1>2. ScanInv /\ [ScanNext]_scanVars => ScanInv'
  <2> SUFFICES ASSUME ScanInv, [ScanNext]_scanVars PROVE ScanInv'
    OBVIOUS
  <2>1. CASE ExactKnn
    BY <2>1, ExactKnnStep
  <2>2. CASE BruteKnn
    BY <2>2, BruteKnnStep
  <2>3. CASE ExactRadius
    BY <2>3, ExactRadiusStep
  <2>4. CASE BruteRadius
    BY <2>4, BruteRadiusStep
  <2>5. CASE UNCHANGED scanVars
    <3>1. UNCHANGED scanInput /\ UNCHANGED <<answered, pyKnn, rsKnn, pyRadius, rsRadius>>
      BY <2>5 DEF scanVars, scanInput
    <3>2. RowOK' /\ KnnRow' = KnnRow /\ HitRow' = HitRow /\ cutoff' = cutoff
      BY <3>1, ScanArgumentsStay DEF scanInput, ScanInv
    <3> QED
      BY <3>1, <3>2 DEF ScanInv, Inf
  <2> QED
    BY <2>1, <2>2, <2>3, <2>4, <2>5 DEF ScanNext
<1> QED
  BY <1>1, <1>2, PTL DEF ScanSpec

\* An exact answer does not tell which backend gave it (brute.py, exact_knn and
\* exact_radius; lib.rs, brute_knn and brute_radius).
THEOREM ScansSame == ScanSpec => []ScansAgree
<1>1. ScanInv => ScansAgree
  BY DEF ScanInv, ScansAgree
<1> QED
  BY <1>1, ScansHold, PTL
=============================================================================
