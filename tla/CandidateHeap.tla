---------------------------- MODULE CandidateHeap ----------------------------
(***************************************************************************)
(* heap_offer and heap_emit of lib.rs: the bounded max-heap that keeps one *)
(* query's nearest candidates while buckets are scored in any order.  The  *)
(* sift loops are steps of their own.  heap_offer_64, the heap of the      *)
(* exact scan, is the same program without the search for a held id: its   *)
(* caller offers every id once.                                            *)
(***************************************************************************)
EXTENDS Integers, Sequences, FiniteSetsExt, SequencesExt

CONSTANTS Capacity,   \* k, the slots of the heap
          Candidates, \* the ids that may be offered, numbers
          MaxDist,    \* distances are 0..MaxDist
          Excluded,   \* the query's excluded id, -1 for none
          Dedupes     \* whether an id already held is searched for

ASSUME HeapAssumption ==
    /\ Capacity \in Nat \ {0}
    /\ Candidates \subseteq Nat
    /\ MaxDist \in Nat
    /\ Excluded \in Int
    /\ Dedupes \in BOOLEAN

VARIABLES dist,      \* the query's distance to every candidate
          h,         \* the occupied slots, h[1] the root
          sift,      \* "idle", or the direction an entry is moving in
          at,        \* its slot, 0 when idle
          offered    \* history: the ids offered so far

heapVars == <<dist, h, sift, at, offered>>

HeapEntry == [dist : 0..MaxDist, id : Candidates]
EntryOf(id) == [dist |-> dist[id], id |-> id]

\* hless.
Less(x, y) == x.dist < y.dist \/ (x.dist = y.dist /\ x.id < y.id)

Held == {h[i].id : i \in DOMAIN h}

Full == Len(h) = Capacity
Parent(i) == i \div 2
Swapped(i, j) == [h EXCEPT ![i] = h[j], ![j] = h[i]]

-----------------------------------------------------------------------------
HeapInit ==
    /\ dist \in [Candidates -> 0..MaxDist]
    /\ h = <<>>
    /\ sift = "idle"
    /\ at = 0
    /\ offered = {}

\* score_tile's test and heap_offer up to the sift loop.
Insert(id) ==
    /\ ~Full
    /\ h' = Append(h, EntryOf(id))
    /\ sift' = "up"
    /\ at' = Len(h) + 1

ReplaceRoot(id) ==
    /\ Full
    /\ Less(EntryOf(id), h[1])
    /\ h' = [h EXCEPT ![1] = EntryOf(id)]
    /\ sift' = "down"
    /\ at' = 1

\* Mutant: a held id is not looked for.
Dropped_Undeduped(id) ==
    \/ id = Excluded
    \/ Full /\ ~Less(EntryOf(id), h[1])

Dropped(id) ==
    \/ id = Excluded
    \/ Full /\ ~Less(EntryOf(id), h[1])
    \/ Dedupes /\ id \in Held

Offer(id) ==
    /\ sift = "idle"
    /\ Dedupes \/ id \notin offered
    /\ offered' = offered \cup {id}
    /\ IF Dropped(id) THEN UNCHANGED <<h, sift, at>> ELSE Insert(id) \/ ReplaceRoot(id)
    /\ UNCHANGED dist

\* One turn of the loop that carries a new last entry towards the root.
SiftUp ==
    /\ sift = "up"
    /\ IF at > 1 /\ Less(h[Parent(at)], h[at])
       THEN h' = Swapped(at, Parent(at)) /\ at' = Parent(at) /\ UNCHANGED sift
       ELSE sift' = "idle" /\ at' = 0 /\ UNCHANGED h
    /\ UNCHANGED <<dist, offered>>

\* The largest of slot i and its children.
Largest(i) ==
    CHOOSE j \in {i, 2 * i, 2 * i + 1} \cap DOMAIN h :
        \A m \in {i, 2 * i, 2 * i + 1} \cap DOMAIN h : ~Less(h[j], h[m])

\* One turn of the loop that carries a new root towards the leaves.
SiftDown ==
    /\ sift = "down"
    /\ IF Largest(at) # at
       THEN h' = Swapped(at, Largest(at)) /\ at' = Largest(at) /\ UNCHANGED sift
       ELSE sift' = "idle" /\ at' = 0 /\ UNCHANGED h
    /\ UNCHANGED <<dist, offered>>

\* heap_emit: the slots, sorted, are the row.
HeapEmit ==
    /\ sift = "idle"
    /\ \E p \in Bijection(DOMAIN h, DOMAIN h) :
          /\ h' = [i \in DOMAIN h |-> h[p[i]]]
          /\ \A i, j \in DOMAIN h : i < j => ~Less(h[p[j]], h[p[i]])
    /\ sift' = "emitted"
    /\ UNCHANGED <<dist, at, offered>>

HeapNext == (\E id \in Candidates : Offer(id)) \/ SiftUp \/ SiftDown \/ HeapEmit

HeapSpec == HeapInit /\ [][HeapNext]_heapVars

-----------------------------------------------------------------------------
\* The nearest of a set of ids that fit into the heap.
Nearest(ids) ==
    LET entries == {EntryOf(id) : id \in ids}
    IN  {e \in entries : Cardinality({x \in entries : Less(x, e)}) < Capacity}

\* The heap holds the K nearest of everything offered, however often a point
\* shared by several tables came back, also after it had been evicted.  Between
\* offers no slot is farther than its parent, so the root is the bar to beat.
HoldsNearest ==
    /\ {h[i] : i \in DOMAIN h} = Nearest(offered \ {Excluded})
    /\ Len(h) = Cardinality(Held)
    /\ sift = "idle" => \A i \in DOMAIN h : i > 1 => ~Less(h[Parent(i)], h[i])

\* The sift loops are invisible: every offer is one step of TopK.
Best == INSTANCE TopK WITH
          K <- Capacity,
          Entries <- {e \in HeapEntry : e.id # Excluded},
          best <- {h[i] : i \in DOMAIN h}

ImplementsTopK == Best!Spec
=============================================================================
