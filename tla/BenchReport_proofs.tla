------------------------- MODULE BenchReport_proofs -------------------------
(***************************************************************************)
(* The A/B harness, for any cases, jobs, machines, pairs and bounds: what  *)
(* a result file holds, and what a merge and a report make of several.     *)
(***************************************************************************)
EXTENDS BenchReport, TableOps_proofs

Builds == {1, NewBuild}

\* The rows of a result file.
Row == [case : ToSet(CaseIds), arm : ArmNames, pair : Nat, launch : Nat,
        host : Hosts \cup {NoHost}, so : {0} \cup Builds, error : BOOLEAN]

\* The place of a case's batch in its shard, and the arm that goes first there.
PlaceOf(j, c) == CHOOSE s \in DOMAIN Mine(j) : c \in ToSet(Mine(j)[s])
Leader(j, p, c) == IF (p + PlaceOf(j, c) - 1) % 2 = 0 THEN j.arms[1] ELSE j.arms[2]

\* Pair p of case c has run with arm a, when pair q is under way: the batches
\* in `seq` are left of it, the first of them half done if `second`.
HasRun(j, q, seq, second, p, c, a) ==
    \/ p < q
    \/ p = q /\ \A i \in 1..Len(seq) : seq[i] # PlaceOf(j, c)
    \/ p = q /\ second /\ PlaceOf(j, c) = seq[1] /\ a = Leader(j, p, c)

\* There is a row of it.
HasRow(rows, p, c, a) == \E i \in 1..Len(rows) : rows[i].pair = p /\ rows[i].case = c /\ rows[i].arm = a

\* The rows are those of what has run, one each, and a pair's leader stands first.
RowsRan(j, rows, q, seq, second) ==
    /\ rows \in Seq(Row)
    /\ \A i \in 1..Len(rows) :
          /\ rows[i].case \in CasesOf(j) /\ rows[i].arm \in ToSet(j.arms)
          /\ HasRun(j, q, seq, second, rows[i].pair, rows[i].case, rows[i].arm)
    /\ \A p \in 0..q, c \in CasesOf(j), a \in ToSet(j.arms) :
          HasRun(j, q, seq, second, p, c, a)
            => HasRow(rows, p, c, a)
    /\ \A i, k \in 1..Len(rows) :
          rows[i].pair = rows[k].pair /\ rows[i].case = rows[k].case =>
             /\ rows[i].arm = rows[k].arm => i = k
             /\ rows[i].arm = Leader(j, rows[i].pair, rows[i].case) => i <= k

\* All pairs up to the q-th have run.
Full(j, rows, q) == RowsRan(j, rows, q, <<>>, FALSE)

\* One run of the harness: one launch on one machine; a row without a host or a
\* build is an error.
OfOneRun(rows, host, launch) ==
    \A i \in 1..Len(rows) :
        /\ rows[i].launch = launch /\ rows[i].host \in {host, NoHost}
        /\ ~rows[i].error => rows[i].host = host /\ rows[i].so \in Builds

\* What is left of a pair's shuffled batches.
Remains(j, seq) ==
    /\ seq \in Seq(DOMAIN Mine(j))
    /\ \A i, k \in 1..Len(seq) : seq[i] = seq[k] => i = k

Process(j) == [pc : {"batch", "open", "write"}, host : Hosts, launch : Nat, pair : 0..(Pairs - 1),
               seq : Seq(DOMAIN Mine(j)), second : BOOLEAN, rows : Seq(Row)]

ProcOK(j, pr) ==
    /\ pr \in Process(j)
    /\ Remains(j, pr.seq)
    /\ pr.pc = "batch" <=> pr.seq # <<>>
    /\ pr.seq = <<>> => ~pr.second
    /\ RowsRan(j, pr.rows, pr.pair, pr.seq, pr.second)
    /\ OfOneRun(pr.rows, pr.host, pr.launch)

Whole(j) == [st : {"whole"}, host : Hosts, arms : {j.arms}, pairs : {Pairs}, rows : Seq(Row)]

FileOK(j, f) ==
    \/ f = NoFile \/ f = [st |-> "torn"]
    \/ /\ f \in Whole(j)
       /\ \E q \in 0..(Pairs - 1) : Full(j, f.rows, q)
       /\ OfOneRun(f.rows, f.host, f.rows[1].launch)

BenchInv ==
    /\ arm \in [ArmNames -> [so : {0} \cup Builds, meta : {0} \cup Builds]]
    /\ proc = [j \in Jobs |-> proc[j]] /\ file = [j \in Jobs |-> file[j]]
    /\ launches \in Nat
    /\ \A j \in Jobs : (proc[j] = Off \/ ProcOK(j, proc[j])) /\ FileOK(j, file[j])

-----------------------------------------------------------------------------
(***************************************************************************)
(* The batches of a shard: every case of it stands in one of them, once.   *)
(***************************************************************************)
\* Where the cases of a batch stand among the selected ones.
Spots(batch, spot, home) ==
    /\ spot \in [1..Len(batch) -> home]
    /\ \A i, k \in 1..Len(batch) : spot[i] = spot[k] => i = k
    /\ \A i \in 1..Len(batch) : batch[i] = CaseIds[spot[i]]

\* Masking the cases keeps each in its spot.
LEMMA PickedSpots ==
    ASSUME NEW home \in SUBSET (1..Len(CaseIds))
    PROVE  /\ Picked(CaseIds, home) \in Seq(ToSet(CaseIds))
           /\ \E spot : Spots(Picked(CaseIds, home), spot, home)
<1> DEFINE s == Picked(CaseIds, home)
<1>1. CaseIds \in Seq(ToSet(CaseIds))
  BY CasesAssumption
<1>2. /\ Cardinality(home) \in Nat
      /\ s \in Seq(ToSet(CaseIds))
      /\ Len(s) = Cardinality(home)
      /\ \E spot : /\ Lists(spot, home, Cardinality(home))
                   /\ \A i \in 1..Cardinality(home) : s[i] = CaseIds[spot[i]]
  BY <1>1, PickedFacts
<1> HIDE DEF s
<1>3. PICK spot : /\ Lists(spot, home, Len(s))
                  /\ \A i \in 1..Len(s) : s[i] = CaseIds[spot[i]]
  BY <1>2
<1>4. /\ spot \in [1..Len(s) -> home]
      /\ \A i, k \in 1..Len(s) : spot[i] < spot[k] <=> i < k
  BY <1>3 DEF Lists
<1>5. \A i, k \in 1..Len(s) : spot[i] = spot[k] => i = k
  <2> SUFFICES ASSUME NEW i \in 1..Len(s), NEW k \in 1..Len(s), spot[i] = spot[k] PROVE i = k
    OBVIOUS
  <2>1. spot[i] \in Int
    <3>1. Len(CaseIds) \in Nat
      BY <1>1, LenProperties
    <3>2. spot[i] \in home
      BY <1>4
    <3>3. spot[i] \in 1..Len(CaseIds)
      BY <3>2
    <3> QED
      BY <3>1, <3>3
  <2>2. ~(spot[i] < spot[k]) /\ ~(spot[k] < spot[i])
    BY <2>1
  <2> QED
    BY <1>2, <1>4, <2>2
<1>6. Spots(s, spot, home)
  BY <1>3, <1>4, <1>5 DEF Spots
<1> QED
  BY <1>2, <1>6 DEF s

\* The lone cases and the groups, as they are batched.
LoneBatches == LET lone == Picked(CaseIds, Alone) IN [i \in DOMAIN lone |-> <<lone[i]>>]
GroupBatches ==
    LET lead == Ordered(Leads, Below)
    IN  [i \in DOMAIN lead |-> Picked(CaseIds, Fellows(lead[i]))]

\* A batch of one lone case each, every one in a spot of its own.
LEMMA LoneFacts ==
    /\ LoneBatches \in Seq(Seq(ToSet(CaseIds)))
    /\ \E spot : /\ spot \in [1..Len(LoneBatches) -> Alone]
                 /\ \A m, n \in 1..Len(LoneBatches) : spot[m] = spot[n] => m = n
                 /\ \A m \in 1..Len(LoneBatches) :
                       /\ Len(LoneBatches[m]) = 1
                       /\ LoneBatches[m][1] = CaseIds[spot[m]]
<1> DEFINE C == ToSet(CaseIds)
           lone == Picked(CaseIds, Alone)
<1>1. CaseIds \in Seq(C) /\ Len(CaseIds) \in Nat /\ DOMAIN CaseIds = 1..Len(CaseIds)
  BY CasesAssumption, LenProperties
<1>2. Alone \in SUBSET (1..Len(CaseIds))
  BY <1>1 DEF Alone
<1> HIDE DEF C
<1>3. /\ lone \in Seq(C)
      /\ \E spot : Spots(lone, spot, Alone)
  BY <1>2, PickedSpots DEF C
<1>4. LoneBatches = [i \in DOMAIN lone |-> <<lone[i]>>]
  BY DEF LoneBatches
<1> HIDE DEF lone
<1>5. Len(lone) \in Nat /\ DOMAIN lone = 1..Len(lone)
  BY <1>3, LenProperties
<1>6. \A i \in 1..Len(lone) : lone[i] \in C
  BY <1>3, ElementOfSeq
<1>7. \A i \in 1..Len(lone) : <<lone[i]>> \in Seq(C) /\ Len(<<lone[i]>>) = 1 /\ <<lone[i]>>[1] = lone[i]
  BY <1>6
<1>8. LoneBatches \in [1..Len(lone) -> Seq(C)]
  BY <1>4, <1>5, <1>7
<1>9. LoneBatches \in Seq(Seq(C))
  BY <1>5, <1>8, SeqDef
<1>10. Len(LoneBatches) = Len(lone)
  BY <1>5, <1>8, <1>9, LenProperties
<1>11. PICK spot : Spots(lone, spot, Alone)
  BY <1>3
<1>12. /\ spot \in [1..Len(lone) -> Alone]
       /\ \A i, k \in 1..Len(lone) : spot[i] = spot[k] => i = k
       /\ \A i \in 1..Len(lone) : lone[i] = CaseIds[spot[i]]
  BY <1>11 DEF Spots
<1>13. \A m \in 1..Len(lone) : Len(LoneBatches[m]) = 1 /\ LoneBatches[m][1] = CaseIds[spot[m]]
  BY <1>4, <1>5, <1>7, <1>12
<1> QED
  BY <1>9, <1>10, <1>12, <1>13, SMTT(30) DEF C

\* A batch per group: none of a lone case, none of another group's.
LEMMA GroupFacts ==
    /\ GroupBatches \in Seq(Seq(ToSet(CaseIds)))
    /\ \E lead : /\ lead \in [1..Len(GroupBatches) -> Leads]
                 /\ \A m, n \in 1..Len(GroupBatches) : lead[m] = lead[n] => m = n
                 /\ \A m \in 1..Len(GroupBatches) :
                       \E spot : Spots(GroupBatches[m], spot, Fellows(lead[m]))
<1> DEFINE C == ToSet(CaseIds)
           lead == Ordered(Leads, Below)
           n == Cardinality(Leads)
<1>1. CaseIds \in Seq(C) /\ Len(CaseIds) \in Nat /\ DOMAIN CaseIds = 1..Len(CaseIds)
  BY CasesAssumption, LenProperties
<1>2. Leads \in SUBSET (1..Len(CaseIds)) /\ \A i : Fellows(i) \in SUBSET (1..Len(CaseIds))
  BY <1>1 DEF Leads, Fellows
<1>3. IsFiniteSet(Leads) /\ \A i \in Leads : i \in Int
  <2>1. IsFiniteSet(1..Len(CaseIds))
    BY <1>1, FS_Interval
  <2>2. IsFiniteSet(Leads)
    BY <1>2, <2>1, FS_Subset
  <2> QED
    BY <1>1, <1>2, <2>2
<1>4. n \in Nat /\ Lists(lead, Leads, n) /\ DOMAIN lead = 1..n
  BY <1>3, AscendingFacts
<1> HIDE DEF C
<1>5. GroupBatches = [i \in DOMAIN lead |-> Picked(CaseIds, Fellows(lead[i]))]
  BY DEF GroupBatches
<1> HIDE DEF lead, n
<1>6. /\ lead \in [1..n -> Leads]
      /\ \A i, k \in 1..n : lead[i] < lead[k] <=> i < k
  BY <1>4 DEF Lists
<1>7. \A i \in 1..n : /\ Picked(CaseIds, Fellows(lead[i])) \in Seq(C)
                      /\ \E spot : Spots(Picked(CaseIds, Fellows(lead[i])), spot, Fellows(lead[i]))
  BY <1>2, PickedSpots DEF C
<1>8. GroupBatches \in [1..n -> Seq(C)]
  BY <1>4, <1>5, <1>7
<1>9. GroupBatches \in Seq(Seq(C))
  BY <1>4, <1>8, SeqDef
<1>10. Len(GroupBatches) = n
  BY <1>4, <1>8, <1>9, LenProperties
<1>11. \A i, k \in 1..n : lead[i] = lead[k] => i = k
  <2> SUFFICES ASSUME NEW i \in 1..n, NEW k \in 1..n, lead[i] = lead[k] PROVE i = k
    OBVIOUS
  <2>1. lead[i] \in Int
    BY <1>3, <1>6
  <2>2. ~(lead[i] < lead[k]) /\ ~(lead[k] < lead[i])
    BY <2>1
  <2> QED
    BY <1>4, <1>6, <2>2
<1>12. \A m \in 1..n : \E spot : Spots(GroupBatches[m], spot, Fellows(lead[m]))
  BY <1>4, <1>5, <1>7
<1> QED
  BY <1>6, <1>9, <1>10, <1>11, <1>12 DEF C

\* No case stands in two groups, or in one and alone.
LEMMA FellowsApart ==
    ASSUME NEW i \in Leads, NEW k \in DOMAIN CaseIds, k \in Fellows(i)
    PROVE  /\ k \notin Alone
           /\ \A m \in Leads : k \in Fellows(m) => m = i
<1>1. Len(CaseIds) \in Nat /\ DOMAIN CaseIds = 1..Len(CaseIds)
  BY CasesAssumption, LenProperties
<1>2. i \in DOMAIN CaseIds /\ GroupOf[CaseIds[i]] # NoGroup /\ \A n \in Fellows(i) : i <= n
  BY DEF Leads, Alone
<1>3. k \notin Alone
  BY <1>2 DEF Alone, Fellows
<1>4. ASSUME NEW m \in Leads, k \in Fellows(m) PROVE m = i
  <2>1. m \in DOMAIN CaseIds /\ \A n \in Fellows(m) : m <= n
    BY DEF Leads
  <2>2. m \in Fellows(i) /\ i \in Fellows(m)
    BY <1>2, <1>4, <2>1 DEF Fellows
  <2>3. i <= m /\ m <= i /\ i \in Int /\ m \in Int
    BY <1>1, <1>2, <2>1, <2>2
  <2> QED
    BY <2>3
<1> QED
  BY <1>3, <1>4

\* Every case stands in one batch, once.
LEMMA BatchesFacts ==
    /\ Batches \in Seq(Seq(ToSet(CaseIds)))
    /\ \A m, n \in 1..Len(Batches) : \A i \in 1..Len(Batches[m]), k \in 1..Len(Batches[n]) :
          Batches[m][i] = Batches[n][k] => m = n /\ i = k
<1> DEFINE C == ToSet(CaseIds)
           A == LoneBatches
           G == GroupBatches
           na == Len(A)
           ng == Len(G)
<1>1. \A w, x \in DOMAIN CaseIds : CaseIds[w] = CaseIds[x] => w = x
  BY CasesAssumption
<1>2. A \in Seq(Seq(C)) /\ G \in Seq(Seq(C))
  BY LoneFacts, GroupFacts
<1>3. PICK spot : /\ spot \in [1..na -> Alone]
                  /\ \A m, n \in 1..na : spot[m] = spot[n] => m = n
                  /\ \A m \in 1..na : Len(A[m]) = 1 /\ A[m][1] = CaseIds[spot[m]]
  BY LoneFacts
<1>4. PICK lead : /\ lead \in [1..ng -> Leads]
                  /\ \A m, n \in 1..ng : lead[m] = lead[n] => m = n
                  /\ \A m \in 1..ng : \E seat : Spots(G[m], seat, Fellows(lead[m]))
  BY GroupFacts
<1>5. Batches = A \o G
  BY DEF Batches, LoneBatches, GroupBatches
<1> HIDE DEF C, A, G
<1>6. na \in Nat /\ ng \in Nat
  BY <1>2, LenProperties
<1>7. /\ A \o G \in Seq(Seq(C))
      /\ Len(A \o G) = na + ng
      /\ \A m \in 1..(na + ng) : (A \o G)[m] = IF m <= na THEN A[m] ELSE G[m - na]
  BY <1>2, ConcatProperties
<1> HIDE DEF na, ng
<1> DEFINE B == Batches
           N == Len(B)
<1>8. /\ B \in Seq(Seq(C)) /\ N = na + ng
      /\ \A m \in 1..N : B[m] = IF m <= na THEN A[m] ELSE G[m - na]
  BY <1>5, <1>7
<1> HIDE DEF B, N
<1>9. ASSUME NEW m \in 1..N, NEW i \in 1..Len(B[m]), m <= na
      PROVE  spot[m] \in Alone /\ spot[m] \in DOMAIN CaseIds /\ i = 1 /\ B[m][i] = CaseIds[spot[m]]
  <2>1. m \in 1..na /\ B[m] = A[m]
    BY <1>6, <1>8, <1>9
  <2>2. Len(B[m]) = 1 /\ B[m][1] = CaseIds[spot[m]] /\ spot[m] \in Alone
    BY <1>3, <2>1
  <2>3. i = 1
    BY <2>2
  <2>4. spot[m] \in DOMAIN CaseIds
    BY <2>2 DEF Alone
  <2> QED
    BY <2>2, <2>3, <2>4
<1>10. ASSUME NEW m \in 1..N, m > na
       PROVE  /\ m - na \in 1..ng /\ lead[m - na] \in Leads
              /\ \E seat : Spots(B[m], seat, Fellows(lead[m - na]))
  <2>1. m - na \in 1..ng /\ B[m] = G[m - na]
    BY <1>6, <1>8, <1>10
  <2> QED
    BY <1>4, <2>1
<1>11. ASSUME NEW m \in 1..N, NEW n \in 1..N, NEW i \in 1..Len(B[m]), NEW k \in 1..Len(B[n]),
              B[m][i] = B[n][k], m <= na, n > na
       PROVE  FALSE
  <2>1. spot[m] \in Alone /\ spot[m] \in DOMAIN CaseIds /\ B[m][i] = CaseIds[spot[m]]
    BY <1>9, <1>11
  <2>2. PICK seat : Spots(B[n], seat, Fellows(lead[n - na]))
    BY <1>10, <1>11
  <2>3. lead[n - na] \in Leads
    BY <1>10, <1>11
  <2>4. seat[k] \in Fellows(lead[n - na]) /\ B[n][k] = CaseIds[seat[k]]
    BY <2>2 DEF Spots
  <2>5. seat[k] \in DOMAIN CaseIds
    BY <2>4 DEF Fellows
  <2>6. seat[k] = spot[m]
    BY <1>1, <1>11, <2>1, <2>4, <2>5
  <2>7. seat[k] \notin Alone
    BY <2>3, <2>4, <2>5, FellowsApart
  <2> QED
    BY <2>1, <2>6, <2>7
<1>12. ASSUME NEW m \in 1..N, NEW n \in 1..N, NEW i \in 1..Len(B[m]), NEW k \in 1..Len(B[n]),
              B[m][i] = B[n][k]
       PROVE  m = n /\ i = k
  <2>1. m \in Int /\ n \in Int /\ na \in Int
    BY <1>6
  <2>2. CASE m <= na /\ n <= na
    <3>1. spot[m] = spot[n] /\ i = 1 /\ k = 1
      <4>1. spot[m] \in DOMAIN CaseIds /\ i = 1 /\ B[m][i] = CaseIds[spot[m]]
        BY <1>9, <2>2
      <4>2. spot[n] \in DOMAIN CaseIds /\ k = 1 /\ B[n][k] = CaseIds[spot[n]]
        BY <1>9, <2>2
      <4> QED
        BY <1>1, <1>12, <4>1, <4>2
    <3>2. m \in 1..na /\ n \in 1..na
      BY <1>6, <1>8, <2>2
    <3> QED
      BY <1>3, <3>1, <3>2
  <2>3. CASE m <= na /\ n > na
    BY <1>11, <1>12, <2>3
  <2>4. CASE m > na /\ n <= na
    BY <1>11, <1>12, <2>4
  <2>5. CASE m > na /\ n > na
    <3> DEFINE x == m - na
               y == n - na
    <3>1. x \in 1..ng /\ lead[x] \in Leads /\ y \in 1..ng /\ lead[y] \in Leads
      BY <1>10, <2>5
    <3>2. PICK seat : Spots(B[m], seat, Fellows(lead[x]))
      BY <1>10, <2>5
    <3>3. PICK other : Spots(B[n], other, Fellows(lead[y]))
      BY <1>10, <2>5
    <3>4. seat[i] \in Fellows(lead[x]) /\ B[m][i] = CaseIds[seat[i]]
      BY <3>2 DEF Spots
    <3>5. other[k] \in Fellows(lead[y]) /\ B[n][k] = CaseIds[other[k]]
      BY <3>3 DEF Spots
    <3>6. seat[i] \in DOMAIN CaseIds /\ other[k] \in DOMAIN CaseIds
      BY <3>4, <3>5 DEF Fellows
    <3>7. seat[i] = other[k]
      BY <1>1, <1>12, <3>4, <3>5, <3>6
    <3>8. lead[y] = lead[x]
      BY <3>1, <3>4, <3>5, <3>6, <3>7, FellowsApart
    <3>9. x = y
      BY <1>4, <3>1, <3>8
    <3>10. m = n
      BY <2>1, <3>9
    <3>11. seat[k] = seat[i]
      <4>1. CaseIds[seat[k]] = CaseIds[seat[i]] /\ seat[k] \in Fellows(lead[x])
        BY <1>12, <3>2, <3>4, <3>10 DEF Spots
      <4>2. seat[k] \in DOMAIN CaseIds
        BY <4>1 DEF Fellows
      <4> QED
        BY <1>1, <3>6, <4>1, <4>2
    <3> QED
      BY <3>2, <3>10, <3>11 DEF Spots
  <2> QED
    BY <2>1, <2>2, <2>3, <2>4, <2>5
<1> QED
  BY <1>8, <1>12 DEF B, N, C

\* A case of a shard stands in one batch of it, once.
LEMMA MineFacts ==
    ASSUME NEW j
    PROVE  /\ Mine(j) \in Seq(Seq(ToSet(CaseIds)))
           /\ \A m, n \in 1..Len(Mine(j)) : \A i \in 1..Len(Mine(j)[m]), k \in 1..Len(Mine(j)[n]) :
                 Mine(j)[m][i] = Mine(j)[n][k] => m = n /\ i = k
<1> DEFINE C == ToSet(CaseIds)
           home == {i \in DOMAIN Batches : (i - 1) % j.n = j.k}
           M == Mine(j)
<1>1. /\ Batches \in Seq(Seq(C))
      /\ \A m, n \in 1..Len(Batches) : \A i \in 1..Len(Batches[m]), k \in 1..Len(Batches[n]) :
            Batches[m][i] = Batches[n][k] => m = n /\ i = k
  BY BatchesFacts
<1> HIDE DEF C
<1>2. home \in SUBSET (1..Len(Batches))
  BY <1>1, LenProperties
<1>3. M = Picked(Batches, home)
  BY DEF Mine
<1> HIDE DEF home, M
<1>4. /\ M \in Seq(Seq(C))
      /\ Len(M) = Cardinality(home)
      /\ \E place : /\ Lists(place, home, Cardinality(home))
                    /\ \A i \in 1..Cardinality(home) : M[i] = Batches[place[i]]
  <2>1. /\ Picked(Batches, home) \in Seq(Seq(C))
        /\ Len(Picked(Batches, home)) = Cardinality(home)
        /\ \E place : /\ Lists(place, home, Cardinality(home))
                      /\ \A i \in 1..Cardinality(home) : Picked(Batches, home)[i] = Batches[place[i]]
    BY <1>1, <1>2, PickedFacts
  <2> QED
    BY <1>3, <2>1
<1>5. PICK place : /\ Lists(place, home, Len(M))
                   /\ \A i \in 1..Len(M) : M[i] = Batches[place[i]]
  BY <1>4
<1>6. /\ place \in [1..Len(M) -> home]
      /\ \A i, k \in 1..Len(M) : place[i] < place[k] <=> i < k
  BY <1>5 DEF Lists
<1>7. ASSUME NEW m \in 1..Len(M), NEW n \in 1..Len(M),
             NEW i \in 1..Len(M[m]), NEW k \in 1..Len(M[n]), M[m][i] = M[n][k]
      PROVE  m = n /\ i = k
  <2>1. place[m] \in home /\ place[n] \in home /\ M[m] = Batches[place[m]] /\ M[n] = Batches[place[n]]
    BY <1>5, <1>6
  <2>2. place[m] \in 1..Len(Batches) /\ place[n] \in 1..Len(Batches)
    BY <1>2, <2>1
  <2>3. place[m] = place[n] /\ i = k
    <3> DEFINE x == place[m]
               y == place[n]
    <3>1. x \in 1..Len(Batches) /\ y \in 1..Len(Batches)
      BY <2>2
    <3>2. i \in 1..Len(Batches[x]) /\ k \in 1..Len(Batches[y]) /\ Batches[x][i] = Batches[y][k]
      BY <1>7, <2>1
    <3> HIDE DEF x, y
    <3>3. x = y /\ i = k
      BY <1>1, <3>1, <3>2
    <3> QED
      BY <3>3 DEF x, y
  <2>4. ~(place[m] < place[n]) /\ ~(place[n] < place[m])
    BY <2>2, <2>3
  <2>5. ~(m < n) /\ ~(n < m)
    BY <1>6, <2>4
  <2>6. m \in Int /\ n \in Int
    BY <1>4, LenProperties
  <2> QED
    BY <2>3, <2>5, <2>6
<1> QED
  BY <1>4, <1>7 DEF M, C

\* The place of a case in its shard is where it stands, and nowhere else.
LEMMA PlaceFacts ==
    ASSUME NEW j
    PROVE  /\ Len(Mine(j)) \in Nat /\ DOMAIN Mine(j) = 1..Len(Mine(j))
           /\ \A s \in 1..Len(Mine(j)) : /\ Len(Mine(j)[s]) \in Nat
                                          /\ Mine(j)[s] \in Seq(ToSet(CaseIds))
           /\ \A c : c \in CasesOf(j) <=> \E s \in 1..Len(Mine(j)) :
                                             \E i \in 1..Len(Mine(j)[s]) : c = Mine(j)[s][i]
           /\ CasesOf(j) \subseteq ToSet(CaseIds)
           /\ \A c \in CasesOf(j) : PlaceOf(j, c) \in 1..Len(Mine(j))
           /\ \A s \in 1..Len(Mine(j)) : \A i \in 1..Len(Mine(j)[s]) : PlaceOf(j, Mine(j)[s][i]) = s
           /\ \A c \in CasesOf(j) : \E i \in 1..Len(Mine(j)[PlaceOf(j, c)]) : c = Mine(j)[PlaceOf(j, c)][i]
<1> DEFINE C == ToSet(CaseIds)
           M == Mine(j)
<1>1. /\ M \in Seq(Seq(C))
      /\ \A m, n \in 1..Len(M) : \A i \in 1..Len(M[m]), k \in 1..Len(M[n]) :
            M[m][i] = M[n][k] => m = n /\ i = k
  BY MineFacts
<1>2. CasesOf(j) = UNION {ToSet(M[s]) : s \in DOMAIN M}
  BY DEF CasesOf
<1>3. \A c : PlaceOf(j, c) = CHOOSE s \in DOMAIN M : c \in ToSet(M[s])
  BY DEF PlaceOf
<1> HIDE DEF C, M
<1>4. Len(M) \in Nat /\ DOMAIN M = 1..Len(M)
  BY <1>1, LenProperties
<1>5. \A s \in 1..Len(M) : M[s] \in Seq(C)
  BY <1>1, ElementOfSeq
<1>6. \A s \in 1..Len(M) : Len(M[s]) \in Nat /\ DOMAIN M[s] = 1..Len(M[s])
  BY <1>5, LenProperties
<1>7. \A s \in 1..Len(M) : ToSet(M[s]) = {M[s][i] : i \in 1..Len(M[s])}
  BY <1>6 DEF ToSet
<1>8. \A s \in 1..Len(M) : \A i \in 1..Len(M[s]) : M[s][i] \in C
  BY <1>5, ElementOfSeq
<1>9. \A c : c \in CasesOf(j) <=> \E s \in 1..Len(M) : \E i \in 1..Len(M[s]) : c = M[s][i]
  BY <1>2, <1>4, <1>7
<1>10. CasesOf(j) \subseteq C
  BY <1>8, <1>9
<1>11. \A c \in CasesOf(j) : PlaceOf(j, c) \in 1..Len(M) /\ c \in ToSet(M[PlaceOf(j, c)])
  <2> SUFFICES ASSUME NEW c \in CasesOf(j)
               PROVE  PlaceOf(j, c) \in 1..Len(M) /\ c \in ToSet(M[PlaceOf(j, c)])
    OBVIOUS
  <2>1. \E s \in DOMAIN M : c \in ToSet(M[s])
    BY <1>2
  <2> QED
    BY <1>3, <1>4, <2>1
<1>12. \A c \in CasesOf(j) : \E i \in 1..Len(M[PlaceOf(j, c)]) : c = M[PlaceOf(j, c)][i]
  BY <1>7, <1>11
<1>13. ASSUME NEW s \in 1..Len(M), NEW i \in 1..Len(M[s]) PROVE PlaceOf(j, M[s][i]) = s
  <2> DEFINE c == M[s][i]
             t == PlaceOf(j, c)
  <2>1. c \in CasesOf(j)
    BY <1>9
  <2>2. t \in 1..Len(M) /\ \E k \in 1..Len(M[t]) : c = M[t][k]
    BY <1>11, <1>12, <2>1
  <2> QED
    BY <1>1, <2>2
<1> QED
  BY <1>4, <1>5, <1>6, <1>9, <1>10, <1>11, <1>12, <1>13 DEF M, C

-----------------------------------------------------------------------------
(***************************************************************************)
(* The rows of a pair that is under way: each worker adds those of one arm *)
(* and one batch, and the batches of the next pair are all still to run.   *)
(***************************************************************************)
\* The two arms of a job.
LEMMA ArmFacts ==
    ASSUME NEW j \in Jobs
    PROVE  /\ ToSet(j.arms) = {j.arms[1], j.arms[2]} /\ j.arms[1] # j.arms[2]
           /\ ToSet(j.arms) \subseteq ArmNames
           /\ Reverse(j.arms)[1] = j.arms[2] /\ Reverse(j.arms)[2] = j.arms[1]
           /\ \A p, c : Leader(j, p, c) \in ToSet(j.arms)
<1>1. j.arms = <<j.arms[1], j.arms[2]>> /\ j.arms[1] # j.arms[2]
  BY JobsAssumption
<1> DEFINE x == j.arms[1]
           y == j.arms[2]
<1>2. j.arms = <<x, y>> /\ x # y
  BY <1>1
<1>3. \A p, c : Leader(j, p, c) \in {x, y}
  BY DEF Leader
<1>4. ToSet(j.arms) \subseteq ArmNames
  BY DEF ArmNames
<1> HIDE DEF x, y
<1>5. DOMAIN <<x, y>> = 1..2 /\ Len(<<x, y>>) = 2 /\ <<x, y>>[1] = x /\ <<x, y>>[2] = y
  OBVIOUS
<1>6. ToSet(<<x, y>>) = {x, y}
  BY <1>5 DEF ToSet
<1>7. Reverse(<<x, y>>)[1] = y /\ Reverse(<<x, y>>)[2] = x
  BY <1>5 DEF Reverse
<1>8. /\ ToSet(j.arms) = {x, y}
      /\ Reverse(j.arms)[1] = y /\ Reverse(j.arms)[2] = x
  BY <1>2, <1>6, <1>7
<1> QED
  BY <1>2, <1>3, <1>4, <1>8 DEF x, y

\* A shuffle has every batch in it.
LEMMA ShuffleFacts ==
    ASSUME NEW j, NEW seq \in Shuffled(j)
    PROVE  /\ Remains(j, seq) /\ seq \in Seq(DOMAIN Mine(j)) /\ Len(seq) = Len(Mine(j))
           /\ \A s \in 1..Len(Mine(j)) : \E i \in 1..Len(seq) : seq[i] = s
<1> DEFINE n == Len(Mine(j))
<1>1. n \in Nat /\ DOMAIN Mine(j) = 1..n
  BY PlaceFacts
<1> HIDE DEF n
<1>2. seq \in Bijection(1..n, 1..n)
  BY <1>1 DEF Shuffled
<1>3. /\ seq \in [1..n -> 1..n]
      /\ \A i, k \in 1..n : seq[i] = seq[k] => i = k
      /\ \A s \in 1..n : \E i \in 1..n : seq[i] = s
  BY <1>2 DEF Bijection, Injection, IsInjective, Surjection
<1>4. seq \in Seq(1..n)
  BY <1>1, <1>3, SeqDef
<1>5. Len(seq) = n
  BY <1>1, <1>3, <1>4, LenProperties
<1>6. Remains(j, seq)
  BY <1>1, <1>3, <1>4, <1>5 DEF Remains
<1> QED
  BY <1>1, <1>3, <1>4, <1>5, <1>6 DEF n

\* The rows of a table, one by one.
LEMMA RowTypes ==
    ASSUME NEW rows \in Seq(Row)
    PROVE  /\ Len(rows) \in Nat /\ DOMAIN rows = 1..Len(rows)
           /\ \A i \in 1..Len(rows) :
                 /\ rows[i] \in Row /\ rows[i].pair \in Nat /\ rows[i].case \in ToSet(CaseIds)
                 /\ rows[i].error \in BOOLEAN
<1>1. \A i \in 1..Len(rows) : rows[i] \in Row
  <2> HIDE DEF Row
  <2> QED
    BY ElementOfSeq
<1>2. \A r \in Row : r.pair \in Nat /\ r.case \in ToSet(CaseIds) /\ r.error \in BOOLEAN
  BY DEF Row
<1> QED
  BY <1>1, <1>2, LenProperties

\* Two ways to say what has run.
RunsLike(j, q, seq, second, r, to, half) ==
    \A p \in Nat, c \in CasesOf(j), a \in ToSet(j.arms) :
        HasRun(j, q, seq, second, p, c, a) <=> HasRun(j, r, to, half, p, c, a)

\* The rows are the same then.
LEMMA RowsSame ==
    ASSUME NEW j, NEW rows, NEW q \in Nat, NEW seq, NEW second, NEW r \in Nat, NEW to, NEW half,
           RowsRan(j, rows, q, seq, second), RunsLike(j, q, seq, second, r, to, half)
    PROVE  RowsRan(j, rows, r, to, half)
<1>1. rows \in Seq(Row)
  BY DEF RowsRan
<1>2. \A i \in 1..Len(rows) : rows[i].pair \in Nat
  BY <1>1, RowTypes
<1>3. ASSUME NEW i \in 1..Len(rows)
      PROVE  /\ rows[i].case \in CasesOf(j) /\ rows[i].arm \in ToSet(j.arms)
             /\ HasRun(j, r, to, half, rows[i].pair, rows[i].case, rows[i].arm)
  BY <1>2 DEF RowsRan, RunsLike
<1>4. ASSUME NEW p \in 0..r, NEW c \in CasesOf(j), NEW a \in ToSet(j.arms),
             HasRun(j, r, to, half, p, c, a)
      PROVE  HasRow(rows, p, c, a)
  <2>1. p \in Nat
    OBVIOUS
  <2>2. HasRun(j, q, seq, second, p, c, a)
    BY <1>4, <2>1 DEF RunsLike
  <2>3. p \in 0..q
    BY <2>1, <2>2 DEF HasRun
  <2> QED
    BY <2>2, <2>3 DEF RowsRan
<1>5. \A i, k \in 1..Len(rows) :
         rows[i].pair = rows[k].pair /\ rows[i].case = rows[k].case =>
            /\ rows[i].arm = rows[k].arm => i = k
            /\ rows[i].arm = Leader(j, rows[i].pair, rows[i].case) => i <= k
  BY DEF RowsRan
<1> QED
  BY <1>1, <1>3, <1>4, <1>5 DEF RowsRan

\* Nothing has run of the first pair, and nothing more of the next.
LEMMA PairBegins ==
    ASSUME NEW j \in Jobs, NEW seq \in Shuffled(j)
    PROVE  /\ RowsRan(j, <<>>, 0, seq, FALSE)
           /\ \A q \in Nat : RunsLike(j, q, <<>>, FALSE, q + 1, seq, FALSE)
<1>1. /\ \A s \in 1..Len(Mine(j)) : \E i \in 1..Len(seq) : seq[i] = s
      /\ \A c \in CasesOf(j) : PlaceOf(j, c) \in 1..Len(Mine(j))
  BY ShuffleFacts, PlaceFacts
<1>2. ASSUME NEW q \in Nat, NEW p \in Nat, NEW c \in CasesOf(j), NEW a
      PROVE  HasRun(j, q, seq, FALSE, p, c, a) <=> p < q
  BY <1>1 DEF HasRun
<1>3. Len(<<>>) = 0 /\ 1..0 = {}
  OBVIOUS
<1>4. ASSUME NEW q \in Nat, NEW p \in Nat, NEW c, NEW a
      PROVE  HasRun(j, q, <<>>, FALSE, p, c, a) <=> p < q + 1
  <2>1. p < q + 1 <=> p < q \/ p = q
    OBVIOUS
  <2> QED
    BY <1>3, <2>1 DEF HasRun
<1>5. RowsRan(j, <<>>, 0, seq, FALSE)
  <2>1. <<>> \in Seq(Row)
    BY EmptySeq
  <2>2. \A p \in 0..0 : p \in Nat /\ ~(p < 0)
    OBVIOUS
  <2>3. \A p \in 0..0, c \in CasesOf(j), a \in ToSet(j.arms) : ~HasRun(j, 0, seq, FALSE, p, c, a)
    BY <1>2, <2>2
  <2> QED
    BY <1>3, <2>1, <2>3 DEF RowsRan
<1>6. ASSUME NEW q \in Nat PROVE RunsLike(j, q, <<>>, FALSE, q + 1, seq, FALSE)
  <2>1. q + 1 \in Nat
    OBVIOUS
  <2>2. ASSUME NEW p \in Nat, NEW c \in CasesOf(j), NEW a \in ToSet(j.arms)
        PROVE  HasRun(j, q, <<>>, FALSE, p, c, a) <=> HasRun(j, q + 1, seq, FALSE, p, c, a)
    BY <1>2, <1>4, <2>1
  <2> QED
    BY <2>2 DEF RunsLike
<1> QED
  BY <1>5, <1>6

\* The rows of one arm, of as many cases.
Adds(j, got, q, name) ==
    /\ got \in Seq(Row)
    /\ \A i \in 1..Len(got) : got[i].pair = q /\ got[i].arm = name /\ got[i].case \in CasesOf(j)
    /\ \A i, k \in 1..Len(got) : got[i].case = got[k].case => i = k

\* They had not run, nor had the leader's follower; now they have.
Grows(j, q, seq, second, to, half, got, name) ==
    /\ \A p \in Nat, c \in CasesOf(j), a \in ToSet(j.arms) :
          HasRun(j, q, to, half, p, c, a)
             <=> \/ HasRun(j, q, seq, second, p, c, a)
                 \/ p = q /\ a = name /\ \E i \in 1..Len(got) : got[i].case = c
    /\ \A i \in 1..Len(got) :
          /\ ~HasRun(j, q, seq, second, q, got[i].case, name)
          /\ name = Leader(j, q, got[i].case)
               => \A a \in ToSet(j.arms) : ~HasRun(j, q, seq, second, q, got[i].case, a)

\* Rows that are added to those of what has run.
LEMMA RowsMore ==
    ASSUME NEW j, NEW rows, NEW q \in Nat, NEW seq, NEW second, NEW to, NEW half,
           NEW got, NEW name \in ToSet(j.arms),
           RowsRan(j, rows, q, seq, second), Adds(j, got, q, name),
           Grows(j, q, seq, second, to, half, got, name)
    PROVE  RowsRan(j, rows \o got, q, to, half)
<1> DEFINE all == rows \o got
           n == Len(rows)
           m == Len(got)
<1>1. rows \in Seq(Row) /\ got \in Seq(Row)
  BY DEF RowsRan, Adds
<1>2. n \in Nat /\ m \in Nat
  BY <1>1, LenProperties
<1>3. /\ all \in Seq(Row) /\ Len(all) = n + m
      /\ \A i \in 1..(n + m) : all[i] = IF i <= n THEN rows[i] ELSE got[i - n]
  BY <1>1, ConcatProperties
<1>4. \A i \in 1..n : rows[i] \in Row /\ rows[i].pair \in Nat
  BY <1>1, RowTypes
<1>5. /\ \A i \in 1..n : /\ rows[i].case \in CasesOf(j) /\ rows[i].arm \in ToSet(j.arms)
                         /\ HasRun(j, q, seq, second, rows[i].pair, rows[i].case, rows[i].arm)
      /\ \A p \in 0..q, c \in CasesOf(j), a \in ToSet(j.arms) :
            HasRun(j, q, seq, second, p, c, a)
               => HasRow(rows, p, c, a)
      /\ \A i, k \in 1..n :
            rows[i].pair = rows[k].pair /\ rows[i].case = rows[k].case =>
               /\ rows[i].arm = rows[k].arm => i = k
               /\ rows[i].arm = Leader(j, rows[i].pair, rows[i].case) => i <= k
  BY DEF RowsRan
<1>6. /\ \A i \in 1..m : got[i].pair = q /\ got[i].arm = name /\ got[i].case \in CasesOf(j)
      /\ \A i, k \in 1..m : got[i].case = got[k].case => i = k
  BY DEF Adds
<1> HIDE DEF all, n, m
<1>7. \A i \in 1..(n + m) : \/ i \in 1..n /\ all[i] = rows[i]
                            \/ i > n /\ i - n \in 1..m /\ all[i] = got[i - n]
  BY <1>2, <1>3
<1>8. ASSUME NEW i \in 1..(n + m)
      PROVE  /\ all[i].case \in CasesOf(j) /\ all[i].arm \in ToSet(j.arms)
             /\ HasRun(j, q, to, half, all[i].pair, all[i].case, all[i].arm)
  <2>1. CASE i \in 1..n /\ all[i] = rows[i]
    BY <1>4, <1>5, <2>1 DEF Grows
  <2>2. CASE i - n \in 1..m /\ all[i] = got[i - n]
    BY <1>6, <2>2 DEF Grows, m
  <2> QED
    BY <1>7, <2>1, <2>2
<1>9. ASSUME NEW p \in 0..q, NEW c \in CasesOf(j), NEW a \in ToSet(j.arms),
             HasRun(j, q, to, half, p, c, a)
      PROVE  HasRow(all, p, c, a)
  <2>1. \/ HasRun(j, q, seq, second, p, c, a)
        \/ p = q /\ a = name /\ \E i \in 1..m : got[i].case = c
    <3>1. p \in Nat
      OBVIOUS
    <3> QED
      BY <1>9, <3>1 DEF Grows, m
  <2>2. CASE HasRun(j, q, seq, second, p, c, a)
    <3>1. PICK i \in 1..n : rows[i].pair = p /\ rows[i].case = c /\ rows[i].arm = a
      <4>1. HasRow(rows, p, c, a)
        BY <1>5, <2>2
      <4> QED
        BY <4>1 DEF HasRow, n
    <3>2. i \in 1..(n + m) /\ i <= n
      BY <1>2
    <3>3. all[i] = rows[i]
      BY <1>3, <3>2
    <3> QED
      BY <1>3, <3>1, <3>2, <3>3 DEF HasRow
  <2>3. CASE p = q /\ a = name /\ \E i \in 1..m : got[i].case = c
    <3>1. PICK i \in 1..m : got[i].case = c
      BY <2>3
    <3>2. n + i \in 1..(n + m) /\ ~(n + i <= n) /\ (n + i) - n = i
      BY <1>2
    <3>3. all[n + i] = got[i]
      BY <1>3, <3>2
    <3> QED
      BY <1>3, <1>6, <2>3, <3>1, <3>2, <3>3 DEF HasRow
  <2> QED
    BY <2>1, <2>2, <2>3
<1>10. ASSUME NEW i \in 1..(n + m), NEW k \in 1..(n + m),
              all[i].pair = all[k].pair, all[i].case = all[k].case
       PROVE  /\ all[i].arm = all[k].arm => i = k
              /\ all[i].arm = Leader(j, all[i].pair, all[i].case) => i <= k
  <2>1. CASE i \in 1..n /\ all[i] = rows[i] /\ k \in 1..n /\ all[k] = rows[k]
    BY <1>5, <1>10, <2>1
  <2>2. CASE i \in 1..n /\ all[i] = rows[i] /\ k > n /\ k - n \in 1..m /\ all[k] = got[k - n]
    <3>1. rows[i].pair = q /\ rows[i].case = got[k - n].case
      BY <1>6, <1>10, <2>2
    <3>2. HasRun(j, q, seq, second, q, got[k - n].case, rows[i].arm)
      BY <1>5, <2>2, <3>1
    <3>3. rows[i].arm # name
      BY <2>2, <3>2 DEF Grows, m
    <3>4. all[i].arm # all[k].arm
      BY <1>6, <2>2, <3>3
    <3> QED
      BY <1>2, <2>2, <3>4
  <2>3. CASE i > n /\ i - n \in 1..m /\ all[i] = got[i - n] /\ k \in 1..n /\ all[k] = rows[k]
    <3>1. rows[k].pair = q /\ rows[k].case = got[i - n].case
      BY <1>6, <1>10, <2>3
    <3>2. HasRun(j, q, seq, second, q, got[i - n].case, rows[k].arm)
      BY <1>5, <2>3, <3>1
    <3>3. rows[k].arm # name /\ rows[k].arm \in ToSet(j.arms)
      BY <1>5, <2>3, <3>2 DEF Grows, m
    <3>4. name # Leader(j, q, got[i - n].case)
      BY <2>3, <3>2, <3>3 DEF Grows, m
    <3>5. all[i].arm = name /\ all[k].arm # name /\ all[i].pair = q /\ all[i].case = got[i - n].case
      BY <1>6, <2>3, <3>3
    <3> QED
      BY <3>4, <3>5
  <2>4. CASE i > n /\ i - n \in 1..m /\ all[i] = got[i - n] /\ k > n /\ k - n \in 1..m /\ all[k] = got[k - n]
    <3>1. i - n = k - n
      BY <1>6, <1>10, <2>4
    <3>2. i = k /\ i \in Int
      BY <1>2, <3>1
    <3> QED
      BY <3>2
  <2> QED
    BY <1>7, <2>1, <2>2, <2>3, <2>4
<1>11. RowsRan(j, all, q, to, half)
  BY <1>3, <1>8, <1>9, <1>10 DEF RowsRan
<1> QED
  BY <1>11 DEF all

\* The rows of one worker's batch: a row of each case, printed or filled in.
BatchRows(got, batch, pr, name) ==
    /\ got \in Seq(Row) /\ Len(got) = Len(batch)
    /\ \A i \in 1..Len(batch) : got[i].case = batch[i] /\ got[i].arm = name /\ got[i].pair = pr.pair
    /\ OfOneRun(got, pr.host, pr.launch)

\* What a worker leaves behind, wherever it dies and whatever its cases raise.
LEMMA WorkerRows ==
    ASSUME NEW j \in Jobs, NEW pr \in Process(j), NEW name \in ArmNames,
           NEW batch \in Seq(ToSet(CaseIds)), NEW n \in 0..Len(batch), NEW bad,
           arm \in [ArmNames -> [so : {0} \cup Builds, meta : {0} \cup Builds]],
           ~Checked(arm[name]) => n = 0
    PROVE  BatchRows(Printed(name, pr, batch, n, bad) \o Fillers(name, pr, batch, n), batch, pr, name)
<1> DEFINE P == Printed(name, pr, batch, n, bad)
           left == Missing(batch, n)
           F == Fillers(name, pr, batch, n)
           N == Len(batch)
<1>1. /\ pr.pair \in Nat /\ pr.launch \in Nat /\ pr.host \in Hosts
      /\ N \in Nat /\ n \in Nat /\ n <= N
  <2>1. N \in Nat
    BY LenProperties
  <2>2. 0..(Pairs - 1) \subseteq Nat
    BY BenchAssumption
  <2>3. pr.pair \in 0..(Pairs - 1) /\ pr.launch \in Nat /\ pr.host \in Hosts
    BY DEF Process
  <2> QED
    BY <2>1, <2>2, <2>3
<1>2. \A i \in 1..N : batch[i] \in ToSet(CaseIds)
  BY ElementOfSeq
<1>3. arm[name].meta \in {0} \cup Builds /\ (n # 0 => arm[name].meta \in Builds)
  <2>1. arm[name] \in [so : {0} \cup Builds, meta : {0} \cup Builds]
    OBVIOUS
  <2>2. arm[name].meta \in {0} \cup Builds
    BY <2>1
  <2> QED
    BY <2>2 DEF Checked
<1> DEFINE printed(i) == [case |-> batch[i], arm |-> name, pair |-> pr.pair, launch |-> pr.launch,
                          host |-> pr.host, so |-> arm[name].meta, error |-> batch[i] \in bad]
           filled(c) == [case |-> c, arm |-> name, pair |-> pr.pair, launch |-> pr.launch,
                         host |-> NoHost, so |-> 0, error |-> TRUE]
<1>4. \A i \in 1..n : printed(i) \in Row
  <2> SUFFICES ASSUME NEW i \in 1..n PROVE printed(i) \in Row
    OBVIOUS
  <2>1. batch[i] \in ToSet(CaseIds)
    BY <1>1, <1>2
  <2>2. (batch[i] \in bad) \in BOOLEAN
    OBVIOUS
  <2> QED
    BY <1>1, <1>3, <2>1, <2>2 DEF Row
<1>5. P = [i \in 1..n |-> printed(i)]
  BY DEF Printed
<1>6. P \in Seq(Row) /\ Len(P) = n
  <2> HIDE DEF printed
  <2>1. P \in [1..n -> Row]
    BY <1>4, <1>5
  <2> HIDE DEF P
  <2>2. P \in Seq(Row)
    BY <1>1, <2>1, SeqDef
  <2> QED
    BY <1>1, <2>1, <2>2, LenProperties
<1>7. /\ left \in Seq(ToSet(CaseIds)) /\ Len(left) = N - n
      /\ \A i \in 1..(N - n) : left[i] = batch[n + i]
  <2>1. n + 1 \in Int /\ N \in Int
    BY <1>1
  <2>2. \A i \in (n + 1)..N : batch[i] \in ToSet(CaseIds)
    BY <1>1, <1>2
  <2>3. /\ SubSeq(batch, n + 1, N) \in Seq(ToSet(CaseIds))
        /\ Len(SubSeq(batch, n + 1, N)) = IF n + 1 <= N THEN N - (n + 1) + 1 ELSE 0
        /\ \A i \in 1..(N - (n + 1) + 1) : SubSeq(batch, n + 1, N)[i] = batch[(n + 1) + i - 1]
    BY ONLY <2>1, <2>2, SubSeqProperties
  <2>4. left = SubSeq(batch, n + 1, N)
    BY DEF Missing
  <2> HIDE DEF left, N
  <2>5. N - (n + 1) + 1 = N - n /\ \A i \in 1..(N - n) : (n + 1) + i - 1 = n + i
    BY <1>1
  <2> QED
    BY <1>1, <2>3, <2>4, <2>5
<1>8. F = [i \in DOMAIN left |-> filled(left[i])]
  BY DEF Fillers
<1> HIDE DEF left
<1>9. DOMAIN left = 1..(N - n) /\ \A i \in 1..(N - n) : left[i] \in ToSet(CaseIds)
  <2>1. DOMAIN left = 1..Len(left) /\ \A i \in 1..Len(left) : left[i] \in ToSet(CaseIds)
    BY <1>7, LenProperties, ElementOfSeq
  <2> QED
    BY <1>7, <2>1
<1>10. \A i \in 1..(N - n) : filled(left[i]) \in Row
  BY <1>1, <1>9 DEF Row
<1>11. F \in Seq(Row) /\ Len(F) = N - n
  <2> HIDE DEF filled
  <2>1. F \in [1..(N - n) -> Row]
    BY <1>8, <1>9, <1>10
  <2>2. N - n \in Nat
    BY <1>1
  <2> HIDE DEF F
  <2>3. F \in Seq(Row)
    BY <2>1, <2>2, SeqDef
  <2> QED
    BY <2>1, <2>2, <2>3, LenProperties
<1> DEFINE got == P \o F
<1>12. \A i \in 1..n : P[i] = printed(i)
  BY <1>5
<1>13. \A i \in 1..(N - n) : F[i] = filled(left[i])
  BY <1>8, <1>9
<1> HIDE DEF P, F, printed, filled
<1>14. /\ got \in Seq(Row) /\ Len(got) = n + (N - n)
       /\ \A i \in 1..(n + (N - n)) : got[i] = IF i <= n THEN P[i] ELSE F[i - n]
  <2>1. /\ got \in Seq(Row) /\ Len(got) = Len(P) + Len(F)
        /\ \A i \in 1..(Len(P) + Len(F)) : got[i] = IF i <= Len(P) THEN P[i] ELSE F[i - Len(P)]
    BY <1>6, <1>11, ConcatProperties
  <2> QED
    BY <1>6, <1>11, <2>1
<1>15. n + (N - n) = N
  BY <1>1
<1> HIDE DEF got, N
<1>16. ASSUME NEW i \in 1..N
       PROVE  /\ got[i].case = batch[i] /\ got[i].arm = name /\ got[i].pair = pr.pair
              /\ got[i].launch = pr.launch /\ got[i].host \in {pr.host, NoHost}
              /\ ~got[i].error => got[i].host = pr.host /\ got[i].so \in Builds
  <2>1. CASE i <= n
    <3>1. i \in 1..n /\ got[i] = printed(i) /\ n # 0
      BY <1>1, <1>12, <1>14, <1>15, <2>1
    <3> QED
      BY <1>3, <3>1 DEF printed
  <2>2. CASE ~(i <= n)
    <3>1. i - n \in 1..(N - n) /\ n + (i - n) = i
      BY <1>1, <2>2
    <3>2. got[i] = filled(left[i - n]) /\ left[i - n] = batch[i]
      BY <1>7, <1>13, <1>14, <1>15, <2>2, <3>1 DEF N
    <3> QED
      BY <3>2 DEF filled
  <2> QED
    BY <2>1, <2>2
<1>17. OfOneRun(got, pr.host, pr.launch)
  BY <1>14, <1>15, <1>16 DEF OfOneRun
<1> QED
  BY <1>14, <1>15, <1>16, <1>17 DEF BatchRows, got, N, P, F

\* The arm whose turn it is.
LEMMA TurnFacts ==
    ASSUME NEW j \in Jobs, NEW q, NEW seq
    PROVE  /\ Order(q, j, seq)[1] \in ToSet(j.arms) /\ Order(q, j, seq)[2] \in ToSet(j.arms)
           /\ Order(q, j, seq)[1] # Order(q, j, seq)[2]
           /\ \A a \in ToSet(j.arms) : a = Order(q, j, seq)[1] \/ a = Order(q, j, seq)[2]
           /\ \A c : PlaceOf(j, c) = seq[1] => Leader(j, q, c) = Order(q, j, seq)[1]
<1>1. /\ ToSet(j.arms) = {j.arms[1], j.arms[2]} /\ j.arms[1] # j.arms[2]
      /\ Reverse(j.arms)[1] = j.arms[2] /\ Reverse(j.arms)[2] = j.arms[1]
  BY ArmFacts
<1>2. CASE (q + seq[1] - 1) % 2 = 0
  <2>1. Order(q, j, seq) = j.arms
    BY <1>2 DEF Order, Parity
  <2>2. \A c : PlaceOf(j, c) = seq[1] => Leader(j, q, c) = j.arms[1]
    BY <1>2 DEF Leader
  <2> QED
    BY <1>1, <2>1, <2>2
<1>3. CASE (q + seq[1] - 1) % 2 # 0
  <2>1. Order(q, j, seq) = Reverse(j.arms)
    BY <1>3 DEF Order, Parity
  <2>2. \A c : PlaceOf(j, c) = seq[1] => Leader(j, q, c) = j.arms[2]
    BY <1>3 DEF Leader
  <2> QED
    BY <1>1, <2>1, <2>2
<1> QED
  BY <1>2, <1>3

\* What is left after one worker: both arms of the first batch, then the rest.
LEMMA RemainsFacts ==
    ASSUME NEW j, NEW seq, Remains(j, seq), seq # <<>>
    PROVE  /\ seq[1] \in 1..Len(Mine(j)) /\ Remains(j, Tail(seq))
           /\ \A s : (\A i \in 1..Len(Tail(seq)) : Tail(seq)[i] # s)
                        <=> (s = seq[1] \/ \A i \in 1..Len(seq) : seq[i] # s)
           /\ ~\A i \in 1..Len(seq) : seq[i] # seq[1]
<1> DEFINE D == DOMAIN Mine(j)
           t == Tail(seq)
<1>1. seq \in Seq(D) /\ \A i, k \in 1..Len(seq) : seq[i] = seq[k] => i = k
  BY DEF Remains
<1>2. D = 1..Len(Mine(j))
  BY PlaceFacts
<1> HIDE DEF D
<1>3. /\ t \in Seq(D) /\ Len(t) = Len(seq) - 1
      /\ \A i \in 1..Len(t) : t[i] = seq[i + 1]
  BY <1>1, HeadTailProperties
<1>4. Len(seq) \in Nat \ {0}
  BY <1>1, EmptySeq
<1> HIDE DEF t
<1>5. 1 \in 1..Len(seq) /\ \A i \in 1..Len(t) : i + 1 \in 1..Len(seq) /\ i + 1 # 1
  BY <1>3, <1>4
<1>6. seq[1] \in D
  BY <1>1, <1>5, ElementOfSeq
<1>7. \A i, k \in 1..Len(t) : t[i] = t[k] => i = k
  <2> SUFFICES ASSUME NEW i \in 1..Len(t), NEW k \in 1..Len(t), t[i] = t[k] PROVE i = k
    OBVIOUS
  <2>1. i + 1 = k + 1
    BY <1>1, <1>3, <1>5
  <2> QED
    BY <1>3, <1>4, <2>1
<1>8. ASSUME NEW s
      PROVE  (\A i \in 1..Len(t) : t[i] # s) <=> (s = seq[1] \/ \A i \in 1..Len(seq) : seq[i] # s)
  <2>1. ASSUME \A i \in 1..Len(t) : t[i] # s, s # seq[1], NEW i \in 1..Len(seq)
        PROVE  seq[i] # s
    <3>1. CASE i = 1
      BY <2>1, <3>1
    <3>2. CASE i # 1
      <4>1. i - 1 \in 1..Len(t) /\ (i - 1) + 1 = i
        BY <1>3, <1>4, <3>2
      <4>2. t[i - 1] = seq[i]
        BY <1>3, <4>1
      <4> QED
        BY <2>1, <4>1, <4>2
    <3> QED
      BY <3>1, <3>2
  <2>2. ASSUME NEW i \in 1..Len(t) PROVE t[i] # seq[1] /\ \E k \in 1..Len(seq) : seq[k] = t[i]
    BY <1>1, <1>3, <1>5
  <2> QED
    BY <2>1, <2>2
<1>9. Remains(j, t)
  BY <1>3, <1>7 DEF Remains, D
<1> QED
  BY <1>2, <1>5, <1>6, <1>8, <1>9 DEF t

\* A worker's rows are those that had not run, and after it have.
LEMMA WorkerGrows ==
    ASSUME NEW j \in Jobs, NEW q \in Nat, NEW seq, NEW second \in BOOLEAN, NEW got, NEW name,
           Remains(j, seq), seq # <<>>,
           name = Order(q, j, seq)[IF second THEN 2 ELSE 1],
           got \in Seq(Row), Len(got) = Len(Mine(j)[seq[1]]),
           \A i \in 1..Len(got) : /\ got[i].case = Mine(j)[seq[1]][i]
                                  /\ got[i].arm = name /\ got[i].pair = q
    PROVE  /\ name \in ToSet(j.arms)
           /\ Adds(j, got, q, name)
           /\ Grows(j, q, seq, second, IF second THEN Tail(seq) ELSE seq, ~second, got, name)
<1> DEFINE s == seq[1]
           B == Mine(j)[s]
<1>1. /\ s \in 1..Len(Mine(j))
      /\ \A t : (\A i \in 1..Len(Tail(seq)) : Tail(seq)[i] # t)
                   <=> (t = s \/ \A i \in 1..Len(seq) : seq[i] # t)
      /\ ~\A i \in 1..Len(seq) : seq[i] # s
  BY RemainsFacts
<1>2. /\ \A i \in 1..Len(B) : B[i] \in CasesOf(j) /\ PlaceOf(j, B[i]) = s
      /\ \A c \in CasesOf(j) : PlaceOf(j, c) = s => \E i \in 1..Len(B) : c = B[i]
      /\ \A i, k \in 1..Len(B) : B[i] = B[k] => i = k
  <2>1. \A i \in 1..Len(B) : B[i] \in CasesOf(j)
    BY <1>1, PlaceFacts
  <2>2. \A i \in 1..Len(B) : PlaceOf(j, B[i]) = s
    BY <1>1, PlaceFacts
  <2>3. \A c \in CasesOf(j) : PlaceOf(j, c) = s => \E i \in 1..Len(B) : c = B[i]
    <3>1. \A c \in CasesOf(j) : \E i \in 1..Len(Mine(j)[PlaceOf(j, c)]) : c = Mine(j)[PlaceOf(j, c)][i]
      BY PlaceFacts
    <3> QED
      BY <3>1
  <2>4. \A i, k \in 1..Len(B) : B[i] = B[k] => i = k
    <3>1. \A m, n \in 1..Len(Mine(j)) : \A i \in 1..Len(Mine(j)[m]), k \in 1..Len(Mine(j)[n]) :
             Mine(j)[m][i] = Mine(j)[n][k] => m = n /\ i = k
      BY MineFacts
    <3> QED
      BY <1>1, <3>1
  <2> QED
    BY <2>1, <2>2, <2>3, <2>4
<1>3. /\ Order(q, j, seq)[1] \in ToSet(j.arms) /\ Order(q, j, seq)[2] \in ToSet(j.arms)
      /\ Order(q, j, seq)[1] # Order(q, j, seq)[2]
      /\ \A a \in ToSet(j.arms) : a = Order(q, j, seq)[1] \/ a = Order(q, j, seq)[2]
      /\ \A c : PlaceOf(j, c) = s => Leader(j, q, c) = Order(q, j, seq)[1]
  BY TurnFacts
<1>4. Len(got) = Len(B) /\ \A i \in 1..Len(got) : got[i].case = B[i] /\ got[i].arm = name /\ got[i].pair = q
  BY SMTT(30)
<1> HIDE DEF s, B
<1>5. name \in ToSet(j.arms)
  BY <1>3
<1>6. Adds(j, got, q, name)
  BY <1>2, <1>4 DEF Adds
<1>7. \A c \in CasesOf(j) : (\E i \in 1..Len(got) : got[i].case = c) <=> PlaceOf(j, c) = s
  BY <1>2, <1>4
<1>8. \A i \in 1..Len(got) : got[i].case \in CasesOf(j) /\ PlaceOf(j, got[i].case) = s
  BY <1>2, <1>4
<1>9. CASE ~second
  <2>1. name = Order(q, j, seq)[1]
    BY <1>9
  <2>2. ASSUME NEW p \in Nat, NEW c \in CasesOf(j), NEW a \in ToSet(j.arms)
        PROVE  HasRun(j, q, seq, TRUE, p, c, a)
                  <=> \/ HasRun(j, q, seq, FALSE, p, c, a)
                      \/ p = q /\ a = name /\ PlaceOf(j, c) = s
    BY <1>3, <2>1 DEF HasRun, s
  <2>3. ASSUME NEW c \in CasesOf(j), PlaceOf(j, c) = s, NEW a
        PROVE  ~HasRun(j, q, seq, FALSE, q, c, a)
    BY <1>1, <2>3 DEF HasRun
  <2>4. Grows(j, q, seq, FALSE, seq, TRUE, got, name)
    BY <1>5, <1>7, <1>8, <2>2, <2>3 DEF Grows
  <2> QED
    BY <1>5, <1>6, <1>9, <2>4
<1>10. CASE second
  <2>1. name = Order(q, j, seq)[2]
    BY <1>10
  <2>2. ASSUME NEW p \in Nat, NEW c \in CasesOf(j), NEW a \in ToSet(j.arms)
        PROVE  HasRun(j, q, Tail(seq), FALSE, p, c, a)
                  <=> \/ HasRun(j, q, seq, TRUE, p, c, a)
                      \/ p = q /\ a = name /\ PlaceOf(j, c) = s
    <3>1. HasRun(j, q, Tail(seq), FALSE, p, c, a)
             <=> p < q \/ (p = q /\ (PlaceOf(j, c) = s \/ \A i \in 1..Len(seq) : seq[i] # PlaceOf(j, c)))
      BY <1>1 DEF HasRun
    <3>2. PlaceOf(j, c) = s => (a = Leader(j, q, c) \/ a = name)
      BY <1>3, <2>1
    <3>3. HasRun(j, q, seq, TRUE, p, c, a)
             <=> \/ p < q
                 \/ p = q /\ \A i \in 1..Len(seq) : seq[i] # PlaceOf(j, c)
                 \/ p = q /\ PlaceOf(j, c) = s /\ a = Leader(j, q, c)
      BY DEF HasRun, s
    <3> QED
      BY <3>1, <3>2, <3>3
  <2>3. ASSUME NEW c \in CasesOf(j), PlaceOf(j, c) = s
        PROVE  ~HasRun(j, q, seq, TRUE, q, c, name) /\ name # Leader(j, q, c)
    <3>1. name # Leader(j, q, c)
      BY <1>3, <2>1, <2>3
    <3> QED
      BY <1>1, <2>3, <3>1 DEF HasRun
  <2>4. Grows(j, q, seq, TRUE, Tail(seq), FALSE, got, name)
    BY <1>5, <1>7, <1>8, <2>2, <2>3 DEF Grows
  <2> QED
    BY <1>5, <1>6, <1>10, <2>4
<1> QED
  BY <1>9, <1>10

-----------------------------------------------------------------------------
(***************************************************************************)
(* Every step keeps the invariant: a process has the rows of what it ran,  *)
(* and a file those of all pairs up to one.                                *)
(***************************************************************************)
\* A new process has run nothing.
LEMMA LaunchOK ==
    ASSUME NEW j \in Jobs, NEW h \in Hosts, NEW l \in Nat, NEW seq \in Shuffled(j)
    PROVE  ProcOK(j, [pc |-> Stage(seq, FALSE), host |-> h, launch |-> l, pair |-> 0, seq |-> seq,
                      second |-> FALSE, rows |-> <<>>])
<1> DEFINE pr == [pc |-> Stage(seq, FALSE), host |-> h, launch |-> l, pair |-> 0, seq |-> seq,
                  second |-> FALSE, rows |-> <<>>]
<1>1. Stage(seq, FALSE) = IF seq = <<>> THEN "open" ELSE "batch"
  BY DEF Stage, SaveDue
<1>2. Remains(j, seq) /\ seq \in Seq(DOMAIN Mine(j))
  BY ShuffleFacts
<1>3. RowsRan(j, <<>>, 0, seq, FALSE)
  BY PairBegins
<1>4. OfOneRun(<<>>, h, l)
  BY DEF OfOneRun
<1>5. 0 \in 0..(Pairs - 1)
  BY BenchAssumption
<1>6. <<>> \in Seq(Row)
  BY EmptySeq
<1>7. pr \in Process(j)
  BY <1>1, <1>2, <1>5, <1>6 DEF Process
<1>8. /\ pr.pc = Stage(seq, FALSE) /\ pr.host = h /\ pr.launch = l /\ pr.pair = 0 /\ pr.seq = seq
      /\ pr.second = FALSE /\ pr.rows = <<>>
  OBVIOUS
<1> HIDE DEF pr
<1>9. ProcOK(j, pr)
  BY <1>1, <1>2, <1>3, <1>4, <1>7, <1>8 DEF ProcOK
<1> QED
  BY <1>9 DEF pr

\* A worker adds its rows.
LEMMA RunOK ==
    ASSUME NEW j \in Jobs, NEW pr, ProcOK(j, pr), pr.seq # <<>>,
           NEW name, name = Order(pr.pair, j, pr.seq)[IF pr.second THEN 2 ELSE 1],
           NEW got, BatchRows(got, Mine(j)[pr.seq[1]], pr, name),
           NEW seq, seq = (IF pr.second THEN Tail(pr.seq) ELSE pr.seq)
    PROVE  ProcOK(j, [pr EXCEPT !.pc = Stage(seq, ~pr.second), !.seq = seq, !.second = ~pr.second,
                                !.rows = pr.rows \o got])
<1> DEFINE new == [pr EXCEPT !.pc = Stage(seq, ~pr.second), !.seq = seq, !.second = ~pr.second,
                             !.rows = pr.rows \o got]
           q == pr.pair
<1>1. Stage(seq, ~pr.second) = IF seq = <<>> THEN "open" ELSE "batch"
  BY DEF Stage, SaveDue
<1>2. /\ pr \in Process(j) /\ Remains(j, pr.seq)
      /\ RowsRan(j, pr.rows, q, pr.seq, pr.second) /\ OfOneRun(pr.rows, pr.host, pr.launch)
  BY DEF ProcOK
<1>3. q \in 0..(Pairs - 1) /\ q \in Nat /\ pr.second \in BOOLEAN /\ pr.rows \in Seq(Row)
  <2>1. q \in 0..(Pairs - 1) /\ pr.second \in BOOLEAN /\ pr.rows \in Seq(Row)
    BY <1>2 DEF Process
  <2> QED
    BY <2>1, BenchAssumption
<1> DEFINE old == pr.seq
           sec == pr.second
           half == ~pr.second
           rows == pr.rows
<1>0. /\ Remains(j, old) /\ old # <<>> /\ sec \in BOOLEAN /\ half \in BOOLEAN /\ half = ~sec
      /\ name = Order(q, j, old)[IF sec THEN 2 ELSE 1] /\ seq = (IF sec THEN Tail(old) ELSE old)
      /\ RowsRan(j, rows, q, old, sec) /\ rows \in Seq(Row)
  BY <1>2, <1>3
<1>4. /\ got \in Seq(Row) /\ Len(got) = Len(Mine(j)[pr.seq[1]])
      /\ \A i \in 1..Len(got) : /\ got[i].case = Mine(j)[pr.seq[1]][i]
                                /\ got[i].arm = name /\ got[i].pair = q
      /\ OfOneRun(got, pr.host, pr.launch)
  BY DEF BatchRows
<1>5. /\ got \in Seq(Row) /\ Len(got) = Len(Mine(j)[old[1]])
      /\ \A i \in 1..Len(got) : /\ got[i].case = Mine(j)[old[1]][i]
                                /\ got[i].arm = name /\ got[i].pair = q
  BY <1>4
<1> HIDE DEF q, old, sec, half, rows
<1>6. /\ name \in ToSet(j.arms)
      /\ Adds(j, got, q, name)
      /\ Grows(j, q, old, sec, seq, half, got, name)
  <2>1. q \in Nat
    BY <1>3
  <2>2. /\ name \in ToSet(j.arms)
        /\ Adds(j, got, q, name)
        /\ Grows(j, q, old, sec, IF sec THEN Tail(old) ELSE old, ~sec, got, name)
    BY <1>0, <1>5, <2>1, WorkerGrows
  <2> QED
    BY <1>0, <2>2
<1>7. RowsRan(j, rows \o got, q, seq, half)
  <2>1. q \in Nat
    BY <1>3
  <2> QED
    BY <1>0, <1>6, <2>1, RowsMore
<1>8. Remains(j, seq) /\ seq \in Seq(DOMAIN Mine(j))
  <2>1. Remains(j, Tail(old))
    BY <1>0, RemainsFacts
  <2> QED
    BY <1>0, <2>1 DEF Remains
<1> DEFINE n == Len(rows)
           m == Len(got)
           all == rows \o got
<1>9. /\ n \in Nat /\ m \in Nat /\ all \in Seq(Row) /\ Len(all) = n + m
      /\ \A i \in 1..(n + m) : all[i] = IF i <= n THEN rows[i] ELSE got[i - n]
  <2>1. rows \in Seq(Row) /\ got \in Seq(Row)
    BY <1>0, <1>5
  <2>2. n \in Nat /\ m \in Nat
    BY ONLY <2>1, LenProperties
  <2>3. /\ all \in Seq(Row) /\ Len(all) = n + m
        /\ \A i \in 1..(n + m) : all[i] = IF i <= n THEN rows[i] ELSE got[i - n]
    BY ONLY <2>1, ConcatProperties
  <2> QED
    BY <2>2, <2>3
<1> HIDE DEF all, n, m
<1>10. OfOneRun(all, pr.host, pr.launch)
  <2> DEFINE h == pr.host
             l == pr.launch
  <2>1. \A i \in 1..Len(all) : \/ i \in 1..n /\ all[i] = rows[i]
                               \/ i - n \in 1..m /\ all[i] = got[i - n]
    BY <1>9
  <2>2. OfOneRun(rows, h, l) /\ OfOneRun(got, h, l)
    BY <1>2, <1>4 DEF rows
  <2> HIDE DEF h, l
  <2>3. OfOneRun(all, h, l)
    BY ONLY <2>1, <2>2 DEF OfOneRun, n, m
  <2> QED
    BY <2>3 DEF h, l
<1>11. new \in Process(j)
  BY <1>1, <1>2, <1>3, <1>8, <1>9 DEF Process, all, rows
<1>12. /\ new.pc = Stage(seq, ~pr.second) /\ new.host = pr.host /\ new.launch = pr.launch
       /\ new.pair = q /\ new.seq = seq /\ new.second = half /\ new.rows = all
  BY <1>2 DEF Process, all, rows, q, half
<1> HIDE DEF new
<1>13. seq = <<>> => ~half
  BY <1>0
<1>14. RowsRan(j, all, q, seq, half)
  BY <1>7 DEF all
<1>15. ProcOK(j, new)
  BY <1>1, <1>8, <1>10, <1>11, <1>12, <1>13, <1>14 DEF ProcOK
<1> QED
  BY <1>15 DEF new, rows

\* Saving changes nothing but where the process stands.
LEMMA SavedOK ==
    ASSUME NEW j \in Jobs, NEW pr, ProcOK(j, pr), pr.seq = <<>>
    PROVE  /\ ProcOK(j, [pr EXCEPT !.pc = "write"])
           /\ FileOK(j, [st |-> "whole", host |-> pr.host, arms |-> j.arms, pairs |-> Pairs,
                         rows |-> pr.rows])
           /\ \A seq \in Shuffled(j) : pr.pair + 1 # Pairs =>
                 ProcOK(j, [pr EXCEPT !.pc = Stage(seq, FALSE), !.pair = pr.pair + 1, !.seq = seq])
<1> DEFINE q == pr.pair
           rows == pr.rows
<1>1. /\ pr \in Process(j) /\ ~pr.second
      /\ RowsRan(j, rows, q, pr.seq, pr.second) /\ OfOneRun(rows, pr.host, pr.launch)
  BY DEF ProcOK
<1>2. /\ q \in 0..(Pairs - 1) /\ pr.second \in BOOLEAN /\ rows \in Seq(Row)
      /\ pr.host \in Hosts /\ pr.launch \in Nat
  BY <1>1 DEF Process
<1>3. q \in Nat /\ q + 1 \in Nat /\ (q + 1 # Pairs => q + 1 \in 0..(Pairs - 1))
  BY <1>2, BenchAssumption
<1>4. RowsRan(j, rows, q, <<>>, FALSE)
  <2>1. pr.second = FALSE
    BY <1>1, <1>2
  <2> QED
    BY <1>1, <2>1
<1>5. ProcOK(j, [pr EXCEPT !.pc = "write"])
  <2> DEFINE new == [pr EXCEPT !.pc = "write"]
  <2>1. new \in Process(j)
    BY <1>1 DEF Process
  <2>2. /\ new.pc = "write" /\ new.host = pr.host /\ new.launch = pr.launch /\ new.pair = q
        /\ new.seq = pr.seq /\ new.second = pr.second /\ new.rows = rows
    BY <1>1 DEF Process
  <2> HIDE DEF new
  <2>3. ProcOK(j, new)
    BY <1>1, <2>1, <2>2 DEF ProcOK
  <2> QED
    BY <2>3 DEF new
<1>6. FileOK(j, [st |-> "whole", host |-> pr.host, arms |-> j.arms, pairs |-> Pairs, rows |-> rows])
  <2> DEFINE f == [st |-> "whole", host |-> pr.host, arms |-> j.arms, pairs |-> Pairs, rows |-> rows]
  <2>1. f \in Whole(j) /\ f.rows = rows /\ f.host = pr.host
    BY <1>2 DEF Whole
  <2>2. OfOneRun(rows, pr.host, rows[1].launch)
    <3>1. ASSUME NEW i \in 1..Len(rows) PROVE rows[i].launch = rows[1].launch
      <4>1. Len(rows) \in Nat
        BY <1>2, LenProperties
      <4>2. 1 \in 1..Len(rows)
        BY <4>1
      <4> QED
        BY <1>1, <4>2 DEF OfOneRun
    <3> QED
      BY <1>1, <3>1 DEF OfOneRun
  <2> HIDE DEF f
  <2>3. FileOK(j, f)
    BY <1>2, <1>4, <2>1, <2>2 DEF FileOK, Full
  <2> QED
    BY <2>3 DEF f
<1>7. ASSUME NEW seq \in Shuffled(j), q + 1 # Pairs
      PROVE  ProcOK(j, [pr EXCEPT !.pc = Stage(seq, FALSE), !.pair = q + 1, !.seq = seq])
  <2> DEFINE new == [pr EXCEPT !.pc = Stage(seq, FALSE), !.pair = q + 1, !.seq = seq]
  <2>1. Stage(seq, FALSE) = IF seq = <<>> THEN "open" ELSE "batch"
    BY DEF Stage, SaveDue
  <2>2. Remains(j, seq) /\ seq \in Seq(DOMAIN Mine(j))
    BY ShuffleFacts
  <2>3. RunsLike(j, q, <<>>, FALSE, q + 1, seq, FALSE)
    BY <1>3, PairBegins
  <2>4. RowsRan(j, rows, q + 1, seq, FALSE)
    <3> DEFINE r == q + 1
               none == <<>>
    <3>1. /\ q \in Nat /\ r \in Nat
          /\ RowsRan(j, rows, q, none, FALSE) /\ RunsLike(j, q, none, FALSE, r, seq, FALSE)
      BY <1>3, <1>4, <2>3
    <3> HIDE DEF r, none, q, rows
    <3>2. RowsRan(j, rows, r, seq, FALSE)
      BY <3>1, RowsSame
    <3> QED
      BY <3>2 DEF r
  <2>5. new \in Process(j)
    BY <1>1, <1>3, <1>7, <2>1, <2>2 DEF Process
  <2>6. /\ new.pc = Stage(seq, FALSE) /\ new.host = pr.host /\ new.launch = pr.launch
        /\ new.pair = q + 1 /\ new.seq = seq /\ new.second = pr.second /\ new.rows = rows
    BY <1>1 DEF Process
  <2>7. pr.second = FALSE
    BY <1>1, <1>2
  <2> HIDE DEF new
  <2>8. ProcOK(j, new)
    BY <1>1, <2>1, <2>2, <2>4, <2>5, <2>6, <2>7 DEF ProcOK
  <2> QED
    BY <2>8 DEF new
<1> QED
  BY <1>5, <1>6, <1>7

\* The invariant holds when nothing has been started.
LEMMA BenchInvInit == BenchInit => BenchInv
<1> SUFFICES ASSUME BenchInit PROVE BenchInv
  OBVIOUS
<1>1. arm \in [ArmNames -> [so : {0} \cup Builds, meta : {0} \cup Builds]]
  BY DEF BenchInit, Builds
<1>2. proc = [j \in Jobs |-> Off] /\ file = [j \in Jobs |-> NoFile] /\ launches = 0
  BY DEF BenchInit
<1>3. \A j \in Jobs : proc[j] = Off /\ file[j] = NoFile
  BY <1>2
<1>4. proc = [j \in Jobs |-> proc[j]] /\ file = [j \in Jobs |-> file[j]]
  BY <1>2
<1> QED
  BY <1>1, <1>2, <1>3, <1>4 DEF BenchInv, FileOK

\* One job's process and file change, and stay in order.
LEMMA OneJob ==
    ASSUME BenchInv, NEW j \in Jobs, arm' = arm, launches' \in Nat,
           NEW pr, proc' = [proc EXCEPT ![j] = pr], pr = Off \/ ProcOK(j, pr),
           NEW f, file' = [file EXCEPT ![j] = f], FileOK(j, f)
    PROVE  BenchInv'
<1>1. /\ arm \in [ArmNames -> [so : {0} \cup Builds, meta : {0} \cup Builds]]
      /\ proc = [k \in Jobs |-> proc[k]] /\ file = [k \in Jobs |-> file[k]]
      /\ \A k \in Jobs : (proc[k] = Off \/ ProcOK(k, proc[k])) /\ FileOK(k, file[k])
  BY DEF BenchInv
<1>2. proc' = [k \in Jobs |-> proc'[k]] /\ file' = [k \in Jobs |-> file'[k]]
  BY <1>1
<1>3. \A k \in Jobs : /\ proc'[k] = IF k = j THEN pr ELSE proc[k]
                      /\ file'[k] = IF k = j THEN f ELSE file[k]
  BY <1>1
<1>4. \A k \in Jobs : (proc'[k] = Off \/ ProcOK(k, proc'[k])) /\ FileOK(k, file'[k])
  BY <1>1, <1>3
<1> QED
  BY <1>1, <1>2, <1>4 DEF BenchInv

\* A build leaves in its directory what the workers can tell apart.
LEMMA OneArm ==
    ASSUME BenchInv, proc' = proc, file' = file, launches' = launches, NEW a \in ArmNames,
           NEW v \in [so : {0} \cup Builds, meta : {0} \cup Builds], arm' = [arm EXCEPT ![a] = v]
    PROVE  BenchInv'
<1>1. arm' \in [ArmNames -> [so : {0} \cup Builds, meta : {0} \cup Builds]]
  BY DEF BenchInv
<1>2. /\ proc' = [k \in Jobs |-> proc'[k]] /\ file' = [k \in Jobs |-> file'[k]]
      /\ launches' \in Nat
      /\ \A k \in Jobs : (proc'[k] = Off \/ ProcOK(k, proc'[k])) /\ FileOK(k, file'[k])
  BY DEF BenchInv
<1> QED
  BY <1>1, <1>2 DEF BenchInv

\* What a running process is.
LEMMA OnProcess ==
    ASSUME BenchInv, NEW j \in Jobs, proc[j].pc # "off"
    PROVE  ProcOK(j, proc[j])
BY DEF BenchInv, Off

\* Every step keeps the invariant, whoever takes it.
LEMMA BenchInvNext == BenchInv /\ [BenchNext]_benchVars => BenchInv'
<1> SUFFICES ASSUME BenchInv, [BenchNext]_benchVars PROVE BenchInv'
  OBVIOUS
<1>1. /\ arm \in [ArmNames -> [so : {0} \cup Builds, meta : {0} \cup Builds]]
      /\ proc = [k \in Jobs |-> proc[k]] /\ file = [k \in Jobs |-> file[k]] /\ launches \in Nat
      /\ \A k \in Jobs : (proc[k] = Off \/ ProcOK(k, proc[k])) /\ FileOK(k, file[k])
  BY DEF BenchInv
<1>2. \A k \in Jobs : file = [file EXCEPT ![k] = file[k]]
  BY <1>1
<1>3. ASSUME NEW j \in Jobs, NEW h \in Hosts, Launch(j, h) PROVE BenchInv'
  <2>1. PICK seq \in Shuffled(j) :
           proc' = [proc EXCEPT ![j] = [pc |-> Stage(seq, FALSE), host |-> h, launch |-> launches + 1,
                                        pair |-> 0, seq |-> seq, second |-> FALSE, rows |-> <<>>]]
    BY <1>3 DEF Launch
  <2> DEFINE pr == [pc |-> Stage(seq, FALSE), host |-> h, launch |-> launches + 1,
                    pair |-> 0, seq |-> seq, second |-> FALSE, rows |-> <<>>]
  <2>2. launches + 1 \in Nat
    BY <1>1
  <2>3. ProcOK(j, pr)
    BY <2>2, LaunchOK
  <2>4. arm' = arm /\ file' = file /\ launches' = launches + 1
    BY <1>3 DEF Launch
  <2>5. proc' = [proc EXCEPT ![j] = pr]
    BY <2>1
  <2>6. file' = [file EXCEPT ![j] = file[j]] /\ FileOK(j, file[j]) /\ launches' \in Nat
    BY <1>1, <1>2, <2>2, <2>4
  <2> HIDE DEF pr
  <2> QED
    BY <2>3, <2>4, <2>5, <2>6, OneJob
<1>4. ASSUME NEW j \in Jobs, RunArm(j) PROVE BenchInv'
  <2> DEFINE pr == proc[j]
             batch == Mine(j)[pr.seq[1]]
             name == Order(pr.pair, j, pr.seq)[IF pr.second THEN 2 ELSE 1]
             seq == IF pr.second THEN Tail(pr.seq) ELSE pr.seq
             got(n, bad) == Printed(name, pr, batch, n, bad) \o Fillers(name, pr, batch, n)
             new(more) == [pr EXCEPT !.pc = Stage(seq, ~pr.second), !.seq = seq,
                                     !.second = ~pr.second, !.rows = pr.rows \o more]
  <2>1. /\ pr.pc = "batch" /\ pr.seq # <<>>
        /\ \E n \in 0..Len(batch) : \E bad \in SUBSET ToSet(SubSeq(batch, 1, n)) :
              (~Checked(arm[name]) => n = 0) /\ proc' = [proc EXCEPT ![j] = new(got(n, bad))]
        /\ arm' = arm /\ file' = file /\ launches' = launches
    BY <1>4 DEF RunArm
  <2>2. PICK n \in 0..Len(batch) : \E bad \in SUBSET ToSet(SubSeq(batch, 1, n)) :
              (~Checked(arm[name]) => n = 0) /\ proc' = [proc EXCEPT ![j] = new(got(n, bad))]
    BY <2>1
  <2>3. PICK bad \in SUBSET ToSet(SubSeq(batch, 1, n)) :
              (~Checked(arm[name]) => n = 0) /\ proc' = [proc EXCEPT ![j] = new(got(n, bad))]
    BY <2>2
  <2>4. ProcOK(j, pr)
    <3>1. proc[j].pc # "off"
      BY <2>1
    <3> QED
      BY <3>1, OnProcess
  <2> DEFINE old == pr.seq
  <2>5. pr \in Process(j) /\ Remains(j, old) /\ old # <<>>
    BY <2>1, <2>4 DEF ProcOK
  <2>6. old[1] \in 1..Len(Mine(j))
    <3> HIDE DEF old
    <3> QED
      BY <2>5, RemainsFacts
  <2>7. batch \in Seq(ToSet(CaseIds))
    BY <2>6, PlaceFacts
  <2>8. name \in ArmNames
    <3>1. /\ ToSet(j.arms) \subseteq ArmNames
          /\ Order(pr.pair, j, old)[1] \in ToSet(j.arms) /\ Order(pr.pair, j, old)[2] \in ToSet(j.arms)
      BY ArmFacts, TurnFacts
    <3> QED
      BY <3>1
  <2> DEFINE more == got(n, bad)
  <2>9. BatchRows(more, batch, pr, name)
    <3> HIDE DEF pr, batch, name, old
    <3> QED
      BY <1>1, <2>3, <2>5, <2>7, <2>8, WorkerRows
  <2>10. proc' = [proc EXCEPT ![j] = new(more)]
    BY <2>3
  <2> HIDE DEF more
  <2>11. ProcOK(j, new(more))
    <3>1. /\ ProcOK(j, pr) /\ pr.seq # <<>> /\ BatchRows(more, Mine(j)[pr.seq[1]], pr, name)
          /\ name = Order(pr.pair, j, pr.seq)[IF pr.second THEN 2 ELSE 1]
          /\ seq = (IF pr.second THEN Tail(pr.seq) ELSE pr.seq)
      BY <2>1, <2>4, <2>9
    <3> HIDE DEF pr, name, seq
    <3> QED
      BY <3>1, RunOK
  <2> DEFINE p == new(more)
  <2>12. /\ proc' = [proc EXCEPT ![j] = p] /\ ProcOK(j, p) /\ arm' = arm /\ launches' \in Nat
         /\ file' = [file EXCEPT ![j] = file[j]] /\ FileOK(j, file[j])
    BY <1>1, <1>2, <2>1, <2>10, <2>11
  <2> HIDE DEF p
  <2> QED
    BY <2>12, OneJob
<1>5. ASSUME NEW j \in Jobs, OpenFile(j) PROVE BenchInv'
  <2>1. /\ proc[j].pc = "open" /\ arm' = arm /\ launches' = launches
        /\ file' = [file EXCEPT ![j] = [st |-> "torn"]]
        /\ proc' = [proc EXCEPT ![j].pc = "write"]
    BY <1>5 DEF OpenFile
  <2>2. ProcOK(j, proc[j])
    <3>1. proc[j].pc # "off"
      BY <2>1
    <3> QED
      BY <3>1, OnProcess
  <2>3. proc[j].seq = <<>>
    BY <2>1, <2>2 DEF ProcOK
  <2> DEFINE old == proc[j]
             p == [proc[j] EXCEPT !.pc = "write"]
             f == [st |-> "torn"]
  <2>4. ProcOK(j, p)
    <3>1. ProcOK(j, old) /\ old.seq = <<>>
      BY <2>2, <2>3
    <3> HIDE DEF old
    <3>2. ProcOK(j, [old EXCEPT !.pc = "write"])
      BY <3>1, SavedOK
    <3> QED
      BY <3>2 DEF old
  <2>5. proc' = [proc EXCEPT ![j] = p] /\ file' = [file EXCEPT ![j] = f]
    BY <2>1
  <2>6. FileOK(j, f) /\ launches' \in Nat
    BY <1>1, <2>1 DEF FileOK
  <2> HIDE DEF p, f
  <2> QED
    BY <2>1, <2>4, <2>5, <2>6, OneJob
<1>6. ASSUME NEW j \in Jobs, WriteFile(j) PROVE BenchInv'
  <2> DEFINE pr == proc[j]
             next == pr.pair + 1
             f == [st |-> "whole", host |-> pr.host, arms |-> j.arms, pairs |-> Pairs, rows |-> pr.rows]
  <2>1. /\ pr.pc = "write" /\ arm' = arm /\ launches' = launches
        /\ file' = [file EXCEPT ![j] = f]
        /\ IF pr.seq # <<>> THEN proc' = [proc EXCEPT ![j].pc = "batch"]
           ELSE IF next = Pairs THEN proc' = [proc EXCEPT ![j] = Off]
           ELSE \E seq \in Shuffled(j) :
                   proc' = [proc EXCEPT ![j] = [pr EXCEPT !.pc = Stage(seq, FALSE),
                                                             !.pair = next, !.seq = seq]]
    BY <1>6 DEF WriteFile
  <2>2. ProcOK(j, pr)
    <3>1. proc[j].pc # "off"
      BY <2>1
    <3> QED
      BY <3>1, OnProcess
  <2>3. pr.seq = <<>>
    BY <2>1, <2>2 DEF ProcOK
  <2>4. /\ FileOK(j, f)
        /\ \A seq \in Shuffled(j) : next # Pairs =>
              ProcOK(j, [pr EXCEPT !.pc = Stage(seq, FALSE), !.pair = next, !.seq = seq])
    <3> HIDE DEF pr
    <3> QED
      BY <2>2, <2>3, SavedOK
  <2>5. PICK p : proc' = [proc EXCEPT ![j] = p] /\ (p = Off \/ ProcOK(j, p))
    <3>1. CASE next = Pairs
      BY <2>1, <2>3, <3>1
    <3>2. CASE next # Pairs
      <4>1. PICK seq \in Shuffled(j) :
               proc' = [proc EXCEPT ![j] = [pr EXCEPT !.pc = Stage(seq, FALSE),
                                                         !.pair = next, !.seq = seq]]
        BY <2>1, <2>3, <3>2
      <4>2. ProcOK(j, [pr EXCEPT !.pc = Stage(seq, FALSE), !.pair = next, !.seq = seq])
        BY <2>4, <3>2
      <4> QED
        BY <4>1, <4>2
    <3> QED
      BY <3>1, <3>2
  <2>6. launches' \in Nat /\ arm' = arm /\ file' = [file EXCEPT ![j] = f]
    BY <1>1, <2>1
  <2> HIDE DEF f, pr, next
  <2> QED
    BY <2>4, <2>5, <2>6, OneJob
<1>7. ASSUME NEW j \in Jobs, Kill(j) PROVE BenchInv'
  <2>1. /\ proc' = [proc EXCEPT ![j] = Off] /\ arm' = arm /\ launches' \in Nat
        /\ file' = [file EXCEPT ![j] = file[j]] /\ FileOK(j, file[j])
    BY <1>1, <1>2, <1>7 DEF Kill
  <2> QED
    BY <2>1, OneJob
<1>8. Rebuilt \in ArmNames
  BY RebuiltAssumption DEF ArmNames
<1> DEFINE a == Rebuilt
           held == arm[a]
<1>9. /\ held \in [so : {0} \cup Builds, meta : {0} \cup Builds]
      /\ held.so \in {0} \cup Builds /\ held.meta \in {0} \cup Builds
      /\ held = [so |-> held.so, meta |-> held.meta]
  BY <1>1, <1>8
<1>10. NewBuild \in Builds
  BY DEF Builds
<1>11. CASE Clear(a)
  <2>1. PICK so \in {0, held.so} : \E meta \in {0, held.meta} :
           arm' = [arm EXCEPT ![a] = [so |-> so, meta |-> meta]]
    BY <1>11 DEF Clear
  <2>2. PICK meta \in {0, held.meta} : arm' = [arm EXCEPT ![a] = [so |-> so, meta |-> meta]]
    BY <2>1
  <2> DEFINE v == [so |-> so, meta |-> meta]
  <2>3. v \in [so : {0} \cup Builds, meta : {0} \cup Builds] /\ arm' = [arm EXCEPT ![a] = v]
    BY <1>9, <2>2
  <2>4. proc' = proc /\ file' = file /\ launches' = launches
    BY <1>11 DEF Clear
  <2> HIDE DEF v
  <2> QED
    BY <1>8, <2>3, <2>4, OneArm
<1>12. CASE Unpack(a)
  <2> DEFINE v == [held EXCEPT !.so = NewBuild]
  <2>1. /\ v \in [so : {0} \cup Builds, meta : {0} \cup Builds] /\ arm' = [arm EXCEPT ![a] = v]
        /\ proc' = proc /\ file' = file /\ launches' = launches
    BY <1>9, <1>10, <1>12 DEF Unpack
  <2> HIDE DEF v
  <2> QED
    BY <1>8, <2>1, OneArm
<1>13. CASE Describe(a)
  <2> DEFINE v == [held EXCEPT !.meta = NewBuild]
  <2>1. /\ v \in [so : {0} \cup Builds, meta : {0} \cup Builds] /\ arm' = [arm EXCEPT ![a] = v]
        /\ proc' = proc /\ file' = file /\ launches' = launches
    BY <1>9, <1>10, <1>13 DEF Describe
  <2> HIDE DEF v
  <2> QED
    BY <1>8, <2>1, OneArm
<1>14. CASE UNCHANGED benchVars
  <2>1. arm' = arm /\ proc' = proc /\ file' = file /\ launches' = launches
    BY <1>14 DEF benchVars
  <2> QED
    BY <2>1 DEF BenchInv
<1> QED
  BY <1>3, <1>4, <1>5, <1>6, <1>7, <1>11, <1>12, <1>13, <1>14 DEF BenchNext

\* Whatever is killed, raises or is rebuilt: a process and its file hold the
\* rows of what ran, in the order it ran.
THEOREM BenchInvariant == BenchSpec => []BenchInv
<1> QED
  BY BenchInvInit, BenchInvNext, PTL DEF BenchSpec

-----------------------------------------------------------------------------
(***************************************************************************)
(* A readable file, counted.                                               *)
(***************************************************************************)
\* A table that holds the rows of the pairs up to the q-th, one each.
LEMMA FullFacts ==
    ASSUME NEW j \in Jobs, NEW q \in Nat, NEW rows, Full(j, rows, q)
    PROVE  /\ rows \in Seq(Row) /\ Len(rows) \in Nat /\ DOMAIN rows = 1..Len(rows)
           /\ \A i \in 1..Len(rows) : /\ rows[i].pair \in 0..q
                                      /\ rows[i].case \in CasesOf(j) /\ rows[i].arm \in ToSet(j.arms)
           /\ \A p \in 0..q, c \in CasesOf(j), a \in ToSet(j.arms) :
                 HasRow(rows, p, c, a)
           /\ \A i, k \in 1..Len(rows) :
                 rows[i].pair = rows[k].pair /\ rows[i].case = rows[k].case =>
                    /\ rows[i].arm = rows[k].arm => i = k
                    /\ rows[i].arm = Leader(j, rows[i].pair, rows[i].case) => i <= k
           /\ \A c \in CasesOf(j) : {rows[i].pair : i \in DOMAIN rows} = 0..q
<1>1. rows \in Seq(Row) /\ Len(rows) \in Nat /\ DOMAIN rows = 1..Len(rows)
      /\ \A i \in 1..Len(rows) : rows[i].pair \in Nat
  <2>1. rows \in Seq(Row)
    BY DEF RowsRan, Full
  <2> QED
    BY <2>1, RowTypes
<1>2. Len(<<>>) = 0 /\ 1..0 = {}
  OBVIOUS
<1>3. ASSUME NEW p \in Nat, NEW c, NEW a
      PROVE  HasRun(j, q, <<>>, FALSE, p, c, a) <=> p \in 0..q
  <2>1. p \in 0..q <=> p < q \/ p = q
    OBVIOUS
  <2> QED
    BY <1>2, <2>1 DEF HasRun
<1>4. \A i \in 1..Len(rows) : /\ rows[i].pair \in 0..q
                              /\ rows[i].case \in CasesOf(j) /\ rows[i].arm \in ToSet(j.arms)
  BY <1>1, <1>3 DEF RowsRan, Full
<1>5. \A p \in 0..q, c \in CasesOf(j), a \in ToSet(j.arms) :
         HasRow(rows, p, c, a)
  <2> SUFFICES ASSUME NEW p \in 0..q, NEW c \in CasesOf(j), NEW a \in ToSet(j.arms)
               PROVE  HasRow(rows, p, c, a)
    OBVIOUS
  <2>1. p \in Nat
    OBVIOUS
  <2>2. HasRun(j, q, <<>>, FALSE, p, c, a)
    BY <1>3, <2>1
  <2>3. \A x \in 0..q, y \in CasesOf(j), z \in ToSet(j.arms) :
           HasRun(j, q, <<>>, FALSE, x, y, z)
              => HasRow(rows, x, y, z)
    BY DEF RowsRan, Full
  <2> QED
    BY <2>2, <2>3
<1>6. \A i, k \in 1..Len(rows) :
         rows[i].pair = rows[k].pair /\ rows[i].case = rows[k].case =>
            /\ rows[i].arm = rows[k].arm => i = k
            /\ rows[i].arm = Leader(j, rows[i].pair, rows[i].case) => i <= k
  BY DEF RowsRan, Full
<1>7. ASSUME NEW c \in CasesOf(j) PROVE {rows[i].pair : i \in DOMAIN rows} = 0..q
  <2>1. j.arms[1] \in ToSet(j.arms)
    BY ArmFacts
  <2>2. \A p \in 0..q : \E i \in DOMAIN rows : rows[i].pair = p
    <3> SUFFICES ASSUME NEW p \in 0..q PROVE \E i \in DOMAIN rows : rows[i].pair = p
      OBVIOUS
    <3>1. HasRow(rows, p, c, j.arms[1])
      BY <1>5, <2>1
    <3> QED
      BY <1>1, <3>1 DEF HasRow
  <2> QED
    BY <1>1, <1>4, <2>2
<1> QED
  BY <1>1, <1>4, <1>5, <1>6, <1>7

\* A readable file is such a table, of one run.
LEMMA ReadableFacts ==
    ASSUME BenchInv, NEW j \in Readable
    PROVE  /\ j \in Jobs /\ file[j].arms = j.arms /\ file[j].host \in Hosts
           /\ file[j].rows \in Seq(Row)
           /\ \E q \in Nat : Full(j, file[j].rows, q)
           /\ OfOneRun(file[j].rows, file[j].host, file[j].rows[1].launch)
<1> DEFINE f == file[j]
<1>1. j \in Jobs /\ f.st = "whole"
  BY DEF Readable
<1>2. FileOK(j, f)
  BY <1>1 DEF BenchInv
<1>3. f # NoFile /\ f # [st |-> "torn"]
  BY <1>1 DEF NoFile
<1> HIDE DEF f
<1>4. /\ f \in Whole(j)
      /\ \E q \in 0..(Pairs - 1) : Full(j, f.rows, q)
      /\ OfOneRun(f.rows, f.host, f.rows[1].launch)
  BY <1>2, <1>3 DEF FileOK
<1>5. f.arms = j.arms /\ f.host \in Hosts /\ f.rows \in Seq(Row)
  BY <1>4 DEF Whole
<1>6. \E q \in Nat : Full(j, f.rows, q)
  <2>1. \A q \in 0..(Pairs - 1) : q \in Nat
    BY BenchAssumption
  <2> QED
    BY <1>4, <2>1
<1> QED
  BY <1>1, <1>4, <1>5, <1>6 DEF f

\* The cases of a job are finitely many.
LEMMA CasesFinite ==
    ASSUME NEW j
    PROVE  IsFiniteSet(CasesOf(j))
<1>1. CaseIds \in Seq(ToSet(CaseIds)) /\ Len(CaseIds) \in Nat /\ DOMAIN CaseIds = 1..Len(CaseIds)
  BY CasesAssumption, LenProperties
<1>2. CaseIds \in Surjection(1..Len(CaseIds), ToSet(CaseIds))
  <2>1. CaseIds \in [1..Len(CaseIds) -> ToSet(CaseIds)]
    BY <1>1, LenProperties
  <2>2. \A c \in ToSet(CaseIds) : \E i \in 1..Len(CaseIds) : CaseIds[i] = c
    BY <1>1 DEF ToSet
  <2> QED
    BY <2>1, <2>2 DEF Surjection
<1>3. IsFiniteSet(1..Len(CaseIds))
  BY <1>1, FS_Interval
<1>4. IsFiniteSet(ToSet(CaseIds))
  BY <1>2, <1>3, FS_Surjection
<1> QED
  BY <1>4, PlaceFacts, FS_Subset

\* A row of every case, either arm and every pair makes so many rows.
LEMMA RowCount ==
    ASSUME NEW j \in Jobs, NEW q \in Nat, NEW rows, Full(j, rows, q)
    PROVE  Len(rows) = Cardinality(CasesOf(j)) * 2 * Cardinality({rows[i].pair : i \in DOMAIN rows})
<1> DEFINE C == CasesOf(j)
           A == ToSet(j.arms)
           D == {rows[i].pair : i \in DOMAIN rows}
           n == Len(rows)
           key == [i \in 1..n |-> <<<<rows[i].case, rows[i].arm>>, rows[i].pair>>]
<1>1. /\ n \in Nat /\ DOMAIN rows = 1..n
      /\ \A i \in 1..n : rows[i].pair \in 0..q /\ rows[i].case \in C /\ rows[i].arm \in A
      /\ \A p \in 0..q, c \in C, a \in A :
            HasRow(rows, p, c, a)
      /\ \A i, k \in 1..n : rows[i].pair = rows[k].pair /\ rows[i].case = rows[k].case
                               /\ rows[i].arm = rows[k].arm => i = k
  <2>1. /\ Len(rows) \in Nat /\ DOMAIN rows = 1..Len(rows)
        /\ \A i \in 1..Len(rows) : /\ rows[i].pair \in 0..q
                                   /\ rows[i].case \in CasesOf(j) /\ rows[i].arm \in ToSet(j.arms)
        /\ \A p \in 0..q, c \in CasesOf(j), a \in ToSet(j.arms) :
              HasRow(rows, p, c, a)
        /\ \A i, k \in 1..Len(rows) :
              rows[i].pair = rows[k].pair /\ rows[i].case = rows[k].case =>
                 /\ rows[i].arm = rows[k].arm => i = k
                 /\ rows[i].arm = Leader(j, rows[i].pair, rows[i].case) => i <= k
    BY FullFacts
  <2> QED
    BY <2>1
<1>2. D \subseteq 0..q
  BY <1>1
<1>3. \A i \in 1..n : rows[i].pair \in D
  BY <1>1
<1>4. IsFiniteSet(D)
  <2>1. IsFiniteSet(0..q)
    BY FS_Interval
  <2> HIDE DEF D
  <2> QED
    BY <1>2, <2>1, FS_Subset
<1>5. IsFiniteSet(C)
  BY CasesFinite
<1>6. IsFiniteSet(A) /\ Cardinality(A) = 2
  <2>1. A = {j.arms[1]} \cup {j.arms[2]} /\ j.arms[2] \notin {j.arms[1]}
    BY ArmFacts
  <2> DEFINE x == j.arms[1]
             y == j.arms[2]
  <2> HIDE DEF A, x, y
  <2>2. IsFiniteSet({x}) /\ Cardinality({x}) = 1
    BY FS_Singleton
  <2>3. IsFiniteSet({x} \cup {y}) /\ Cardinality({x} \cup {y}) = IF y \in {x} THEN 1 ELSE 1 + 1
    BY <2>2, FS_AddElement
  <2> QED
    BY <2>1, <2>3 DEF x, y
<1> HIDE DEF D, C, A, n
<1>7. /\ IsFiniteSet(C \X A) /\ Cardinality(C \X A) = Cardinality(C) * Cardinality(A)
  BY <1>5, <1>6, FS_Product
<1>8. /\ IsFiniteSet((C \X A) \X D)
      /\ Cardinality((C \X A) \X D) = Cardinality(C \X A) * Cardinality(D)
  BY <1>4, <1>7, FS_Product
<1>9. key \in Bijection(1..n, (C \X A) \X D)
  <2>1. key \in [1..n -> (C \X A) \X D]
    BY <1>1, <1>3
  <2>2. ASSUME NEW i \in 1..n, NEW k \in 1..n, key[i] = key[k] PROVE i = k
    <3>1. key[i] = <<<<rows[i].case, rows[i].arm>>, rows[i].pair>>
          /\ key[k] = <<<<rows[k].case, rows[k].arm>>, rows[k].pair>>
      OBVIOUS
    <3>2. rows[i].pair = rows[k].pair /\ rows[i].case = rows[k].case /\ rows[i].arm = rows[k].arm
      BY <2>2, <3>1
    <3> QED
      BY <1>1, <3>2
  <2>3. ASSUME NEW t \in (C \X A) \X D PROVE \E i \in 1..n : key[i] = t
    <3>1. PICK c \in C, a \in A, p \in D : t = <<<<c, a>>, p>>
      OBVIOUS
    <3>2. p \in 0..q
      BY <1>2
    <3>3. PICK i \in 1..n : rows[i].pair = p /\ rows[i].case = c /\ rows[i].arm = a
      <4>1. HasRow(rows, p, c, a)
        BY <1>1, <3>1, <3>2
      <4> QED
        BY <4>1 DEF HasRow, n
    <3> QED
      BY <3>1, <3>3
  <2> HIDE DEF key
  <2> QED
    BY <2>1, <2>2, <2>3 DEF Bijection, Injection, IsInjective, Surjection
<1>10. Cardinality((C \X A) \X D) = Cardinality(1..n)
  <2>1. ExistsBijection(1..n, (C \X A) \X D)
    BY <1>9 DEF ExistsBijection
  <2>2. IsFiniteSet(1..n)
    BY <1>1, FS_Interval
  <2> QED
    BY <2>1, <2>2, FS_Bijection
<1>11. Cardinality(1..n) = n
  BY <1>1, FS_Interval
<1>12. n = Cardinality(C) * 2 * Cardinality(D)
  BY <1>6, <1>7, <1>8, <1>10, <1>11
<1> QED
  BY <1>12 DEF n, C, D

\* Half of an even stretch of pairs has the parity a batch's place asks for.
LEMMA HalfOfThem ==
    ASSUME NEW q \in Nat, (q + 1) % 2 = 0, NEW s \in Nat
    PROVE  2 * Cardinality({p \in 0..q : (p + s - 1) % 2 = 0}) = q + 1
<1> DEFINE H == {p \in 0..q : (p + s - 1) % 2 = 0}
<1>1. PICK m \in Nat : q + 1 = 2 * m
  <2>1. (q + 1) \div 2 \in Nat /\ q + 1 = 2 * ((q + 1) \div 2)
    OBVIOUS
  <2> QED
    BY <2>1
<1>2. PICK r \in {0, 1} : \E u \in Int : s - 1 = 2 * u + r
  <2>1. (s - 1) % 2 \in {0, 1} /\ (s - 1) \div 2 \in Int
        /\ s - 1 = 2 * ((s - 1) \div 2) + ((s - 1) % 2)
    OBVIOUS
  <2> QED
    BY <2>1
<1>3. PICK u \in Int : s - 1 = 2 * u + r
  BY <1>2
<1> DEFINE f == [i \in 1..m |-> 2 * (i - 1) + r]
<1>4. ASSUME NEW i \in 1..m PROVE f[i] \in H
  <2>1. f[i] = 2 * (i - 1) + r /\ f[i] \in 0..q
    BY <1>1, <1>2
  <2>2. f[i] + s - 1 = 2 * (i - 1 + u + r)
    BY <1>3, <2>1
  <2>3. (2 * (i - 1 + u + r)) % 2 = 0
    BY <1>2, <1>3
  <2> QED
    BY <2>1, <2>2, <2>3
<1>5. ASSUME NEW i \in 1..m, NEW k \in 1..m, f[i] = f[k] PROVE i = k
  BY <1>2, <1>5
<1>6. ASSUME NEW p \in H PROVE \E i \in 1..m : f[i] = p
  <2>1. p \in 0..q /\ (p + s - 1) % 2 = 0
    OBVIOUS
  <2>2. PICK v \in Int : p + s - 1 = 2 * v
    <3>1. (p + s - 1) \div 2 \in Int /\ p + s - 1 = 2 * ((p + s - 1) \div 2)
      BY <2>1
    <3> QED
      BY <3>1
  <2>3. p = 2 * (v - u - r) + r
    BY <1>2, <1>3, <2>1, <2>2
  <2> DEFINE i == v - u - r + 1
  <2>4. i \in 1..m
    BY <1>1, <1>2, <2>1, <2>3
  <2>5. f[i] = p
    BY <2>3, <2>4
  <2> QED
    BY <2>4, <2>5
<1>7. f \in Bijection(1..m, H)
  <2>1. DOMAIN f = 1..m /\ f = [i \in 1..m |-> f[i]]
    OBVIOUS
  <2> HIDE DEF f, H
  <2>2. f \in [1..m -> H]
    BY <1>4, <2>1
  <2> QED
    BY <1>5, <1>6, <2>2 DEF Bijection, Injection, IsInjective, Surjection
<1> HIDE DEF f, H
<1>8. Cardinality(H) = Cardinality(1..m)
  <2>1. ExistsBijection(1..m, H)
    BY <1>7 DEF ExistsBijection
  <2>2. IsFiniteSet(1..m)
    BY FS_Interval
  <2> QED
    BY <2>1, <2>2, FS_Bijection
<1>9. Cardinality(1..m) = m
  BY FS_Interval
<1> QED
  BY <1>1, <1>8, <1>9 DEF H

\* A table of all pairs up to one has one row of each case, arm and pair.
LEMMA KeptOnce ==
    ASSUME NEW j \in Jobs, NEW q \in Nat, NEW rows, Full(j, rows, q),
           NEW c \in CasesOf(j), NEW a \in ToSet(j.arms), NEW p \in 0..q
    PROVE  Cardinality(Kept(rows, c, a, p)) = 1
<1>1. HasRow(rows, p, c, a) /\ DOMAIN rows = 1..Len(rows)
  BY FullFacts
<1>2. PICK i \in 1..Len(rows) : rows[i].pair = p /\ rows[i].case = c /\ rows[i].arm = a
  BY <1>1 DEF HasRow
<1>3. \A k \in 1..Len(rows) : rows[k].pair = p /\ rows[k].case = c /\ rows[k].arm = a => k = i
  <2>1. \A x, y \in 1..Len(rows) :
           rows[x].pair = rows[y].pair /\ rows[x].case = rows[y].case =>
              /\ rows[x].arm = rows[y].arm => x = y
              /\ rows[x].arm = Leader(j, rows[x].pair, rows[x].case) => x <= y
    BY FullFacts
  <2> QED
    BY <1>2, <2>1
<1>4. Kept(rows, c, a, p) = {i}
  BY <1>1, <1>2, <1>3 DEF Kept
<1> QED
  BY <1>4, FS_Singleton

\* No failed worker drops a row, and what has no error says what it ran and where.
LEMMA CompleteInv == BenchInv => RowsComplete
<1> SUFFICES ASSUME BenchInv, NEW j \in Readable
             PROVE  LET rows == file[j].rows
                        done == {rows[i].pair : i \in DOMAIN rows}
                    IN  /\ \A c \in CasesOf(j), a \in ToSet(j.arms), p \in done :
                              Cardinality(Kept(rows, c, a, p)) = 1
                        /\ Len(rows) = Cardinality(CasesOf(j)) * 2 * Cardinality(done)
                        /\ \A i \in DOMAIN rows :
                              ~rows[i].error => rows[i].so \in DOMAIN ResultOf /\ rows[i].host \in Hosts
  BY DEF RowsComplete
<1> DEFINE rows == file[j].rows
           done == {rows[i].pair : i \in DOMAIN rows}
           h == file[j].host
<1>1. j \in Jobs /\ h \in Hosts /\ OfOneRun(rows, h, rows[1].launch)
  BY ReadableFacts
<1>2. PICK q \in Nat : Full(j, rows, q)
  BY ReadableFacts
<1> HIDE DEF rows
<1>3. DOMAIN rows = 1..Len(rows) /\ \A c \in CasesOf(j) : done = 0..q
  BY <1>1, <1>2, FullFacts
<1>4. \A c \in CasesOf(j), a \in ToSet(j.arms), p \in done : Cardinality(Kept(rows, c, a, p)) = 1
  <2> SUFFICES ASSUME NEW c \in CasesOf(j), NEW a \in ToSet(j.arms), NEW p \in done
               PROVE  Cardinality(Kept(rows, c, a, p)) = 1
    OBVIOUS
  <2> HIDE DEF done
  <2>1. p \in 0..q
    BY <1>3
  <2> QED
    BY <1>1, <1>2, <2>1, KeptOnce
<1>5. Len(rows) = Cardinality(CasesOf(j)) * 2 * Cardinality(done)
  BY <1>1, <1>2, RowCount
<1>6. \A i \in DOMAIN rows : ~rows[i].error => rows[i].so \in DOMAIN ResultOf /\ rows[i].host \in Hosts
  BY <1>1, <1>3, ResultAssumption DEF OfOneRun, Builds
<1> QED
  BY <1>4, <1>5, <1>6 DEF rows

\* The arm whose turn it is stands first in a case's pair.
LEMMA LeaderFirst ==
    ASSUME NEW j \in Jobs, NEW q \in Nat, NEW rows, Full(j, rows, q),
           NEW c \in CasesOf(j), NEW p \in 0..q
    PROVE  rows[Min({i \in DOMAIN rows : rows[i].case = c /\ rows[i].pair = p})].arm = Leader(j, p, c)
<1> DEFINE X == {i \in DOMAIN rows : rows[i].case = c /\ rows[i].pair = p}
           l == Leader(j, p, c)
<1>1. HasRow(rows, p, c, l) /\ DOMAIN rows = 1..Len(rows) /\ Len(rows) \in Nat
  <2>1. l \in ToSet(j.arms)
    BY ArmFacts
  <2> HIDE DEF l
  <2> QED
    BY <2>1, FullFacts
<1>2. PICK i \in 1..Len(rows) : rows[i].pair = p /\ rows[i].case = c /\ rows[i].arm = l
  BY <1>1 DEF HasRow
<1>3. \A x, y \in 1..Len(rows) :
         rows[x].pair = rows[y].pair /\ rows[x].case = rows[y].case =>
            /\ rows[x].arm = rows[y].arm => x = y
            /\ rows[x].arm = Leader(j, rows[x].pair, rows[x].case) => x <= y
  BY FullFacts
<1>4. \A k \in X : i <= k
  BY <1>1, <1>2, <1>3
<1>5. IsFiniteSet(X) /\ X # {} /\ (\A k \in X : k \in Int) /\ i \in X
  <2>1. X \in SUBSET (1..Len(rows)) /\ i \in X
    BY <1>1, <1>2
  <2> HIDE DEF X
  <2>2. IsFiniteSet(1..Len(rows))
    BY <1>1, FS_Interval
  <2>3. IsFiniteSet(X)
    BY <2>1, <2>2, FS_Subset
  <2>4. \A k \in X : k \in 1..Len(rows)
    BY <2>1
  <2> QED
    BY <2>1, <2>3, <2>4
<1> HIDE DEF X
<1>6. Min(X) \in X /\ \A k \in X : Min(X) <= k
  BY <1>5, Extremes
<1>7. Min(X) = i
  <2>1. Min(X) <= i /\ i <= Min(X) /\ Min(X) \in Int /\ i \in Int
    BY <1>4, <1>5, <1>6
  <2> QED
    BY <2>1
<1> QED
  BY <1>2, <1>7 DEF X

\* The turns alternate from pair to pair and from batch to batch.
LEMMA EquallyInv == BenchInv => ArmsRunFirstEqually
<1> SUFFICES ASSUME BenchInv, NEW j \in Readable, NEW c \in CasesOf(j),
                    Cardinality({file[j].rows[i].pair : i \in DOMAIN file[j].rows}) % 2 = 0
             PROVE  LET rows == file[j].rows
                        done == {rows[i].pair : i \in DOMAIN rows}
                        first(x, p) == rows[Min({i \in DOMAIN rows : rows[i].case = x /\ rows[i].pair = p})].arm
                    IN  2 * Cardinality({p \in done : first(c, p) = j.arms[1]}) = Cardinality(done)
  BY DEF ArmsRunFirstEqually
<1> DEFINE rows == file[j].rows
           done == {rows[i].pair : i \in DOMAIN rows}
           first(x, p) == rows[Min({i \in DOMAIN rows : rows[i].case = x /\ rows[i].pair = p})].arm
           s == PlaceOf(j, c)
<1>1. j \in Jobs
  BY ReadableFacts
<1>2. PICK q \in Nat : Full(j, rows, q)
  BY ReadableFacts
<1>3. Cardinality(done) % 2 = 0
  OBVIOUS
<1> HIDE DEF rows
<1>4. done = 0..q
  BY <1>1, <1>2, FullFacts
<1>5. \A p \in 0..q : first(c, p) = Leader(j, p, c)
  BY <1>1, <1>2, LeaderFirst
<1>6. \A p : Leader(j, p, c) = j.arms[1] <=> (p + s - 1) % 2 = 0
  BY <1>1, ArmFacts DEF Leader
<1>7. s \in Nat
  <2>1. s \in 1..Len(Mine(j)) /\ Len(Mine(j)) \in Nat
    BY PlaceFacts
  <2> QED
    BY <2>1
<1> HIDE DEF done, first, s
<1>8. {p \in done : first(c, p) = j.arms[1]} = {p \in 0..q : (p + s - 1) % 2 = 0}
  BY <1>4, <1>5, <1>6
<1>9. Cardinality(done) = q + 1
  BY <1>4, FS_Interval
<1>10. 2 * Cardinality({p \in 0..q : (p + s - 1) % 2 = 0}) = q + 1
  <2>1. (q + 1) % 2 = 0
    BY <1>3, <1>9
  <2> QED
    BY <1>7, <2>1, HalfOfThem
<1>11. 2 * Cardinality({p \in done : first(c, p) = j.arms[1]}) = Cardinality(done)
  BY <1>8, <1>9, <1>10
<1> QED
  BY <1>11 DEF rows, done, first

\* Every readable file is complete, for any shuffles, sharding and faults: each
\* pair it has holds one row of every case of the shard and either arm.
THEOREM FilesComplete == BenchSpec => []RowsComplete
<1> QED
  BY BenchInvariant, CompleteInv, PTL

\* After any even number of pairs each arm has gone first in half of a case's
\* pairs: the parity of pair and place decides it, not the shuffle.
THEOREM FirstEqually == BenchSpec => []ArmsRunFirstEqually
<1> QED
  BY BenchInvariant, EquallyInv, PTL

-----------------------------------------------------------------------------
(***************************************************************************)
(* Merges and reports.                                                     *)
(***************************************************************************)
\* What every file keeps, when it is joined to what keeps it, a merge keeps.
LEMMA MergedIn ==
    ASSUME NEW paths, NEW D, Len(paths) \in Nat, <<>> \in D,
           \A s \in D, i \in 1..Len(paths) : s \o file[paths[i]].rows \in D
    PROVE  MergedRows(paths) \in D
<1> DEFINE n == Len(paths)
           step == [i \in 1..n |-> [s \in D |-> s \o file[paths[i]].rows]]
           joined == CHOOSE joined : joined = [i \in 0..n |-> IF i = 0 THEN <<>>
                                                               ELSE joined[i - 1] \o file[paths[i]].rows]
<1>1. n \in Nat /\ \A i \in 1..n : i - 1 \in 0..n
  OBVIOUS
<1>2. step \in [1..n -> [D -> D]] /\ \A i \in 1..n, s \in D : step[i][s] = s \o file[paths[i]].rows
  OBVIOUS
<1>3. MergedRows(paths) = joined[n]
  BY DEF MergedRows
<1> HIDE DEF n, step
<1>4. PICK g : Loops(g, D, n, <<>>, step)
  BY <1>1, <1>2, Iterates
<1>5. /\ g \in [0..n -> D] /\ g[0] = <<>>
      /\ \A i \in 1..n : g[i] = step[i][g[i - 1]]
  BY <1>4 DEF Loops
<1>6. ASSUME NEW i \in 1..n PROVE g[i] = g[i - 1] \o file[paths[i]].rows
  <2>1. g[i - 1] \in D
    BY <1>1, <1>5
  <2> QED
    BY <1>2, <1>5, <2>1
<1>7. g = [i \in 0..n |-> IF i = 0 THEN <<>> ELSE g[i - 1] \o file[paths[i]].rows]
  <2>1. \A i \in 0..n : g[i] = IF i = 0 THEN <<>> ELSE g[i - 1] \o file[paths[i]].rows
    <3>1. \A i \in 0..n : i # 0 => i \in 1..n
      BY <1>1
    <3> QED
      BY <1>5, <1>6, <3>1
  <2>2. g = [i \in 0..n |-> g[i]]
    BY ONLY <1>5
  <2> QED
    BY ONLY <2>1, <2>2
<1>8. joined = [i \in 0..n |-> IF i = 0 THEN <<>> ELSE joined[i - 1] \o file[paths[i]].rows]
  BY <1>7
<1> HIDE DEF joined
<1> DEFINE Bad == {i \in 0..n : joined[i] \notin D}
<1>9. Bad = {}
  <2> SUFFICES ASSUME Bad # {} PROVE FALSE
    OBVIOUS
  <2>1. Bad \in SUBSET Nat
    BY <1>1
  <2>2. PICK i \in Bad : \A k \in Bad : i <= k
    <3> HIDE DEF Bad
    <3> QED
      BY <2>1, LeastNatural
  <2>3. i \in 0..n /\ joined[i] \notin D
    OBVIOUS
  <2>4. i # 0
    <3>1. 0 \in 0..n
      BY <1>1
    <3>2. joined[0] = <<>>
      BY <1>8, <3>1
    <3> QED
      BY <2>3, <3>2
  <2>5. i \in 1..n /\ i - 1 \in 0..n /\ ~(i <= i - 1)
    BY <1>1, <2>3, <2>4
  <2>6. joined[i - 1] \in D
    <3>1. \A k : k \in 0..n /\ joined[k] \notin D => i <= k
      BY <2>2, SMTT(30)
    <3> QED
      BY <2>5, <3>1
  <2>7. joined[i] = joined[i - 1] \o file[paths[i]].rows
    BY <1>8, <2>3, <2>4
  <2> QED
    BY <2>3, <2>5, <2>6, <2>7 DEF n
<1>10. n \in 0..n
  BY <1>1
<1> QED
  BY <1>3, <1>9, <1>10

\* The files on a command line are readable, and there is one.
LEMMA PathFacts ==
    ASSUME NEW paths \in Paths
    PROVE  /\ Len(paths) \in Nat /\ 1 \in 1..Len(paths) /\ DOMAIN paths = 1..Len(paths)
           /\ \A i \in 1..Len(paths) : paths[i] \in Readable
<1>1. PICK S \in (SUBSET Readable) \ {{}} : paths \in Bijection(1..Cardinality(S), S)
  BY DEF Paths
<1> DEFINE n == Cardinality(S)
<1>2. IsFiniteSet(S)
  <2>1. S \in SUBSET Jobs
    BY <1>1 DEF Readable
  <2> QED
    BY <2>1, JobsAssumption, FS_Subset
<1>3. n \in Nat /\ n # 0
  BY <1>1, <1>2, FS_CardinalityType, FS_EmptySet
<1>4. paths \in [1..n -> S]
  BY <1>1 DEF Bijection, Injection
<1> HIDE DEF n
<1>5. paths \in Seq(S)
  BY <1>3, <1>4, SeqDef
<1>6. Len(paths) = n
  BY <1>3, <1>4, <1>5, LenProperties
<1>7. \A i \in 1..n : paths[i] \in Readable
  BY <1>1, <1>4
<1> QED
  BY <1>3, <1>4, <1>6, <1>7

\* A merge is a table of rows.
LEMMA MergedTable ==
    ASSUME BenchInv, NEW paths \in Paths
    PROVE  MergedRows(paths) \in Seq(Row)
<1> DEFINE D == Seq(Row)
<1>1. <<>> \in D
  BY EmptySeq
<1>2. ASSUME NEW s \in D, NEW i \in 1..Len(paths) PROVE s \o file[paths[i]].rows \in D
  <2>1. paths[i] \in Readable
    BY PathFacts
  <2>2. file[paths[i]].rows \in Seq(Row)
    BY <2>1, ReadableFacts
  <2> QED
    BY <2>2, ConcatProperties
<1>3. Len(paths) \in Nat
  BY PathFacts
<1> HIDE DEF D
<1>4. MergedRows(paths) \in D
  BY <1>1, <1>2, <1>3, MergedIn
<1> QED
  BY <1>4 DEF D

\* Of at most one, any two are the same.
LEMMA AtMostOne ==
    ASSUME NEW S, IsFiniteSet(S), Cardinality(S) <= 1, NEW x \in S, NEW y \in S
    PROVE  x = y
<1>1. Cardinality(S) \in Nat
  BY FS_CardinalityType
<1>2. Cardinality(S) # 0
  BY FS_EmptySet
<1>3. Cardinality(S) = 1
  BY <1>1, <1>2
<1>4. PICK z : S = {z}
  BY <1>3, FS_Singleton
<1> QED
  BY <1>4

\* The row that counts is the last one kept.
LEMMA LastRowFacts ==
    ASSUME NEW rows \in Seq(Row), NEW c, NEW a, NEW p, Kept(rows, c, a, p) # {}
    PROVE  \E m \in Kept(rows, c, a, p) :
              /\ LastRow(rows, c, a, p) = rows[m]
              /\ m \in 1..Len(rows) /\ \A i \in Kept(rows, c, a, p) : i <= m
<1> DEFINE K == Kept(rows, c, a, p)
<1>1. Len(rows) \in Nat /\ DOMAIN rows = 1..Len(rows)
  BY RowTypes
<1>2. K \in SUBSET (1..Len(rows))
  BY <1>1 DEF Kept
<1>3. LastRow(rows, c, a, p) = rows[Max(K)]
  BY DEF LastRow
<1> HIDE DEF K
<1>4. IsFiniteSet(K) /\ K # {} /\ \A i \in K : i \in Int
  <2>1. IsFiniteSet(1..Len(rows))
    BY <1>1, FS_Interval
  <2>2. IsFiniteSet(K)
    BY <1>2, <2>1, FS_Subset
  <2>3. K # {}
    BY DEF K
  <2>4. \A i \in K : i \in 1..Len(rows)
    BY <1>2
  <2> QED
    BY <2>2, <2>3, <2>4
<1>5. Max(K) \in K /\ \A i \in K : Max(K) >= i
  BY <1>4, Extremes
<1>6. Max(K) \in 1..Len(rows) /\ \A i \in K : i <= Max(K)
  <2>1. Max(K) \in 1..Len(rows)
    BY <1>2, <1>5
  <2> QED
    BY <1>4, <1>5, <2>1
<1> QED
  BY <1>3, <1>5, <1>6 DEF K

\* The last of two tables that has a case's pair has its last row.
LEMMA JoinLast ==
    ASSUME NEW s \in Seq(Row), NEW t \in Seq(Row), NEW c, NEW a, NEW p
    PROVE  /\ s \o t \in Seq(Row)
           /\ Kept(t, c, a, p) # {} =>
                 Kept(s \o t, c, a, p) # {} /\ LastRow(s \o t, c, a, p) = LastRow(t, c, a, p)
           /\ Kept(t, c, a, p) = {} =>
                 /\ Kept(s \o t, c, a, p) = {} <=> Kept(s, c, a, p) = {}
                 /\ Kept(s, c, a, p) # {} => LastRow(s \o t, c, a, p) = LastRow(s, c, a, p)
<1> DEFINE u == s \o t
           n == Len(s)
           m == Len(t)
           K(x) == Kept(x, c, a, p)
<1>1. n \in Nat /\ m \in Nat /\ DOMAIN s = 1..n /\ DOMAIN t = 1..m
  BY RowTypes
<1>2. /\ u \in Seq(Row) /\ Len(u) = n + m
      /\ \A i \in 1..(n + m) : u[i] = IF i <= n THEN s[i] ELSE t[i - n]
  BY ConcatProperties
<1>3. DOMAIN u = 1..(n + m)
  BY <1>2, RowTypes
<1> HIDE DEF u, n, m
<1>4. \A i : i \in K(u) <=> \/ i \in 1..n /\ i \in K(s)
                            \/ i \in Int /\ i > n /\ i - n \in K(t)
  <2>1. ASSUME NEW i \in 1..n PROVE i \in K(u) <=> i \in K(s)
    <3>1. i \in 1..(n + m) /\ i <= n
      BY <1>1
    <3>2. u[i] = s[i]
      BY <1>2, <3>1
    <3> QED
      BY <1>1, <1>3, <3>1, <3>2 DEF Kept
  <2>2. ASSUME NEW i \in (n + 1)..(n + m) PROVE i \in K(u) <=> i - n \in K(t)
    <3>1. i \in 1..(n + m) /\ ~(i <= n) /\ i - n \in 1..m
      BY <1>1
    <3>2. u[i] = t[i - n]
      BY <1>2, <3>1
    <3> QED
      BY <1>1, <1>3, <3>1, <3>2 DEF Kept
  <2>3. \A i : i \in K(u) => i \in 1..(n + m)
    BY <1>3 DEF Kept
  <2>4. \A i : i \in K(t) => i \in 1..m
    BY <1>1 DEF Kept
  <2>5. \A i : i \in 1..(n + m) => i \in 1..n \/ i \in (n + 1)..(n + m)
    BY <1>1
  <2>6. \A i \in Int : i > n /\ i - n \in 1..m => i \in (n + 1)..(n + m)
    BY <1>1
  <2>7. \A i \in (n + 1)..(n + m) : i \in Int /\ i > n
    BY <1>1
  <2>8. \A i \in 1..n : i \in Int /\ ~(i > n)
    BY <1>1
  <2> HIDE DEF K
  <2>9. ASSUME NEW i \in 1..n
        PROVE  i \in K(u) <=> \/ i \in 1..n /\ i \in K(s)
                              \/ i \in Int /\ i > n /\ i - n \in K(t)
    BY <2>1, <2>8, ZenonT(30)
  <2>10. ASSUME NEW i \in (n + 1)..(n + m)
         PROVE  i \in K(u) <=> \/ i \in 1..n /\ i \in K(s)
                               \/ i \in Int /\ i > n /\ i - n \in K(t)
    BY <2>2, <2>7, <2>8, ZenonT(30)
  <2>11. ASSUME NEW i, i \notin 1..n, i \notin (n + 1)..(n + m)
         PROVE  i \in K(u) <=> \/ i \in 1..n /\ i \in K(s)
                               \/ i \in Int /\ i > n /\ i - n \in K(t)
    BY <2>3, <2>4, <2>5, <2>6, <2>11, ZenonT(30)
  <2> QED
    BY <2>9, <2>10, <2>11, ZenonT(30)
<1>5. CASE K(t) # {}
  <2>1. PICK x \in K(t) : LastRow(t, c, a, p) = t[x] /\ x \in 1..Len(t) /\ \A i \in K(t) : i <= x
    BY <1>5, LastRowFacts
  <2>2. n + x \in Int /\ n + x > n /\ (n + x) - n = x /\ n + x \in 1..(n + m) /\ ~(n + x <= n)
    BY <1>1, <2>1 DEF m
  <2>3. n + x \in K(u)
    BY <1>4, <2>1, <2>2
  <2>4. PICK y \in K(u) : LastRow(u, c, a, p) = u[y] /\ y \in 1..Len(u) /\ \A i \in K(u) : i <= y
    BY <1>2, <2>3, LastRowFacts
  <2>5. n + x <= y /\ y \in Int
    <3> HIDE DEF K
    <3>1. y \in Int
      BY <1>2, <2>4
    <3> QED
      BY <2>3, <2>4, <3>1
  <2>6. y - n \in K(t)
    BY <1>1, <1>4, <2>1, <2>2, <2>4, <2>5
  <2>7. y - n <= x
    BY <2>1, <2>6
  <2>8. y = n + x
    BY <1>1, <2>1, <2>5, <2>7
  <2>9. u[n + x] = t[x]
    BY <1>2, <2>2
  <2> QED
    BY <1>2, <1>5, <2>1, <2>3, <2>4, <2>8, <2>9 DEF u
<1>6. CASE K(t) = {}
  <2>1. \A i : i \in K(u) <=> i \in 1..n /\ i \in K(s)
    BY <1>4, <1>6
  <2>2. \A i : i \in K(s) => i \in 1..n
    BY <1>1 DEF Kept
  <2>3. \A i : i \in K(u) <=> i \in K(s)
    BY <2>1, <2>2
  <2>4. ASSUME K(s) # {} PROVE LastRow(u, c, a, p) = LastRow(s, c, a, p)
    <3>1. PICK x \in K(s) : LastRow(s, c, a, p) = s[x] /\ x \in 1..Len(s) /\ \A i \in K(s) : i <= x
      BY <2>4, LastRowFacts
    <3>2. K(u) # {}
      BY <2>3, <3>1
    <3>3. PICK y \in K(u) : LastRow(u, c, a, p) = u[y] /\ y \in 1..Len(u) /\ \A i \in K(u) : i <= y
      BY <1>2, <3>2, LastRowFacts
    <3>4. x <= y /\ y <= x
      BY <2>3, <3>1, <3>3
    <3>5. x \in Int /\ y \in Int
      BY <3>1, <3>3
    <3>6. x = y /\ x \in 1..n /\ x \in 1..(n + m) /\ x <= n
      BY <1>1, <3>1, <3>4, <3>5 DEF n
    <3>7. u[x] = s[x]
      BY <1>2, <3>6
    <3> QED
      BY <3>1, <3>3, <3>6, <3>7
  <2>5. K(u) = {} <=> K(s) = {}
    <3> HIDE DEF K
    <3> QED
      BY <2>3
  <2> QED
    BY <1>2, <1>6, <2>4, <2>5 DEF u
<1> QED
  BY <1>5, <1>6

\* Two rows of one run of the harness on one machine, if neither is an error.
Together(r, s) ==
    /\ r.launch = s.launch
    /\ \E h \in Hosts : (~r.error => r.host = h) /\ (~s.error => s.host = h)

\* A table has both arms of a case's pair or neither, and its last rows are of one run.
InPairs(rows, x, y) ==
    \A c, p : /\ Kept(rows, c, x, p) = {} <=> Kept(rows, c, y, p) = {}
              /\ Kept(rows, c, x, p) # {}
                    => Together(LastRow(rows, c, x, p), LastRow(rows, c, y, p))

\* A file's rows come in pairs.
LEMMA FileInPairs ==
    ASSUME BenchInv, NEW j \in Readable, NEW x \in ToSet(j.arms), NEW y \in ToSet(j.arms)
    PROVE  InPairs(file[j].rows, x, y)
<1> DEFINE rows == file[j].rows
           h == file[j].host
           l == rows[1].launch
<1>1. j \in Jobs /\ h \in Hosts /\ OfOneRun(rows, h, l)
  BY ReadableFacts
<1>2. PICK q \in Nat : Full(j, rows, q)
  BY ReadableFacts
<1> HIDE DEF rows, h, l
<1>3. /\ rows \in Seq(Row) /\ DOMAIN rows = 1..Len(rows)
      /\ \A i \in 1..Len(rows) : rows[i].pair \in 0..q /\ rows[i].case \in CasesOf(j)
      /\ \A p \in 0..q, c \in CasesOf(j), a \in ToSet(j.arms) : HasRow(rows, p, c, a)
  BY <1>1, <1>2, FullFacts
<1>4. ASSUME NEW c, NEW p, NEW a \in ToSet(j.arms)
      PROVE  Kept(rows, c, a, p) # {} <=> (c \in CasesOf(j) /\ p \in 0..q)
  <2>1. ASSUME NEW i \in Kept(rows, c, a, p) PROVE c \in CasesOf(j) /\ p \in 0..q
    BY <1>3 DEF Kept
  <2>2. ASSUME c \in CasesOf(j), p \in 0..q PROVE Kept(rows, c, a, p) # {}
    <3>1. HasRow(rows, p, c, a)
      BY <1>3, <2>2
    <3> QED
      BY <1>3, <3>1 DEF HasRow, Kept
  <2> QED
    BY <2>1, <2>2
<1>5. ASSUME NEW c, NEW p, Kept(rows, c, x, p) # {}, Kept(rows, c, y, p) # {}
      PROVE  Together(LastRow(rows, c, x, p), LastRow(rows, c, y, p))
  <2>1. PICK i \in 1..Len(rows) : LastRow(rows, c, x, p) = rows[i]
    BY <1>3, <1>5, LastRowFacts
  <2>2. PICK k \in 1..Len(rows) : LastRow(rows, c, y, p) = rows[k]
    BY <1>3, <1>5, LastRowFacts
  <2>3. rows[i].launch = rows[k].launch
    BY <1>1 DEF OfOneRun
  <2>4. (~rows[i].error => rows[i].host = h) /\ (~rows[k].error => rows[k].host = h)
    BY <1>1 DEF OfOneRun
  <2> QED
    BY <1>1, <2>1, <2>2, <2>3, <2>4 DEF Together
<1>6. InPairs(rows, x, y)
  BY <1>4, <1>5 DEF InPairs
<1> QED
  BY <1>6 DEF rows

\* Joined tables keep their rows in pairs.
LEMMA JoinInPairs ==
    ASSUME NEW s \in Seq(Row), NEW t \in Seq(Row), NEW x, NEW y, InPairs(s, x, y), InPairs(t, x, y)
    PROVE  InPairs(s \o t, x, y)
<1> SUFFICES ASSUME NEW c, NEW p
             PROVE  /\ Kept(s \o t, c, x, p) = {} <=> Kept(s \o t, c, y, p) = {}
                    /\ Kept(s \o t, c, x, p) # {}
                          => Together(LastRow(s \o t, c, x, p), LastRow(s \o t, c, y, p))
  BY DEF InPairs
<1> DEFINE u == s \o t
<1>1. \A r \in {s, t} :
         /\ Kept(r, c, x, p) = {} <=> Kept(r, c, y, p) = {}
         /\ Kept(r, c, x, p) # {} => Together(LastRow(r, c, x, p), LastRow(r, c, y, p))
  BY DEF InPairs
<1>2. \A a \in {x, y} :
         /\ Kept(t, c, a, p) # {} => Kept(u, c, a, p) # {} /\ LastRow(u, c, a, p) = LastRow(t, c, a, p)
         /\ Kept(t, c, a, p) = {} =>
               /\ Kept(u, c, a, p) = {} <=> Kept(s, c, a, p) = {}
               /\ Kept(s, c, a, p) # {} => LastRow(u, c, a, p) = LastRow(s, c, a, p)
  BY JoinLast
<1> HIDE DEF u
<1>3. CASE Kept(t, c, x, p) # {}
  BY <1>1, <1>2, <1>3 DEF u
<1>4. CASE Kept(t, c, x, p) = {}
  BY <1>1, <1>2, <1>4 DEF u
<1> QED
  BY <1>3, <1>4

\* So does every merge of files that name the same arms.
LEMMA MergedInPairs ==
    ASSUME BenchInv, NEW paths \in Paths, Agreed(paths)
    PROVE  InPairs(MergedRows(paths), file[paths[1]].arms[1], file[paths[1]].arms[2])
<1> DEFINE arms == file[paths[1]].arms
           x == arms[1]
           y == arms[2]
           D == {s \in Seq(Row) : InPairs(s, x, y)}
<1>1. /\ Len(paths) \in Nat /\ 1 \in 1..Len(paths) /\ DOMAIN paths = 1..Len(paths)
      /\ \A i \in 1..Len(paths) : paths[i] \in Readable
  BY PathFacts
<1>2. \A i \in 1..Len(paths) : file[paths[i]].arms = arms
  BY <1>1 DEF Agreed
<1> HIDE DEF arms
<1>3. <<>> \in D
  <2>1. \A c, a, p : Kept(<<>>, c, a, p) = {}
    BY DEF Kept
  <2>2. InPairs(<<>>, x, y)
    BY <2>1 DEF InPairs
  <2> QED
    BY <2>2, EmptySeq
<1>4. ASSUME NEW s \in D, NEW i \in 1..Len(paths) PROVE s \o file[paths[i]].rows \in D
  <2> DEFINE j == paths[i]
             t == file[j].rows
  <2>1. j \in Readable
    BY <1>1
  <2>2. j \in Jobs /\ t \in Seq(Row) /\ j.arms = arms
    <3>1. j \in Jobs /\ t \in Seq(Row) /\ file[j].arms = j.arms
      BY <2>1, ReadableFacts
    <3> QED
      BY <1>2, <3>1
  <2>3. x \in ToSet(j.arms) /\ y \in ToSet(j.arms)
    <3>1. j.arms[1] \in ToSet(j.arms) /\ j.arms[2] \in ToSet(j.arms)
      BY <2>2, ArmFacts
    <3> QED
      BY <2>2, <3>1
  <2>4. InPairs(t, x, y)
    BY <2>1, <2>3, FileInPairs
  <2>5. s \in Seq(Row) /\ InPairs(s, x, y)
    OBVIOUS
  <2> HIDE DEF t, x, y
  <2>6. InPairs(s \o t, x, y) /\ s \o t \in Seq(Row)
    BY <2>2, <2>4, <2>5, JoinInPairs, ConcatProperties
  <2> QED
    BY <2>6 DEF t
<1> HIDE DEF D
<1>5. MergedRows(paths) \in D
  BY <1>1, <1>3, <1>4, MergedIn
<1> QED
  BY <1>5 DEF D, arms

\* What is compared is of one run, and identical means all of it.
LEMMA LikeInv == BenchInv => ReportsCompareLike
<1> SUFFICES ASSUME BenchInv, NEW paths \in Reported, NEW c
             PROVE  LET rows == MergedRows(paths)
                        arms == file[paths[1]].arms
                    IN  /\ \A p \in Comparable(rows, arms, c) :
                              LET x == LastRow(rows, c, arms[1], p)
                                  y == LastRow(rows, c, arms[2], p)
                              IN  x.launch = y.launch /\ x.host = y.host /\ x.host # NoHost
                        /\ Fingerprint(rows, arms, c) = "identical" =>
                              \A p, q \in Comparable(rows, arms, c) : \A i, k \in {1, 2} :
                                  ResultOf[LastRow(rows, c, arms[i], p).so]
                                     = ResultOf[LastRow(rows, c, arms[k], q).so]
  BY DEF ReportsCompareLike
<1> DEFINE rows == MergedRows(paths)
           arms == file[paths[1]].arms
           okp == Comparable(rows, arms, c)
           last(i, p) == LastRow(rows, c, arms[i], p)
<1>1. paths \in Paths /\ Agreed(paths)
  <2>1. paths \in Paths /\ (Len(paths) = 1 \/ Agreed(paths))
    BY DEF Reported, Accepted
  <2>2. DOMAIN paths = 1..Len(paths)
    BY <2>1, PathFacts
  <2>3. Len(paths) = 1 => Agreed(paths)
    BY <2>2 DEF Agreed
  <2> QED
    BY <2>1, <2>3
<1>2. rows \in Seq(Row) /\ InPairs(rows, arms[1], arms[2])
  BY <1>1, MergedTable, MergedInPairs
<1> HIDE DEF rows, arms
<1>3. okp = {p \in {rows[i].pair : i \in DOMAIN rows} :
               \A i \in {1, 2} : Kept(rows, c, arms[i], p) # {} /\ ~last(i, p).error}
  BY DEF Comparable
<1>4. ASSUME NEW p \in okp
      PROVE  last(1, p).launch = last(2, p).launch /\ last(1, p).host = last(2, p).host
             /\ last(1, p).host # NoHost
  <2>1. /\ Kept(rows, c, arms[1], p) # {} /\ ~last(1, p).error
        /\ ~last(2, p).error
    BY <1>3
  <2>2. Together(last(1, p), last(2, p))
    BY <1>2, <2>1 DEF InPairs
  <2> QED
    BY <2>1, <2>2, BenchAssumption DEF Together
<1>5. IsFiniteSet(okp)
  <2> DEFINE P == {rows[i].pair : i \in DOMAIN rows}
             f == [i \in DOMAIN rows |-> rows[i].pair]
  <2>1. f \in Surjection(DOMAIN rows, P)
    BY DEF Surjection
  <2>2. IsFiniteSet(DOMAIN rows)
    <3>1. DOMAIN rows = 1..Len(rows) /\ Len(rows) \in Nat
      BY <1>2, RowTypes
    <3> QED
      BY <3>1, FS_Interval
  <2>3. okp \in SUBSET P
    BY <1>3
  <2> HIDE DEF P, f, okp
  <2>4. IsFiniteSet(P)
    BY <2>1, <2>2, FS_Surjection
  <2> QED
    BY <2>3, <2>4, FS_Subset
<1> DEFINE value(i, p) == ResultOf[last(i, p).so]
           fa == {value(1, p) : p \in okp}
           fb == {value(2, p) : p \in okp}
<1>6. Prints(rows, c, arms[1], okp) = fa /\ Prints(rows, c, arms[2], okp) = fb
  BY DEF Prints
<1>7. ASSUME Fingerprint(rows, arms, c) = "identical" PROVE fa = fb /\ Cardinality(fa) = 1
  <2> HIDE DEF fa, fb, value, last
  <2>1. Fingerprint(rows, arms, c) =
           IF fa = fb /\ Cardinality(fa) = 1 THEN "identical"
           ELSE IF Cardinality(fa) > 1 \/ Cardinality(fb) > 1 THEN "nondeterministic"
           ELSE "DIFFERENT"
    BY <1>6 DEF Fingerprint
  <2> QED
    BY <1>7, <2>1
<1>8. ASSUME Fingerprint(rows, arms, c) = "identical", NEW p \in okp, NEW q \in okp,
             NEW i \in {1, 2}, NEW k \in {1, 2}
      PROVE  value(i, p) = value(k, q)
  <2>1. fa = fb /\ Cardinality(fa) <= 1
    <3> HIDE DEF fa, fb, value, last, okp
    <3>1. fa = fb /\ Cardinality(fa) = 1
      BY <1>7, <1>8
    <3> QED
      BY <3>1
  <2>2. value(1, p) \in fa /\ value(2, p) \in fb /\ value(1, q) \in fa /\ value(2, q) \in fb
    OBVIOUS
  <2>3. IsFiniteSet(fa)
    <3> DEFINE f == [x \in okp |-> value(1, x)]
    <3> HIDE DEF value, okp
    <3>1. f \in Surjection(okp, fa)
      BY DEF Surjection
    <3> HIDE DEF f, fa
    <3> QED
      BY <1>5, <3>1, FS_Surjection
  <2> HIDE DEF fa, fb, value
  <2>4. value(i, p) \in fa
    <3>1. CASE i = 1
      BY <2>2, <3>1
    <3>2. CASE i = 2
      BY <2>1, <2>2, <3>2
    <3> QED
      BY <1>8, <3>1, <3>2
  <2>5. value(k, q) \in fa
    <3>1. CASE k = 1
      BY <2>2, <3>1
    <3>2. CASE k = 2
      BY <2>1, <2>2, <3>2
    <3> QED
      BY <1>8, <3>1, <3>2
  <2> QED
    BY <2>1, <2>3, <2>4, <2>5, AtMostOne
<1> QED
  BY <1>4, <1>8 DEF rows, arms

\* What a report compares belongs together, for a job's own file and for every
\* accepted merge: files that overlap lose whole pairs, never one arm of one.
THEOREM ReportsLike == BenchSpec => []ReportsCompareLike
<1> QED
  BY BenchInvariant, LikeInv, PTL
=============================================================================
