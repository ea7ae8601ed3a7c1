-------------------------- MODULE RowArrays_proofs --------------------------
(***************************************************************************)
(* What the hash's operators return, for any number of axes, digits and    *)
(* tables: sums that are accumulated term by term, keys and distances.     *)
(* Then the batch form of the reference: the flat arrays give every query  *)
(* what it gets alone.                                                     *)
(***************************************************************************)
EXTENDS RowArrays, TableOps_proofs

\* SumTo accumulates integers from 0.
Adds(sum, f, n) ==
    /\ sum \in [0..n -> Int]
    /\ sum[0] = 0
    /\ \A i \in 1..n : sum[i] = sum[i - 1] + f[i]

\* SumTo of integers is what that many additions accumulate.
LEMMA SumOf ==
    ASSUME NEW n \in Nat, NEW f, \A i \in 1..n : f[i] \in Int
    PROVE  \E sum : Adds(sum, f, n) /\ SumTo(f, n) = sum[n]
<1> DEFINE step == [i \in 1..n |-> [v \in Int |-> v + f[i]]]
           sum == CHOOSE sum : sum = [i \in 0..n |-> IF i = 0 THEN 0 ELSE sum[i - 1] + f[i]]
<1>1. step \in [1..n -> [Int -> Int]] /\ 0 \in Int
  OBVIOUS
<1>2. \A i \in 1..n, v \in Int : step[i][v] = v + f[i]
  OBVIOUS
<1> HIDE DEF step
<1>3. PICK s : Loops(s, Int, n, 0, step)
  BY <1>1, Iterates
<1>4. /\ s \in [0..n -> Int] /\ s[0] = 0
      /\ \A i \in 1..n : s[i] = step[i][s[i - 1]]
  BY <1>3 DEF Loops
<1>5. ASSUME NEW i \in 1..n PROVE s[i] = s[i - 1] + f[i]
  <2>1. i - 1 \in 0..n
    OBVIOUS
  <2>2. s[i - 1] \in Int
    BY <1>4, <2>1
  <2> QED
    BY <1>2, <1>4, <2>2
<1>6. s = [i \in 0..n |-> IF i = 0 THEN 0 ELSE s[i - 1] + f[i]]
  <2>1. \A i \in 0..n : s[i] = IF i = 0 THEN 0 ELSE s[i - 1] + f[i]
    <3>1. \A i \in 0..n : i # 0 => i \in 1..n
      OBVIOUS
    <3> QED
      BY <1>4, <1>5, <3>1
  <2>2. s = [i \in 0..n |-> s[i]]
    BY ONLY <1>4
  <2> QED
    BY ONLY <2>1, <2>2
<1>7. sum = [i \in 0..n |-> IF i = 0 THEN 0 ELSE sum[i - 1] + f[i]]
  BY <1>6
<1>8. SumTo(f, n) = sum[n]
  BY DEF SumTo
<1> HIDE DEF sum
<1>9. \A i \in 0..n : sum[i] = IF i = 0 THEN 0 ELSE sum[i - 1] + f[i]
  BY <1>7
<1>10. ASSUME NEW i \in 1..n PROVE sum[i] = sum[i - 1] + f[i]
  <2>1. i \in 0..n /\ i # 0
    OBVIOUS
  <2> QED
    BY <1>9, <2>1
<1> DEFINE Bad == {m \in 0..n : sum[m] \notin Int}
<1>11. Bad = {}
  <2> SUFFICES ASSUME Bad # {} PROVE FALSE
    OBVIOUS
  <2>1. PICK m \in Bad : \A x \in Bad : m <= x
    <3>1. Bad \in SUBSET Nat
      OBVIOUS
    <3> HIDE DEF Bad
    <3> QED
      BY <3>1, LeastNatural
  <2>2. m # 0
    BY <1>9
  <2>3. m - 1 \in 0..n /\ ~(m <= m - 1) /\ m \in 1..n
    BY <2>2
  <2>4. sum[m - 1] \in Int
    BY <2>1, <2>3
  <2> QED
    BY <1>10, <2>2, <2>3, <2>4
<1>12. Adds(sum, f, n)
  <2>1. sum = [i \in 0..n |-> sum[i]]
    BY <1>7
  <2>2. sum \in [0..n -> Int]
    BY <1>11, <2>1
  <2>3. sum[0] = 0
    BY <1>9
  <2> QED
    BY <1>10, <2>2, <2>3 DEF Adds
<1> HIDE DEF Bad
<1> QED
  BY <1>8, <1>12

(* SumTo is a sum accumulated term by term. *)
LEMMA SumRuns ==
    ASSUME NEW n \in Nat, NEW f \in [1..n -> Int]
    PROVE  \E sum : Adds(sum, f, n) /\ SumTo(f, n) = sum[n]
BY SumOf

\* One more term.
LEMMA SumAt ==
    ASSUME NEW n \in Nat, NEW f, \A i \in 1..n : f[i] \in Int
    PROVE  /\ SumTo(f, 0) = 0
           /\ \A i \in 0..n : SumTo(f, i) \in Int
           /\ \A i \in 1..n : SumTo(f, i) = SumTo(f, i - 1) + f[i]
<1>1. ASSUME NEW i \in 0..n PROVE \E s : Adds(s, f, i) /\ SumTo(f, i) = s[i]
  <2>1. i \in Nat /\ \A j \in 1..i : f[j] \in Int
    OBVIOUS
  <2> QED
    BY ONLY <2>1, SumOf
<1>2. ASSUME NEW i \in 1..n PROVE SumTo(f, i) = SumTo(f, i - 1) + f[i]
  <2>1. PICK s : Adds(s, f, i) /\ SumTo(f, i) = s[i]
    BY <1>1
  <2>2. PICK r : Adds(r, f, i - 1) /\ SumTo(f, i - 1) = r[i - 1]
    BY <1>1
  <2> DEFINE Bad == {j \in 0..(i - 1) : s[j] # r[j]}
  <2>3. Bad = {}
    <3> SUFFICES ASSUME Bad # {} PROVE FALSE
      OBVIOUS
    <3>1. PICK j \in Bad : \A x \in Bad : j <= x
      <4>1. Bad \in SUBSET Nat
        OBVIOUS
      <4> HIDE DEF Bad
      <4> QED
        BY <4>1, LeastNatural
    <3>2. j # 0
      BY <2>1, <2>2 DEF Adds
    <3>3. j \in 1..(i - 1) /\ j \in 1..i /\ j - 1 \in 0..(i - 1) /\ ~(j <= j - 1)
      BY <3>2
    <3>4. s[j - 1] = r[j - 1]
      BY <3>1, <3>3
    <3>5. s[j] = s[j - 1] + f[j] /\ r[j] = r[j - 1] + f[j]
      BY <2>1, <2>2, <3>3 DEF Adds
    <3> QED
      BY <3>4, <3>5
  <2>4. s[i - 1] = r[i - 1]
    BY <2>3
  <2> QED
    BY <2>1, <2>2, <2>4 DEF Adds
<1>3. ASSUME NEW i \in 0..n PROVE SumTo(f, i) \in Int
  BY <1>1 DEF Adds
<1>4. SumTo(f, 0) = 0
  <2>1. 0 \in 0..n
    OBVIOUS
  <2> QED
    BY <1>1, <2>1 DEF Adds
<1> QED
  BY <1>2, <1>3, <1>4

\* Term by term comparison, with a factor: w times a sum of small terms is at
\* most the sum of large ones.
LEMMA SumCompares ==
    ASSUME NEW n \in Nat, NEW f \in [1..n -> Int], NEW g \in [1..n -> Int], NEW w \in Int,
           \A i \in 1..n : w * f[i] <= g[i]
    PROVE  /\ SumTo(f, n) \in Int /\ SumTo(g, n) \in Int
           /\ w * SumTo(f, n) <= SumTo(g, n)
<1>a. PICK s : Adds(s, f, n) /\ SumTo(f, n) = s[n]
  BY SumRuns
<1>1. /\ s \in [0..n -> Int] /\ SumTo(f, n) = s[n] /\ s[0] = 0
      /\ \A i \in 1..n : s[i] = s[i - 1] + f[i]
  BY <1>a DEF Adds
<1>b. PICK u : Adds(u, g, n) /\ SumTo(g, n) = u[n]
  BY SumRuns
<1>2. /\ u \in [0..n -> Int] /\ SumTo(g, n) = u[n] /\ u[0] = 0
      /\ \A i \in 1..n : u[i] = u[i - 1] + g[i]
  BY <1>b DEF Adds
<1> DEFINE Bad == {m \in 0..n : ~(w * s[m] <= u[m])}
<1>3. Bad = {}
  <2> SUFFICES ASSUME Bad # {} PROVE FALSE
    OBVIOUS
  <2>1. PICK m \in Bad : \A x \in Bad : m <= x
    <3>1. Bad \in SUBSET Nat
      OBVIOUS
    <3> HIDE DEF Bad
    <3> QED
      BY <3>1, LeastNatural
  <2>2. m # 0
    <3>1. w * 0 <= 0
      OBVIOUS
    <3>2. ~(w * s[m] <= u[m])
      BY <2>1
    <3> QED
      BY <1>1, <1>2, <3>1, <3>2
  <2>3. m - 1 \in 0..n /\ ~(m <= m - 1) /\ m \in 1..n
    BY <2>2
  <2>4. w * s[m - 1] <= u[m - 1]
    BY <2>1, <2>3
  <2>5. s[m - 1] \in Int /\ u[m - 1] \in Int /\ f[m] \in Int /\ g[m] \in Int
    BY <1>1, <1>2, <2>3
  <2>7. w * s[m] <= u[m]
    <3>1. s[m] = s[m - 1] + f[m] /\ u[m] = u[m - 1] + g[m] /\ w * f[m] <= g[m]
      BY <1>1, <1>2, <2>3
    <3> DEFINE a == s[m - 1]
               b == u[m - 1]
               c == f[m]
               d == g[m]
    <3>2. a \in Int /\ b \in Int /\ c \in Int /\ d \in Int
      BY <2>5
    <3>3. w * a <= b /\ w * c <= d
      BY <2>4, <3>1
    <3> HIDE DEF a, b, c, d
    <3>4. w * a \in Int /\ w * c \in Int /\ w * (a + c) = w * a + w * c
      BY ONLY <3>2, w \in Int
    <3>5. w * (a + c) <= b + d
      BY <3>2, <3>3, <3>4
    <3>6. s[m] = a + c /\ u[m] = b + d
      BY <3>1 DEF a, b, c, d
    <3> QED
      BY <3>5, <3>6
  <2> QED
    BY <2>7
<1>4. n \in 0..n
  OBVIOUS
<1> QED
  BY <1>1, <1>2, <1>3, <1>4

\* A sum of integers is one; of naturals, too.
LEMMA SumType ==
    ASSUME NEW n \in Nat, NEW f \in [1..n -> Int]
    PROVE  /\ SumTo(f, n) \in Int
           /\ (\A i \in 1..n : f[i] >= 0) => SumTo(f, n) >= 0
<1>1. SumTo(f, n) \in Int
  <2>1. PICK s : Adds(s, f, n) /\ SumTo(f, n) = s[n]
    BY SumRuns
  <2> QED
    BY <2>1 DEF Adds
<1>2. ASSUME \A i \in 1..n : f[i] >= 0 PROVE SumTo(f, n) >= 0
  <2>1. \A i \in 1..n : 0 * f[i] <= f[i]
    BY <1>2
  <2>2. 0 * SumTo(f, n) <= SumTo(f, n)
    BY ONLY <2>1, n \in Nat, f \in [1..n -> Int], 0 \in Int, SumCompares
  <2> QED
    BY <1>1, <2>2
<1> QED
  BY <1>1, <1>2

-----------------------------------------------------------------------------
\* The constants.
LEMMA HashTypes ==
    /\ Grid \in Nat /\ Grid >= 1 /\ Dims \in Nat /\ Dims >= 1 /\ K \in Nat /\ K >= 1
    /\ L \in Nat /\ L >= 1 /\ B \in Nat /\ B >= 2
    /\ \A t \in Tables, j \in Digits : S[t][j] \in Axes /\ U[t][j] \in 0..(Grid - 1)
BY HashAssumption

\* The powers of b are positive naturals.
LEMMA PowerFacts ==
    /\ \A j \in 0..K : Pw[j] \in Nat /\ Pw[j] >= 1
    /\ Pw[0] = 1
    /\ \A j \in 1..K : Pw[j] = Pw[j - 1] * B
<1> DEFINE D == Nat \ {0}
           step == [i \in 1..K |-> [v \in D |-> v * B]]
           pw == CHOOSE pw : pw = [j \in 0..K |-> IF j = 0 THEN 1 ELSE pw[j - 1] * B]
<1>0. K \in Nat /\ B \in Nat /\ B >= 2
  BY HashTypes
<1>1. step \in [1..K -> [D -> D]] /\ 1 \in D
  <2>1. \A v \in D : v * B \in D
    BY <1>0
  <2> HIDE DEF D
  <2>2. step \in [1..K -> [D -> D]]
    BY <2>1
  <2> QED
    BY <2>2 DEF D
<1>2. \A i \in 1..K, v \in D : step[i][v] = v * B
  OBVIOUS
<1> HIDE DEF step, D
<1>3. PICK s : Loops(s, D, K, 1, step)
  BY <1>0, <1>1, Iterates
<1>4. /\ s \in [0..K -> D] /\ s[0] = 1
      /\ \A i \in 1..K : s[i] = step[i][s[i - 1]]
  BY <1>3 DEF Loops
<1>5. ASSUME NEW i \in 1..K PROVE s[i] = s[i - 1] * B
  <2>1. i - 1 \in 0..K
    BY <1>0
  <2>2. s[i - 1] \in D
    BY <1>4, <2>1
  <2> QED
    BY <1>2, <1>4, <2>2
<1>6. s = [j \in 0..K |-> IF j = 0 THEN 1 ELSE s[j - 1] * B]
  <2>1. \A i \in 0..K : s[i] = IF i = 0 THEN 1 ELSE s[i - 1] * B
    <3>1. \A i \in 0..K : i # 0 => i \in 1..K
      BY <1>0
    <3> QED
      BY <1>4, <1>5, <3>1
  <2>2. s = [i \in 0..K |-> s[i]]
    BY ONLY <1>4
  <2> QED
    BY ONLY <2>1, <2>2
<1>7. pw = [j \in 0..K |-> IF j = 0 THEN 1 ELSE pw[j - 1] * B]
  BY <1>6
<1>8. Pw = pw
  BY DEF Pw
<1> HIDE DEF pw
<1>9. \A i \in 0..K : Pw[i] = IF i = 0 THEN 1 ELSE Pw[i - 1] * B
  BY <1>7, <1>8
<1>10. Pw[0] = 1 /\ \A i \in 1..K : Pw[i] = Pw[i - 1] * B
  <2>1. 0 \in 0..K /\ \A i \in 1..K : i \in 0..K /\ i # 0
    BY <1>0
  <2> QED
    BY ONLY <1>9, <2>1
<1> DEFINE Bad == {m \in 0..K : Pw[m] \notin D}
<1>11. Bad = {}
  <2> SUFFICES ASSUME Bad # {} PROVE FALSE
    OBVIOUS
  <2>1. PICK m \in Bad : \A x \in Bad : m <= x
    <3>1. Bad \in SUBSET Nat
      BY <1>0
    <3> HIDE DEF Bad
    <3> QED
      BY <3>1, LeastNatural
  <2>2. m # 0
    BY <1>1, <1>10
  <2>3. m - 1 \in 0..K /\ ~(m <= m - 1) /\ m \in 1..K
    BY <1>0, <2>2
  <2>4. Pw[m - 1] \in D
    BY <2>1, <2>3
  <2>5. Pw[m] \in D
    BY <1>0, <1>10, <2>3, <2>4 DEF D
  <2> QED
    BY <2>5
<1>12. \A j \in 0..K : Pw[j] \in Nat /\ Pw[j] >= 1
  BY <1>11 DEF D
<1> QED
  BY <1>10, <1>12

\* A code is a cell number, and the rest of a coordinate less than a cell.
LEMMA CodeFacts ==
    ASSUME NEW x \in Positions, NEW t \in Tables, NEW j \in Digits
    PROVE  /\ Code(x, t, j) \in 0..(B - 1)
           /\ Frac(x, t, j) \in 0..(Grid - 1)
<1> DEFINE v == (x[S[t][j]] + U[t][j]) % Grid
           w == v * B
<1>1. Grid \in Nat /\ Grid >= 1 /\ B \in Nat /\ B >= 2
  BY HashTypes
<1>2. x[S[t][j]] \in 0..(Grid - 1) /\ U[t][j] \in 0..(Grid - 1)
  BY HashTypes DEF Positions
<1>3. v \in 0..(Grid - 1)
  BY <1>1, <1>2
<1>4. Code(x, t, j) = w \div Grid /\ Frac(x, t, j) = w % Grid
  BY DEF Code, Frac, Scaled
<1> HIDE DEF v
<1>5. w \in Nat /\ w <= (Grid - 1) * B
  <2>1. v \in Nat /\ v <= Grid - 1
    BY <1>1, <1>3
  <2>2. v * B <= (Grid - 1) * B
    BY <1>1, <2>1
  <2> QED
    BY <1>1, <2>1, <2>2
<1> HIDE DEF w
<1>6. w % Grid \in 0..(Grid - 1) /\ w \div Grid \in Int /\ w = Grid * (w \div Grid) + (w % Grid)
  BY <1>1, <1>5
<1> DEFINE c == w \div Grid
           r == w % Grid
<1>7. c \in Int /\ r \in 0..(Grid - 1) /\ w = Grid * c + r
  BY <1>6
<1> HIDE DEF c, r
<1>8. c >= 0
  <2> SUFFICES ASSUME c <= -1 PROVE FALSE
    BY <1>7
  <2>1. Grid * c <= Grid * (-1)
    BY <1>1, <1>7
  <2> QED
    BY <1>1, <1>5, <1>7, <2>1
<1>9. c <= B - 1
  <2> SUFFICES ASSUME c >= B PROVE FALSE
    BY <1>1, <1>7
  <2>1. Grid * c >= Grid * B
    BY <1>1, <1>7
  <2>2. (Grid - 1) * B = Grid * B - B /\ Grid * B \in Int /\ Grid * c \in Int
    BY <1>1, <1>7
  <2> QED
    BY <1>1, <1>5, <1>7, <2>1, <2>2
<1> QED
  BY <1>4, <1>6, <1>7, <1>8, <1>9 DEF c

\* Keys and probed keys are numbers.
LEMMA KeyType ==
    ASSUME NEW x \in Positions, NEW t \in Tables
    PROVE  /\ Key(x, t) \in Int
           /\ \A j \in Digits : ProbeKey(x, t, j) \in Int
<1>1. K \in Nat /\ B \in Nat /\ B >= 2
  BY HashTypes
<1>2. ASSUME NEW j \in Digits PROVE Code(x, t, j) \in Int /\ Pw[j - 1] \in Int
  <2>1. j - 1 \in 0..K
    BY <1>1 DEF Digits
  <2>2. Code(x, t, j) \in 0..(B - 1)
    BY CodeFacts
  <2> QED
    BY <1>1, <2>1, <2>2, PowerFacts
<1> DEFINE f == [j \in Digits |-> Code(x, t, j) * Pw[j - 1]]
<1>3. Key(x, t) \in Int
  <2>1. \A j \in Digits : Code(x, t, j) * Pw[j - 1] \in Int
    BY <1>2
  <2>2. f \in [1..K -> Int]
    BY <2>1 DEF Digits
  <2>3. Key(x, t) = SumTo(f, K)
    BY DEF Key
  <2> HIDE DEF f
  <2> QED
    BY <1>1, <2>2, <2>3, SumType
<1>4. ASSUME NEW j \in Digits PROVE ProbeKey(x, t, j) \in Int
  <2> DEFINE c == Code(x, t, j)
             dir == IF 2 * Frac(x, t, j) >= Grid THEN 1 ELSE -1
             p == Pw[j - 1]
             key == Key(x, t)
  <2>1. c \in Int /\ p \in Int /\ key \in Int /\ dir \in Int
    BY <1>2, <1>3
  <2>2. ProbeKey(x, t, j) = key + (((c + dir) % B) - c) * p
    BY DEF ProbeKey
  <2> HIDE DEF c, dir, p, key
  <2>3. (c + dir) % B \in Int
    BY <1>1, <2>1
  <2>4. (((c + dir) % B) - c) * p \in Int
    BY <2>1, <2>3
  <2> QED
    BY <2>1, <2>2, <2>4
<1> QED
  BY <1>3, <1>4

\* Distances are natural numbers.
LEMMA GapFacts ==
    ASSUME NEW a \in 0..(Grid - 1), NEW b \in 0..(Grid - 1)
    PROVE  LET d == IF a >= b THEN a - b ELSE b - a
           IN  AxisGap(a, b) = (IF d <= Grid - d THEN d ELSE Grid - d) /\ AxisGap(a, b) \in Nat
<1> DEFINE d == IF a >= b THEN a - b ELSE b - a
           e == Grid - d
<1>1. d \in Nat /\ e \in Nat
  BY HashTypes
<1>2. AxisGap(a, b) = Min({d, e})
  BY DEF AxisGap
<1> HIDE DEF d, e
<1>3. Min({d, e}) = IF d <= e THEN d ELSE e
  BY <1>1, LesserOf
<1> QED
  BY <1>1, <1>2, <1>3 DEF d, e

\* Distances are numbers.
LEMMA DistType ==
    ASSUME NEW x \in Positions, NEW y \in Positions
    PROVE  Dist(x, y) \in Nat
<1> DEFINE f == [a \in Axes |-> AxisGap(x[a], y[a])]
<1>1. ASSUME NEW a \in Axes PROVE AxisGap(x[a], y[a]) \in Nat
  <2>1. x[a] \in 0..(Grid - 1) /\ y[a] \in 0..(Grid - 1)
    BY DEF Positions
  <2> QED
    BY <2>1, GapFacts
<1>2. f \in [1..Dims -> Int] /\ \A i \in 1..Dims : f[i] >= 0
  BY <1>1 DEF Axes
<1>3. Dist(x, y) = SumTo(f, Dims)
  BY DEF Dist
<1> HIDE DEF f
<1>4. Dims \in Nat
  BY HashTypes
<1>5. SumTo(f, Dims) \in Int /\ SumTo(f, Dims) >= 0
  BY ONLY <1>2, <1>4, SumType
<1> QED
  BY <1>3, <1>5

-----------------------------------------------------------------------------
(***************************************************************************)
(* A key splits at every digit into what lies below and what above.        *)
(***************************************************************************)

\* A quotient, from what it multiplies and leaves.
LEMMA Quotient ==
    ASSUME NEW a \in Int, NEW p \in Nat, p >= 1, NEW r \in 0..(p - 1), NEW h \in Int, a = r + p * h
    PROVE  a \div p = h
<1> DEFINE q == a \div p
           s == a % p
<1>1. q \in Int /\ s \in 0..(p - 1) /\ a = p * q + s
  OBVIOUS
<1> HIDE DEF q, s
<1>2. p * q + s = r + p * h
  BY <1>1
<1>3. ASSUME NEW x \in Int, NEW y \in Int, NEW u \in 0..(p - 1), NEW v \in 0..(p - 1),
             p * x + u = v + p * y
      PROVE  x <= y
  <2> SUFFICES ASSUME x >= y + 1 PROVE FALSE
    BY <1>3
  <2>1. p * x >= p * (y + 1)
    OBVIOUS
  <2>2. p * (y + 1) = p * y + p /\ p * x \in Int /\ p * y \in Int
    OBVIOUS
  <2> QED
    BY <1>3, <2>1, <2>2
<1>4. q <= h
  BY <1>1, <1>2, <1>3
<1>5. h <= q
  <2>1. p * h + r = s + p * q
    <3>1. p * h \in Int /\ p * q \in Int
      BY <1>1
    <3> QED
      BY <1>1, <1>2, <3>1
  <2> QED
    BY <1>1, <1>3, <2>1
<1>6. q = h
  BY <1>1, <1>4, <1>5
<1> QED
  BY <1>6 DEF q

\* A number below p and a digit in front of it are below p times the base.
LEMMA OneMoreDigit ==
    ASSUME NEW p \in Nat, NEW b \in Nat, NEW r \in 0..(p - 1), NEW c \in 0..(b - 1)
    PROVE  r + c * p \in 0..(p * b - 1)
<1>1. c * p <= (b - 1) * p
  OBVIOUS
<1>2. (b - 1) * p = p * b - p /\ c * p \in Nat /\ p * b \in Nat
  OBVIOUS
<1> QED
  BY <1>1, <1>2

\* The digits below a place, and the number the digits above it make.
SplitsKey(low, high, x, t) ==
    /\ low \in [0..K -> Nat] /\ high \in [0..K -> Nat]
    /\ high[K] = 0
    /\ \A j \in 0..K : low[j] \in 0..(Pw[j] - 1)
    /\ \A j \in 0..K : Key(x, t) = low[j] + Pw[j] * high[j]
    /\ \A j \in 0..K : Pw[j] * (high[j] + 1) <= Pw[K]
    /\ \A j \in 1..K : high[j - 1] = Code(x, t, j) + B * high[j]

\* Every key splits so.
LEMMA KeySplits ==
    ASSUME NEW x \in Positions, NEW t \in Tables
    PROVE  \E low, high : SplitsKey(low, high, x, t)
<1> DEFINE c(j) == Code(x, t, j)
           f == [j \in Digits |-> c(j) * Pw[j - 1]]
<1>1. K \in Nat /\ K >= 1 /\ B \in Nat /\ B >= 2 /\ Digits = 1..K
  BY HashTypes DEF Digits
<1>2. /\ \A j \in 0..K : Pw[j] \in Nat /\ Pw[j] >= 1
      /\ Pw[0] = 1 /\ \A j \in 1..K : Pw[j] = Pw[j - 1] * B
  BY PowerFacts
<1>3. \A j \in 1..K : c(j) \in 0..(B - 1)
  BY <1>1, CodeFacts
<1> HIDE DEF c
<1>4. \A j \in 1..K : j - 1 \in 0..K /\ j \in 0..K
  BY <1>1
<1>5. f \in [1..K -> Int] /\ \A j \in 1..K : f[j] = c(j) * Pw[j - 1]
  <2>1. ASSUME NEW j \in 1..K PROVE c(j) * Pw[j - 1] \in Int
    <3>1. c(j) \in Int /\ Pw[j - 1] \in Int
      BY <1>1, <1>2, <1>3, <1>4
    <3> QED
      BY ONLY <3>1
  <2> QED
    BY <1>1, <2>1
<1>6. Key(x, t) = SumTo(f, K)
  BY DEF Key, c
<1> HIDE DEF f
<1>7. PICK low : Adds(low, f, K) /\ SumTo(f, K) = low[K]
  BY <1>1, <1>5, SumRuns
<1>8. low \in [0..K -> Int] /\ low[0] = 0 /\ \A j \in 1..K : low[j] = low[j - 1] + c(j) * Pw[j - 1]
  BY <1>5, <1>7 DEF Adds
<1>9. \A j \in 0..K : low[j] \in 0..(Pw[j] - 1)
  <2> DEFINE Bad == {j \in 0..K : low[j] \notin 0..(Pw[j] - 1)}
  <2> SUFFICES ASSUME Bad # {} PROVE FALSE
    OBVIOUS
  <2>1. PICK j \in Bad : \A n \in Bad : j <= n
    <3>1. Bad \in SUBSET Nat
      BY <1>1
    <3> HIDE DEF Bad
    <3> QED
      BY <3>1, LeastNatural
  <2>2. j # 0
    BY <1>2, <1>8
  <2>3. j \in 1..K /\ j - 1 \in 0..K /\ ~(j <= j - 1)
    BY <1>1, <2>2
  <2>4. low[j - 1] \in 0..(Pw[j - 1] - 1)
    BY <2>1, <2>3
  <2>5. low[j - 1] + c(j) * Pw[j - 1] \in 0..(Pw[j - 1] * B - 1)
    <3> DEFINE p == Pw[j - 1]
               r == low[j - 1]
               d == c(j)
    <3>1. p \in Nat /\ r \in 0..(p - 1) /\ d \in 0..(B - 1) /\ B \in Nat
      BY <1>1, <1>2, <1>3, <2>3, <2>4
    <3> HIDE DEF p, r, d
    <3>2. r + d * p \in 0..(p * B - 1)
      BY ONLY <3>1, OneMoreDigit
    <3> QED
      BY <3>2 DEF p, r, d
  <2>6. low[j] \in 0..(Pw[j] - 1)
    BY <1>2, <1>8, <2>3, <2>5
  <2> QED
    BY <2>6
<1> DEFINE step == [n \in 1..K |-> [v \in Nat |-> c(K - n + 1) + B * v]]
<1>10. /\ step \in [1..K -> [Nat -> Nat]]
       /\ \A n \in 1..K, v \in Nat : step[n][v] = c(K - n + 1) + B * v
  <2>1. ASSUME NEW n \in 1..K, NEW v \in Nat PROVE c(K - n + 1) + B * v \in Nat
    <3>1. K - n + 1 \in 1..K
      BY <1>1
    <3>2. c(K - n + 1) \in Nat /\ B * v \in Nat
      BY <1>1, <1>3, <3>1
    <3> QED
      BY <3>2
  <2> QED
    BY <2>1
<1> HIDE DEF step
<1>11. PICK g : Loops(g, Nat, K, 0, step)
  BY <1>1, <1>10, Iterates
<1>12. /\ g \in [0..K -> Nat] /\ g[0] = 0
       /\ \A n \in 1..K : g[n] = c(K - n + 1) + B * g[n - 1]
  <2>1. g \in [0..K -> Nat] /\ g[0] = 0 /\ \A n \in 1..K : g[n] = step[n][g[n - 1]]
    BY <1>11 DEF Loops
  <2>2. \A n \in 1..K : g[n - 1] \in Nat
    BY <1>4, <2>1
  <2> QED
    BY <1>10, <2>1, <2>2
<1> DEFINE high == [j \in 0..K |-> g[K - j]]
<1>13. /\ high \in [0..K -> Nat] /\ high[K] = 0
       /\ \A j \in 1..K : high[j - 1] = c(j) + B * high[j]
  <2>1. \A j \in 0..K : K - j \in 0..K /\ K - K = 0
    BY <1>1
  <2>2. high \in [0..K -> Nat] /\ high[K] = 0
    BY <1>1, <1>12, <2>1
  <2>3. ASSUME NEW j \in 1..K PROVE high[j - 1] = c(j) + B * high[j]
    <3> DEFINE n == K - j + 1
    <3>1. n \in 1..K /\ n = K - (j - 1) /\ n - 1 = K - j /\ K - n + 1 = j
      BY <1>1
    <3>2. high[j - 1] = g[n] /\ high[j] = g[n - 1]
      BY <1>4, <3>1
    <3> HIDE DEF n, high
    <3> QED
      BY <1>12, <3>1, <3>2
  <2> QED
    BY <2>2, <2>3
<1> HIDE DEF high
<1>14. \A j \in 0..K : Key(x, t) = low[j] + Pw[j] * high[j] /\ Pw[j] * (high[j] + 1) <= Pw[K]
  <2> DEFINE Good(j) == Key(x, t) = low[j] + Pw[j] * high[j] /\ Pw[j] * (high[j] + 1) <= Pw[K]
             Bad == {n \in 0..K : ~Good(K - n)}
  <2>1. ASSUME Bad # {} PROVE FALSE
    <3>1. PICK n \in Bad : \A m \in Bad : n <= m
      <4>1. Bad \in SUBSET Nat
        BY <1>1
      <4> HIDE DEF Bad
      <4> QED
        BY <2>1, <4>1, LeastNatural
    <3>2. n \in 0..K /\ ~Good(K - n)
      OBVIOUS
    <3>3. n # 0
      <4>1. K \in 0..K /\ low[K] \in Int /\ Pw[K] \in Nat
        BY <1>1, <1>2, <1>8
      <4>2. Pw[K] * high[K] = 0 /\ Pw[K] * (high[K] + 1) = Pw[K]
        BY <1>13, <4>1
      <4>3. Good(K)
        BY <1>6, <1>7, <4>1, <4>2
      <4>4. K - 0 = K
        BY <1>1
      <4> QED
        BY <3>2, <4>3, <4>4
    <3> DEFINE j == K - n + 1
    <3>4. /\ j \in 1..K /\ j \in 0..K /\ j - 1 \in 0..K /\ j - 1 = K - n /\ j = K - (n - 1)
          /\ n - 1 \in 0..K /\ ~(n <= n - 1)
      BY <1>1, <3>2, <3>3
    <3> HIDE DEF j
    <3>5. Good(j)
      <4>1. Good(K - (n - 1))
        BY <3>1, <3>4
      <4> QED
        BY <3>4, <4>1
    <3> DEFINE p == Pw[j - 1]
               h == high[j]
               d == c(j)
               a == low[j - 1]
    <3>6. p \in Nat /\ p >= 1 /\ h \in Nat /\ d \in 0..(B - 1) /\ a \in Int /\ Pw[K] \in Nat
      <4>1. p \in Nat /\ p >= 1
        BY ONLY <1>2, <3>4
      <4>2. h \in Nat /\ a \in Int
        BY ONLY <1>8, <1>13, <3>4
      <4>3. d \in 0..(B - 1)
        BY <1>3, <3>4
      <4>4. Pw[K] \in Nat
        BY <1>1, <1>2
      <4> QED
        BY ONLY <4>1, <4>2, <4>3, <4>4
    <3>7. Pw[j] = p * B /\ low[j] = a + d * p /\ high[j - 1] = d + B * h
      BY <1>2, <1>8, <1>13, <3>4
    <3>8. Key(x, t) = (a + d * p) + (p * B) * h /\ (p * B) * (h + 1) <= Pw[K]
      BY <3>5, <3>7
    <3> HIDE DEF p, h, d, a
    <3>9. /\ (a + d * p) + (p * B) * h = a + p * (d + B * h)
          /\ p * ((d + B * h) + 1) <= (p * B) * (h + 1)
      <4>1. d * p \in Int /\ p * (B * h) \in Int /\ p * d = d * p /\ (p * B) * h = p * (B * h)
            /\ p * (d + B * h) = p * d + p * (B * h)
        BY ONLY <1>1, <3>6
      <4>2. (d + B * h) + 1 <= B * (h + 1)
        <5>1. B * (h + 1) = B * h + B /\ B * h \in Nat
          BY ONLY <1>1, <3>6
        <5> QED
          BY <1>1, <3>6, <5>1
      <4>3. p * ((d + B * h) + 1) <= p * (B * (h + 1))
        <5> DEFINE u == (d + B * h) + 1
                   v == B * (h + 1)
        <5>1. u \in Int /\ v \in Int /\ u <= v
          BY <1>1, <3>6, <4>2
        <5> HIDE DEF u, v
        <5>2. p * u <= p * v
          BY ONLY <3>6, <5>1
        <5> QED
          BY <5>2 DEF u, v
      <4>4. p * (B * (h + 1)) = (p * B) * (h + 1)
        BY ONLY <1>1, <3>6
      <4> QED
        BY <3>6, <4>1, <4>3, <4>4
    <3>10. Key(x, t) = a + p * (d + B * h) /\ p * ((d + B * h) + 1) <= Pw[K]
      <4> DEFINE u == p * ((d + B * h) + 1)
                 v == (p * B) * (h + 1)
      <4>1. u \in Int /\ v \in Int
        BY ONLY <1>1, <3>6
      <4>2. u <= v /\ v <= Pw[K]
        BY <3>8, <3>9
      <4> HIDE DEF u, v
      <4>3. u <= Pw[K]
        BY <3>6, <4>1, <4>2
      <4> QED
        BY <3>8, <3>9, <4>3 DEF u
    <3>11. Good(j - 1)
      BY <3>7, <3>10 DEF p, a
    <3> QED
      BY <3>2, <3>4, <3>11
  <2> HIDE DEF Good
  <2>2. ASSUME NEW j \in 0..K PROVE Good(j)
    <3>1. K - j \in 0..K /\ K - (K - j) = j
      BY <1>1
    <3> QED
      BY <2>1, <3>1
  <2> QED
    BY <2>2 DEF Good
<1>15. low \in [0..K -> Nat]
  <2>1. \A j \in 0..K : low[j] \in Nat
    BY <1>2, <1>9
  <2> QED
    BY <1>8, <2>1
<1>16. SplitsKey(low, high, x, t)
  BY <1>9, <1>13, <1>14, <1>15 DEF SplitsKey, c
<1> QED
  BY <1>16

\* The ids in a range of keys that drops the low digits are those that agree on
\* the others; and where that range, and a stepped key, may lie.
LEMMA PrefixAgree ==
    ASSUME NEW x \in Positions, NEW y \in Positions, NEW t \in Tables, NEW n \in 0..K
    PROVE  LET lo == (Key(x, t) \div Pw[n]) * Pw[n]
           IN  /\ lo \in 0..(Pw[K] - Pw[n])
               /\ n = K => lo = 0
               /\ Key(y, t) \in lo..(lo + Pw[n] - 1) <=>
                     \A j \in (n + 1)..K : Code(y, t, j) = Code(x, t, j)
<1>1. PICK lowx, highx : SplitsKey(lowx, highx, x, t)
  BY KeySplits
<1>2. PICK lowy, highy : SplitsKey(lowy, highy, y, t)
  BY KeySplits
<1>3. K \in Nat /\ K >= 1 /\ B \in Nat /\ B >= 2 /\ Digits = 1..K
  BY HashTypes DEF Digits
<1>4. \A j \in 0..K : Pw[j] \in Nat /\ Pw[j] >= 1
  BY PowerFacts
<1> DEFINE lo == (Key(x, t) \div Pw[n]) * Pw[n]
           p == Pw[n]
<1>5. /\ \A j \in 0..K : highx[j] \in Nat /\ highy[j] \in Nat
      /\ highx[K] = 0 /\ highy[K] = 0
      /\ \A j \in 1..K : highx[j - 1] = Code(x, t, j) + B * highx[j]
      /\ \A j \in 1..K : highy[j - 1] = Code(y, t, j) + B * highy[j]
  BY <1>1, <1>2 DEF SplitsKey
<1>6. /\ lowx[n] \in 0..(p - 1) /\ Key(x, t) = lowx[n] + p * highx[n]
      /\ lowy[n] \in 0..(p - 1) /\ Key(y, t) = lowy[n] + p * highy[n]
      /\ p * (highx[n] + 1) <= Pw[K]
  BY <1>1, <1>2 DEF SplitsKey
<1>7. Key(x, t) \div p = highx[n]
  <2> DEFINE a == Key(x, t)
             r == lowx[n]
             h == highx[n]
  <2>1. p \in Nat /\ p >= 1 /\ h \in Int /\ r \in 0..(p - 1) /\ a = r + p * h
    BY <1>4, <1>5, <1>6
  <2> HIDE DEF p, a, r, h
  <2>2. a \in Int
    BY ONLY <2>1
  <2>3. a \div p = h
    BY ONLY <2>1, <2>2, Quotient
  <2> QED
    BY <2>3 DEF a, h
<1>8. lo = highx[n] * p
  BY <1>7
<1> HIDE DEF lo, p
<1>9. p \in Nat /\ p >= 1 /\ highx[n] \in Nat /\ highy[n] \in Nat /\ Pw[K] \in Nat
  <2>1. K \in 0..K
    BY <1>3
  <2> QED
    BY <1>4, <1>5, <2>1 DEF p
<1>10. lo \in 0..(Pw[K] - p)
  <2>1. p * (highx[n] + 1) = highx[n] * p + p /\ highx[n] * p \in Nat
    BY ONLY <1>9
  <2> QED
    BY <1>6, <1>8, <1>9, <2>1
<1>11. n = K => lo = 0
  BY <1>5, <1>8, <1>9
<1>12. Key(y, t) \in lo..(lo + p - 1) <=> highy[n] = highx[n]
  <2> DEFINE u == highx[n]
             v == highy[n]
             r == lowy[n]
             a == Key(y, t)
  <2>1. /\ p \in Nat /\ p >= 1 /\ u \in Nat /\ v \in Nat /\ r \in 0..(p - 1)
        /\ a = r + p * v /\ lo = u * p
    BY <1>6, <1>8, <1>9
  <2> HIDE DEF u, v, r, a
  <2>2. p * v \in Nat /\ u * p = p * u /\ p * u \in Nat
    BY ONLY <2>1
  <2>3. u = v => a \in lo..(lo + p - 1)
    BY <2>1, <2>2
  <2>4. ASSUME u >= v + 1 PROVE a < lo
    <3>1. p * u >= p * (v + 1) /\ p * (v + 1) = p * v + p
      BY ONLY <2>1, <2>4
    <3> QED
      BY <2>1, <2>2, <3>1
  <2>5. ASSUME v >= u + 1 PROVE a > lo + p - 1
    <3>1. p * v >= p * (u + 1) /\ p * (u + 1) = p * u + p
      BY ONLY <2>1, <2>5
    <3> QED
      BY <2>1, <2>2, <3>1
  <2>6. a \in Int /\ lo \in Int
    BY <2>1, <2>2
  <2>7. a \in lo..(lo + p - 1) => u = v
    <3>1. a \in lo..(lo + p - 1) => ~(a < lo) /\ ~(a > lo + p - 1)
      BY <2>1, <2>6
    <3>2. u = v \/ u >= v + 1 \/ v >= u + 1
      BY <2>1
    <3> QED
      BY <2>4, <2>5, <3>1, <3>2
  <2>8. a \in lo..(lo + p - 1) <=> v = u
    BY <2>3, <2>7
  <2> QED
    BY <2>8 DEF u, v, a
<1> DEFINE Agree(m) == \A j \in (m + 1)..K : Code(y, t, j) = Code(x, t, j)
           Good(m) == highy[m] = highx[m] <=> Agree(m)
<1>13. \A m \in 0..K : Good(m)
  <2> DEFINE Bad == {i \in 0..K : ~Good(K - i)}
  <2>1. ASSUME Bad # {} PROVE FALSE
    <3>1. PICK i \in Bad : \A m \in Bad : i <= m
      <4>1. Bad \in SUBSET Nat
        BY <1>3
      <4> HIDE DEF Bad
      <4> QED
        BY <2>1, <4>1, LeastNatural
    <3>2. i \in 0..K /\ ~Good(K - i)
      OBVIOUS
    <3>3. i # 0
      <4>1. K - 0 = K /\ (K + 1)..K = {}
        BY <1>3
      <4>2. Good(K)
        BY <1>5, <4>1
      <4> QED
        BY <3>2, <4>1, <4>2
    <3> DEFINE j == K - i + 1
    <3>4. /\ j \in 1..K /\ j \in 0..K /\ j - 1 = K - i /\ j = K - (i - 1)
          /\ i - 1 \in 0..K /\ ~(i <= i - 1)
      BY <1>3, <3>2, <3>3
    <3> HIDE DEF j
    <3>5. Good(j)
      <4>1. Good(K - (i - 1))
        BY <3>1, <3>4
      <4> QED
        BY <3>4, <4>1
    <3>6. Agree(j - 1) <=> Code(y, t, j) = Code(x, t, j) /\ Agree(j)
      <4>1. (j - 1) + 1 = j /\ \A m : m \in j..K <=> m = j \/ m \in (j + 1)..K
        BY <1>3, <3>4
      <4> QED
        BY <4>1
    <3>7. highy[j - 1] = highx[j - 1] <=> Code(y, t, j) = Code(x, t, j) /\ highy[j] = highx[j]
      <4> DEFINE c == Code(x, t, j)
                 d == Code(y, t, j)
                 u == highx[j]
                 v == highy[j]
      <4>1. c \in 0..(B - 1) /\ d \in 0..(B - 1)
        BY <1>3, <3>4, CodeFacts
      <4>2. u \in Nat /\ v \in Nat /\ highx[j - 1] = c + B * u /\ highy[j - 1] = d + B * v
        BY <1>5, <3>4
      <4> HIDE DEF c, d, u, v
      <4>3. ASSUME d + B * v = c + B * u PROVE d = c /\ v = u
        <5> DEFINE a == c + B * u
        <5>1. a \in Int /\ a = c + B * u /\ a = d + B * v
          BY <1>3, <4>1, <4>2, <4>3
        <5> HIDE DEF a
        <5>2. a \div B = u
          BY ONLY <1>3, <4>1, <4>2, <5>1, Quotient
        <5>3. a \div B = v
          BY ONLY <1>3, <4>1, <4>2, <5>1, Quotient
        <5>4. u = v
          BY <5>2, <5>3
        <5>5. B * u \in Int /\ c \in Int /\ d \in Int
          BY <1>3, <4>1, <4>2
        <5> QED
          BY <4>3, <5>4, <5>5
      <4>4. highy[j - 1] = highx[j - 1] <=> d = c /\ v = u
        BY <4>2, <4>3
      <4> QED
        BY <4>4 DEF c, d, u, v
    <3>8. Good(j - 1)
      BY <3>5, <3>6, <3>7
    <3> QED
      BY <3>2, <3>4, <3>8
  <2> HIDE DEF Good
  <2>2. ASSUME NEW m \in 0..K PROVE Good(m)
    <3>1. K - m \in 0..K /\ K - (K - m) = m
      BY <1>3
    <3> QED
      BY <2>1, <3>1
  <2> QED
    BY <2>2
<1> QED
  BY <1>10, <1>11, <1>12, <1>13 DEF lo, p

\* Stepping one digit, cyclically, leaves a key in range.
LEMMA ProbeKeyRange ==
    ASSUME NEW x \in Positions, NEW t \in Tables, NEW j \in Digits
    PROVE  ProbeKey(x, t, j) \in 0..(Pw[K] - 1)
<1>1. PICK low, high : SplitsKey(low, high, x, t)
  BY KeySplits
<1>2. K \in Nat /\ B \in Nat /\ B >= 2 /\ j \in 1..K /\ j \in 0..K /\ j - 1 \in 0..K /\ K \in 0..K
  BY HashTypes DEF Digits
<1> DEFINE c == Code(x, t, j)
           dir == IF 2 * Frac(x, t, j) >= Grid THEN 1 ELSE -1
           d == (c + dir) % B
           p == Pw[j - 1]
           r == low[j - 1]
           h == high[j]
           key == Key(x, t)
           all == Pw[K]
<1>3. c \in 0..(B - 1)
  BY CodeFacts
<1>4. dir \in Int
  OBVIOUS
<1> HIDE DEF c, dir
<1>5. d \in 0..(B - 1)
  BY <1>2, <1>3, <1>4
<1>6. ProbeKey(x, t, j) = key + (d - c) * p
  BY DEF ProbeKey, c, dir
<1> HIDE DEF d
<1>7. p \in Nat /\ all \in Nat /\ Pw[j] = p * B
  BY <1>2, PowerFacts
<1>8. /\ r \in 0..(p - 1) /\ h \in Nat /\ high[j - 1] = c + B * h
      /\ key = r + p * (c + B * h) /\ (p * B) * (h + 1) <= all
  <2>1. r \in 0..(p - 1) /\ high[j - 1] = c + B * h /\ key = r + p * high[j - 1]
    BY <1>1, <1>2 DEF SplitsKey, c
  <2>2. h \in Nat /\ Pw[j] * (h + 1) <= all
    BY <1>1, <1>2 DEF SplitsKey
  <2> QED
    BY <1>7, <2>1, <2>2
<1> HIDE DEF p, r, h, key, all
<1>9. key + (d - c) * p = (r + d * p) + (p * B) * h
  <2>1. p * (c + B * h) = c * p + (p * B) * h /\ (d - c) * p = d * p - c * p
    BY ONLY <1>2, <1>3, <1>5, <1>7, <1>8
  <2>2. c * p \in Int /\ d * p \in Int /\ (p * B) * h \in Int
    BY ONLY <1>2, <1>3, <1>5, <1>7, <1>8
  <2> QED
    BY <1>7, <1>8, <2>1, <2>2
<1>10. r + d * p \in 0..(p * B - 1)
  BY ONLY <1>2, <1>5, <1>7, <1>8, OneMoreDigit
<1>11. (r + d * p) + (p * B) * h \in 0..(all - 1)
  <2>1. (p * B) * (h + 1) = (p * B) * h + p * B /\ (p * B) * h \in Nat /\ p * B \in Nat
    BY ONLY <1>2, <1>7, <1>8
  <2> QED
    BY <1>7, <1>8, <1>10, <2>1
<1> QED
  BY <1>6, <1>9, <1>11 DEF all

-----------------------------------------------------------------------------
(***************************************************************************)
(* RowArrays: for any index, any batch and any block size, the flat arrays *)
(* give every query what it gets alone.  First what the array operations   *)
(* do (FlattenSeq, np.repeat, np.cumsum, the ranges they expand), then     *)
(* _gather, _finish_topk, the widened rows and the blocks, at last the     *)
(* ragged answer of query_radius and its padded form.                      *)
(***************************************************************************)
\* Sums of naturals never fall.
LEMMA SumsRise ==
    ASSUME NEW n \in Nat, NEW f, \A i \in 1..n : f[i] \in Nat
    PROVE  /\ \A i \in 0..n : SumTo(f, i) \in Nat
           /\ \A i, j \in 0..n : i <= j => SumTo(f, i) <= SumTo(f, j)
<1>1. /\ SumTo(f, 0) = 0
      /\ \A i \in 0..n : SumTo(f, i) \in Int
      /\ \A i \in 1..n : SumTo(f, i) = SumTo(f, i - 1) + f[i]
  <2>1. \A i \in 1..n : f[i] \in Int
    OBVIOUS
  <2> QED
    BY <2>1, SumAt
<1> DEFINE sum == [i \in 0..n |-> SumTo(f, i)]
<1>2. /\ sum \in [0..n -> Int] /\ sum[0] = 0
      /\ \A i \in 1..n : sum[i] = sum[i - 1] + f[i]
      /\ \A i \in 0..n : sum[i] = SumTo(f, i)
  <2>1. \A i \in 1..n : i \in 0..n /\ i - 1 \in 0..n
    OBVIOUS
  <2>2. 0 \in 0..n
    OBVIOUS
  <2> QED
    BY <1>1, <2>1, <2>2
<1> HIDE DEF sum
<1> DEFINE Bad == {m \in 0..n : \E i \in 0..m : sum[i] > sum[m]}
<1>3. Bad = {}
  <2> SUFFICES ASSUME Bad # {} PROVE FALSE
    OBVIOUS
  <2>1. PICK m \in Bad : \A x \in Bad : m <= x
    <3>1. Bad \in SUBSET Nat
      OBVIOUS
    <3> HIDE DEF Bad
    <3> QED
      BY <3>1, LeastNatural
  <2>2. PICK i \in 0..m : sum[i] > sum[m]
    OBVIOUS
  <2>3. i # m /\ m \in 1..n /\ m - 1 \in 0..n /\ i \in 0..(m - 1) /\ ~(m <= m - 1)
    BY <1>2, <2>2
  <2>4. ~(sum[i] > sum[m - 1])
    BY <2>1, <2>3
  <2>5. sum[m] = sum[m - 1] + f[m] /\ f[m] \in Nat
    BY <1>2, <2>3
  <2> QED
    BY <1>2, <2>2, <2>3, <2>4, <2>5
<1>4. ASSUME NEW i \in 0..n, NEW j \in 0..n, i <= j PROVE sum[i] <= sum[j]
  <2>1. i \in 0..j
    BY <1>4
  <2>2. ~(sum[i] > sum[j])
    BY <1>3, <2>1
  <2> QED
    BY <1>2, <2>2
<1>5. ASSUME NEW i \in 0..n PROVE sum[i] \in Nat
  <2>1. 0 \in 0..n /\ 0 <= i
    OBVIOUS
  <2>2. sum[0] <= sum[i] /\ sum[i] \in Int
    BY <1>2, <1>4, <2>1
  <2> QED
    BY <1>2, <2>2
<1> QED
  BY <1>2, <1>4, <1>5

\* Sums of the same terms are the same.
LEMMA SumsSame ==
    ASSUME NEW n \in Nat, NEW f, NEW g, \A i \in 1..n : f[i] \in Int /\ f[i] = g[i]
    PROVE  \A i \in 0..n : SumTo(f, i) = SumTo(g, i)
<1>1. /\ SumTo(f, 0) = 0
      /\ \A i \in 1..n : SumTo(f, i) = SumTo(f, i - 1) + f[i]
  <2>1. \A i \in 1..n : f[i] \in Int
    OBVIOUS
  <2> QED
    BY <2>1, SumAt
<1>2. /\ SumTo(g, 0) = 0
      /\ \A i \in 1..n : SumTo(g, i) = SumTo(g, i - 1) + g[i]
  <2>1. \A i \in 1..n : g[i] \in Int
    OBVIOUS
  <2> QED
    BY <2>1, SumAt
<1> DEFINE Bad == {m \in 0..n : SumTo(f, m) # SumTo(g, m)}
<1>3. Bad = {}
  <2> SUFFICES ASSUME Bad # {} PROVE FALSE
    OBVIOUS
  <2>1. PICK m \in Bad : \A x \in Bad : m <= x
    <3>1. Bad \in SUBSET Nat
      OBVIOUS
    <3> HIDE DEF Bad
    <3> QED
      BY <3>1, LeastNatural
  <2>2. m \in 0..n /\ SumTo(f, m) # SumTo(g, m)
    OBVIOUS
  <2>3. m # 0
    BY <1>1, <1>2, <2>2
  <2>4. m \in 1..n /\ m - 1 \in 0..n /\ ~(m <= m - 1)
    BY <2>2, <2>3
  <2>5. SumTo(f, m - 1) = SumTo(g, m - 1)
    BY <2>1, <2>4
  <2>6. SumTo(f, m) = SumTo(f, m - 1) + f[m] /\ SumTo(g, m) = SumTo(g, m - 1) + g[m] /\ f[m] = g[m]
    BY <1>1, <1>2, <2>4
  <2> QED
    BY ONLY <2>2, <2>5, <2>6
<1> QED
  BY <1>3

-----------------------------------------------------------------------------
\* Rows end to end: where each begins, and what stands where.
Lens(rows) == [i \in DOMAIN rows |-> Len(rows[i])]
Begin(rows, i) == SumTo(Lens(rows), i - 1)
Laid(flat, rows, n, T) ==
    /\ flat \in Seq(T)
    /\ Len(flat) = SumTo(Lens(rows), n)
    /\ \A i \in 1..n : \A j \in 1..Len(rows[i]) :
          /\ Begin(rows, i) + j \in 1..Len(flat)
          /\ flat[Begin(rows, i) + j] = rows[i][j]
    /\ \A p \in 1..Len(flat) : \E i \in 1..n : \E j \in 1..Len(rows[i]) : p = Begin(rows, i) + j

\* The lengths of rows and the places they begin at.
LEMMA LensFacts ==
    ASSUME NEW T, NEW n \in Nat, NEW rows \in [1..n -> Seq(T)]
    PROVE  /\ \A i \in 1..n : rows[i] \in Seq(T) /\ Len(rows[i]) \in Nat /\ Lens(rows)[i] = Len(rows[i])
           /\ \A i \in 0..n : SumTo(Lens(rows), i) \in Nat
           /\ SumTo(Lens(rows), 0) = 0
           /\ \A i \in 1..n : SumTo(Lens(rows), i) = SumTo(Lens(rows), i - 1) + Len(rows[i])
           /\ \A i, j \in 0..n : i <= j => SumTo(Lens(rows), i) <= SumTo(Lens(rows), j)
<1>1. \A i \in 1..n : rows[i] \in Seq(T) /\ Len(rows[i]) \in Nat /\ Lens(rows)[i] = Len(rows[i])
  <2>1. DOMAIN rows = 1..n /\ \A i \in 1..n : rows[i] \in Seq(T)
    OBVIOUS
  <2> QED
    BY <2>1, LenProperties DEF Lens
<1>2. \A i \in 1..n : Lens(rows)[i] \in Nat /\ Lens(rows)[i] \in Int
  BY <1>1
<1>3. /\ \A i \in 0..n : SumTo(Lens(rows), i) \in Nat
      /\ \A i, j \in 0..n : i <= j => SumTo(Lens(rows), i) <= SumTo(Lens(rows), j)
  BY ONLY <1>2, n \in Nat, SumsRise
<1>4. /\ SumTo(Lens(rows), 0) = 0
      /\ \A i \in 1..n : SumTo(Lens(rows), i) = SumTo(Lens(rows), i - 1) + Lens(rows)[i]
  BY ONLY <1>2, n \in Nat, SumAt
<1> QED
  BY <1>1, <1>3, <1>4

\* One more row.
LEMMA LaidOn ==
    ASSUME NEW T, NEW n \in Nat, NEW rows \in [1..n -> Seq(T)], NEW m \in 1..n,
           NEW flat, Laid(flat, rows, m - 1, T)
    PROVE  Laid(flat \o rows[m], rows, m, T)
<1>1. /\ \A i \in 1..n : rows[i] \in Seq(T) /\ Len(rows[i]) \in Nat /\ Lens(rows)[i] = Len(rows[i])
      /\ \A i \in 0..n : SumTo(Lens(rows), i) \in Nat
      /\ \A i \in 1..n : SumTo(Lens(rows), i) = SumTo(Lens(rows), i - 1) + Len(rows[i])
  BY LensFacts
<1>2. flat \in Seq(T) /\ Len(flat) = SumTo(Lens(rows), m - 1) /\ Len(flat) \in Nat
  BY <1>1 DEF Laid
<1> DEFINE longer == flat \o rows[m]
<1>3. /\ longer \in Seq(T)
      /\ Len(longer) = Len(flat) + Len(rows[m])
      /\ \A p \in 1..Len(longer) : longer[p] = IF p <= Len(flat) THEN flat[p] ELSE rows[m][p - Len(flat)]
  <2>1. rows[m] \in Seq(T)
    BY <1>1
  <2>2. /\ longer \in Seq(T)
        /\ Len(longer) = Len(flat) + Len(rows[m])
        /\ \A p \in 1..(Len(flat) + Len(rows[m])) :
              longer[p] = IF p <= Len(flat) THEN flat[p] ELSE rows[m][p - Len(flat)]
    BY ONLY <1>2, <2>1, ConcatProperties DEF longer
  <2> QED
    BY ONLY <2>2
<1>4. Len(longer) = SumTo(Lens(rows), m) /\ Begin(rows, m) = Len(flat)
  BY <1>1, <1>2, <1>3 DEF Begin
<1> HIDE DEF longer
<1>5. ASSUME NEW i \in 1..m, NEW j \in 1..Len(rows[i])
      PROVE  Begin(rows, i) + j \in 1..Len(longer) /\ longer[Begin(rows, i) + j] = rows[i][j]
  <2>1. CASE i = m
    <3>1. j \in Nat /\ j >= 1 /\ j <= Len(rows[m]) /\ Len(rows[m]) \in Nat
      BY <1>1, <2>1
    <3>2. Len(longer) = Len(flat) + Len(rows[m]) /\ Len(flat) \in Nat
      BY <1>2, <1>3
    <3>3. Len(flat) + j \in 1..Len(longer) /\ ~(Len(flat) + j <= Len(flat)) /\ Len(flat) + j - Len(flat) = j
      BY ONLY <3>1, <3>2
    <3>4. longer[Len(flat) + j] = rows[m][Len(flat) + j - Len(flat)]
      BY <1>3, <3>3
    <3>5. Begin(rows, i) + j = Len(flat) + j /\ rows[m][Len(flat) + j - Len(flat)] = rows[i][j]
      BY <1>4, <2>1, <3>3
    <3> QED
      BY ONLY <3>3, <3>4, <3>5
  <2>2. CASE i # m
    <3>1. i \in 1..(m - 1)
      BY <2>2
    <3>2. Begin(rows, i) + j \in 1..Len(flat) /\ flat[Begin(rows, i) + j] = rows[i][j]
      BY <3>1 DEF Laid
    <3>3. \A p \in 1..Len(flat) : p \in 1..Len(longer) /\ p <= Len(flat)
      BY <1>1, <1>2, <1>3
    <3> QED
      BY <1>3, <3>2, <3>3
  <2> QED
    BY <2>1, <2>2
<1>6. ASSUME NEW p \in 1..Len(longer)
      PROVE  \E i \in 1..m : \E j \in 1..Len(rows[i]) : p = Begin(rows, i) + j
  <2>1. CASE p <= Len(flat)
    <3>1. p \in 1..Len(flat)
      BY <1>2, <2>1
    <3>2. PICK i \in 1..(m - 1) : \E j \in 1..Len(rows[i]) : p = Begin(rows, i) + j
      BY <3>1 DEF Laid
    <3>3. i \in 1..m
      OBVIOUS
    <3> QED
      BY <3>2, <3>3
  <2>2. CASE ~(p <= Len(flat))
    <3>1. p - Len(flat) \in 1..Len(rows[m]) /\ p = Len(flat) + (p - Len(flat))
      BY <1>1, <1>2, <1>3, <2>2
    <3>2. m \in 1..m
      OBVIOUS
    <3> QED
      BY <1>4, <3>1, <3>2
  <2> QED
    BY <2>1, <2>2
<1>7. Laid(longer, rows, m, T)
  BY <1>3, <1>4, <1>5, <1>6 DEF Laid
<1> QED
  BY <1>7 DEF longer

\* No row yet.
LEMMA LaidNone ==
    ASSUME NEW T, NEW n \in Nat, NEW rows \in [1..n -> Seq(T)]
    PROVE  Laid(<<>>, rows, 0, T)
<1>1. SumTo(Lens(rows), 0) = 0
  BY LensFacts
<1>2. <<>> \in Seq(T) /\ Len(<<>>) = 0 /\ 1..0 = {}
  OBVIOUS
<1> QED
  BY <1>1, <1>2 DEF Laid

\* FlattenSeq lays the rows end to end.
LEMMA FlatFacts ==
    ASSUME NEW T, NEW n \in Nat, NEW rows \in [1..n -> Seq(T)]
    PROVE  Laid(FlattenSeq(rows), rows, n, T)
<1>1. Len(rows) = n
  OBVIOUS
<1>2. CASE n = 0
  <2>1. rows = <<>> /\ FlattenSeq(rows) = rows
    BY <1>1, <1>2 DEF FlattenSeq
  <2> QED
    BY <1>2, <2>1, LaidNone
<1>3. CASE n # 0
  <2> DEFINE step == [i \in 1..n |-> [v \in Seq(T) |-> v \o rows[i]]]
             flatten == CHOOSE flatten : flatten = [i \in 1..n |-> IF i = 1 THEN rows[i] ELSE flatten[i - 1] \o rows[i]]
  <2>1. step \in [1..n -> [Seq(T) -> Seq(T)]] /\ <<>> \in Seq(T)
    <3>1. \A i \in 1..n, v \in Seq(T) : v \o rows[i] \in Seq(T)
      BY ConcatProperties
    <3> QED
      BY <3>1
  <2>2. \A i \in 1..n, v \in Seq(T) : step[i][v] = v \o rows[i]
    OBVIOUS
  <2> HIDE DEF step
  <2>3. PICK s : Loops(s, Seq(T), n, <<>>, step)
    BY ONLY <2>1, n \in Nat, Iterates
  <2>4. s \in [0..n -> Seq(T)] /\ s[0] = <<>> /\ \A i \in 1..n : s[i] = step[i][s[i - 1]]
    BY <2>3 DEF Loops
  <2>5. \A i \in 1..n : s[i] = s[i - 1] \o rows[i]
    <3>1. \A i \in 1..n : s[i - 1] \in Seq(T)
      <4>1. \A i \in 1..n : i - 1 \in 0..n
        OBVIOUS
      <4> QED
        BY <2>4, <4>1
    <3> QED
      BY <2>2, <2>4, <3>1
  <2>6. s[1] = rows[1]
    <3>1. 1 \in 1..n /\ rows[1] \in Seq(T) /\ 1 - 1 = 0
      BY <1>3
    <3>2. <<>> \o rows[1] = rows[1]
      BY <3>1, ConcatEmptySeq
    <3> QED
      BY <2>4, <2>5, <3>1, <3>2
  <2> DEFINE r == [i \in 1..n |-> s[i]]
  <2>7. r = [i \in 1..n |-> IF i = 1 THEN rows[i] ELSE r[i - 1] \o rows[i]]
    <3>1. \A i \in 1..n : r[i] = IF i = 1 THEN rows[i] ELSE r[i - 1] \o rows[i]
      <4>1. \A i \in 1..n : i # 1 => i - 1 \in 1..n
        OBVIOUS
      <4> QED
        BY <2>5, <2>6, <4>1
    <3>2. r = [i \in 1..n |-> r[i]]
      OBVIOUS
    <3> QED
      BY ONLY <3>1, <3>2
  <2>8. flatten = [i \in 1..n |-> IF i = 1 THEN rows[i] ELSE flatten[i - 1] \o rows[i]]
    <3> HIDE DEF r
    <3> QED
      BY <2>7
  <2>9. FlattenSeq(rows) = flatten[n]
    BY <1>1, <1>3 DEF FlattenSeq
  <2> HIDE DEF flatten, r
  <2>10. \A i \in 1..n : flatten[i] = IF i = 1 THEN rows[i] ELSE flatten[i - 1] \o rows[i]
    BY <2>8
  <2> DEFINE Bad == {m \in 1..n : ~Laid(flatten[m], rows, m, T)}
  <2>11. Bad = {}
    <3> SUFFICES ASSUME Bad # {} PROVE FALSE
      OBVIOUS
    <3>1. PICK m \in Bad : \A x \in Bad : m <= x
      <4>1. Bad \in SUBSET Nat
        OBVIOUS
      <4> HIDE DEF Bad
      <4> QED
        BY <4>1, LeastNatural
    <3>2. m \in 1..n /\ ~Laid(flatten[m], rows, m, T)
      OBVIOUS
    <3>3. CASE m = 1
      <4>1. Laid(<<>>, rows, 1 - 1, T) /\ rows[1] \in Seq(T)
        BY <3>2, <3>3, LaidNone
      <4>2. Laid(<<>> \o rows[1], rows, 1, T)
        BY <3>2, <3>3, <4>1, LaidOn
      <4>3. <<>> \o rows[1] = rows[1]
        BY <4>1, ConcatEmptySeq
      <4> QED
        BY <2>10, <3>2, <3>3, <4>2, <4>3
    <3>4. CASE m # 1
      <4>1. m - 1 \in 1..n /\ ~(m <= m - 1)
        BY <3>2, <3>4
      <4>2. Laid(flatten[m - 1], rows, m - 1, T)
        BY <3>1, <4>1
      <4>3. Laid(flatten[m - 1] \o rows[m], rows, m, T)
        BY ONLY <4>2, <3>2, n \in Nat, rows \in [1..n -> Seq(T)], LaidOn
      <4> QED
        BY <2>10, <3>2, <3>4, <4>3
    <3> QED
      BY <3>3, <3>4
  <2>12. n \in 1..n
    BY <1>3
  <2> QED
    BY <2>9, <2>11, <2>12
<1> QED
  BY <1>2, <1>3

\* No place belongs to two rows.
LEMMA RowsApart ==
    ASSUME NEW n \in Nat, NEW counts, \A i \in 1..n : counts[i] \in Nat,
           NEW i \in 1..n, NEW j \in 1..counts[i], NEW i2 \in 1..n, NEW j2 \in 1..counts[i2],
           SumTo(counts, i - 1) + j = SumTo(counts, i2 - 1) + j2
    PROVE  i = i2 /\ j = j2
<1>1. /\ \A x \in 0..n : SumTo(counts, x) \in Nat
      /\ \A x, y \in 0..n : x <= y => SumTo(counts, x) <= SumTo(counts, y)
  BY SumsRise
<1>2. \A x \in 1..n : SumTo(counts, x) = SumTo(counts, x - 1) + counts[x]
  <2>1. \A x \in 1..n : counts[x] \in Int
    OBVIOUS
  <2> QED
    BY <2>1, SumAt
<1>3. i - 1 \in 0..n /\ i2 - 1 \in 0..n /\ i \in 0..n /\ i2 \in 0..n
  OBVIOUS
<1>4. ~(i < i2)
  <2> SUFFICES ASSUME i < i2 PROVE FALSE
    OBVIOUS
  <2>1. i <= i2 - 1
    OBVIOUS
  <2>2. SumTo(counts, i) <= SumTo(counts, i2 - 1)
    BY <1>1, <1>3, <2>1
  <2> QED
    BY <1>1, <1>2, <1>3, <2>2
<1>5. ~(i2 < i)
  <2> SUFFICES ASSUME i2 < i PROVE FALSE
    OBVIOUS
  <2>1. i2 <= i - 1
    OBVIOUS
  <2>2. SumTo(counts, i2) <= SumTo(counts, i - 1)
    BY <1>1, <1>3, <2>1
  <2> QED
    BY <1>1, <1>2, <1>3, <2>2
<1>6. i = i2
  BY <1>4, <1>5
<1> QED
  BY <1>1, <1>3, <1>6

\* What the rows hold, the flat sequence holds.
LEMMA FlatRange ==
    ASSUME NEW T, NEW n \in Nat, NEW rows \in [1..n -> Seq(T)]
    PROVE  \A x : x \in Range(FlattenSeq(rows)) <=> \E i \in 1..n : x \in Range(rows[i])
<1> DEFINE flat == FlattenSeq(rows)
<1>1. Laid(flat, rows, n, T)
  BY FlatFacts
<1> HIDE DEF flat
<1>2. DOMAIN flat = 1..Len(flat) /\ \A i \in 1..n : DOMAIN rows[i] = 1..Len(rows[i])
  BY <1>1 DEF Laid
<1>3. ASSUME NEW i \in 1..n, NEW x \in Range(rows[i]) PROVE x \in Range(flat)
  <2>1. PICK j \in 1..Len(rows[i]) : x = rows[i][j]
    BY <1>2 DEF Range
  <2>2. Begin(rows, i) + j \in 1..Len(flat) /\ flat[Begin(rows, i) + j] = rows[i][j]
    BY <1>1 DEF Laid
  <2> QED
    BY <1>2, <2>1, <2>2 DEF Range
<1>4. ASSUME NEW x \in Range(flat) PROVE \E i \in 1..n : x \in Range(rows[i])
  <2>1. PICK p \in 1..Len(flat) : x = flat[p]
    BY <1>2 DEF Range
  <2>2. PICK i \in 1..n : \E j \in 1..Len(rows[i]) : p = Begin(rows, i) + j
    BY <1>1 DEF Laid
  <2>3. PICK j \in 1..Len(rows[i]) : p = Begin(rows, i) + j
    BY <2>2
  <2>4. x = rows[i][j]
    BY <1>1, <2>1, <2>3 DEF Laid
  <2> QED
    BY <1>2, <2>4 DEF Range
<1>5. \A x : x \in Range(flat) <=> \E i \in 1..n : x \in Range(rows[i])
  BY ONLY <1>3, <1>4
<1> QED
  BY <1>5 DEF flat

-----------------------------------------------------------------------------
\* counts[i] places for the i-th value, its cells in them.
Spread(flat, counts, n) ==
    /\ Len(flat) = SumTo(counts, n)
    /\ \A i \in 1..n : \A j \in 1..counts[i] : SumTo(counts, i - 1) + j \in 1..Len(flat)
    /\ \A p \in 1..Len(flat) : \E i \in 1..n : \E j \in 1..counts[i] : p = SumTo(counts, i - 1) + j

\* np.repeat: every value as often as its count says, in order.
LEMMA RepeatedFacts ==
    ASSUME NEW V, NEW n \in Nat, NEW values \in [1..n -> V], NEW counts \in [1..n -> Nat]
    PROVE  /\ Repeated(values, counts) \in Seq(V)
           /\ Spread(Repeated(values, counts), counts, n)
           /\ \A i \in 1..n : \A j \in 1..counts[i] :
                 Repeated(values, counts)[SumTo(counts, i - 1) + j] = values[i]
<1> DEFINE rows == [i \in 1..n |-> [j \in 1..counts[i] |-> values[i]]]
<1>1. rows \in [1..n -> Seq(V)]
  <2>1. \A i \in 1..n : [j \in 1..counts[i] |-> values[i]] \in Seq(V)
    <3>1. ASSUME NEW i \in 1..n PROVE [j \in 1..counts[i] |-> values[i]] \in Seq(V)
      <4>1. counts[i] \in Nat /\ \A j \in 1..counts[i] : values[i] \in V
        OBVIOUS
      <4> QED
        BY <4>1, IsASeq
    <3> QED
      BY <3>1
  <2> QED
    BY <2>1
<1>2. \A i \in 1..n : Len(rows[i]) = counts[i] /\ \A j \in 1..counts[i] : rows[i][j] = values[i]
  OBVIOUS
<1>3. Repeated(values, counts) = FlattenSeq(rows)
  BY DEF Repeated
<1>4. Lens(rows) = counts
  <2>1. DOMAIN rows = 1..n
    OBVIOUS
  <2> HIDE DEF rows
  <2> QED
    BY <1>2, <2>1 DEF Lens
<1> HIDE DEF rows
<1>5. Laid(FlattenSeq(rows), rows, n, V)
  BY <1>1, FlatFacts
<1>6. \A i \in 1..n : Begin(rows, i) = SumTo(counts, i - 1)
  BY <1>4 DEF Begin
<1> DEFINE flat == FlattenSeq(rows)
<1> HIDE DEF flat
<1>7. Laid(flat, rows, n, V)
  BY <1>5 DEF flat
<1>8. flat \in Seq(V) /\ Len(flat) = SumTo(counts, n)
  BY <1>4, <1>7 DEF Laid
<1>9. ASSUME NEW i \in 1..n, NEW j \in 1..counts[i]
      PROVE  SumTo(counts, i - 1) + j \in 1..Len(flat) /\ flat[SumTo(counts, i - 1) + j] = values[i]
  <2>1. j \in 1..Len(rows[i]) /\ rows[i][j] = values[i]
    BY <1>2
  <2>2. Begin(rows, i) + j \in 1..Len(flat) /\ flat[Begin(rows, i) + j] = rows[i][j]
    BY <1>7, <2>1 DEF Laid
  <2> QED
    BY <1>6, <2>1, <2>2
<1>10. ASSUME NEW p \in 1..Len(flat)
       PROVE  \E i \in 1..n : \E j \in 1..counts[i] : p = SumTo(counts, i - 1) + j
  <2>1. PICK i \in 1..n : \E j \in 1..Len(rows[i]) : p = Begin(rows, i) + j
    BY <1>7 DEF Laid
  <2> QED
    BY <1>2, <1>6, <2>1
<1>11. Repeated(values, counts) = flat
  BY <1>3 DEF flat
<1> QED
  BY ONLY <1>8, <1>9, <1>10, <1>11 DEF Spread

\* The ranges expanded: the j-th place of range i is lo[i] + j - 1.
LEMMA ExpandedFacts ==
    ASSUME NEW n \in Nat, NEW lo \in [1..n -> Int], NEW counts \in [1..n -> Nat]
    PROVE  /\ Expanded(lo, counts) \in Seq(Int)
           /\ Spread(Expanded(lo, counts), counts, n)
           /\ \A i \in 1..n : \A j \in 1..counts[i] :
                 Expanded(lo, counts)[SumTo(counts, i - 1) + j] = lo[i] + j - 1
<1>1. /\ \A i \in 0..n : SumTo(counts, i) \in Nat
      /\ \A i \in 1..n : SumTo(counts, i) = SumTo(counts, i - 1) + counts[i]
  <2>1. \A i \in 1..n : counts[i] \in Nat /\ counts[i] \in Int
    OBVIOUS
  <2> QED
    BY <2>1, SumAt, SumsRise
<1> DEFINE values == [i \in DOMAIN lo |-> lo[i] - (Sums(counts)[i] - counts[i])]
           from == Repeated(values, counts)
           wide == [i \in DOMAIN from |-> from[i] + i - 1]
<1>2. values \in [1..n -> Int] /\ \A i \in 1..n : values[i] = lo[i] - SumTo(counts, i - 1)
  <2>1. DOMAIN lo = 1..n /\ DOMAIN counts = 1..n
    OBVIOUS
  <2>2. \A i \in 1..n : i \in 0..n /\ i - 1 \in 0..n
    OBVIOUS
  <2>3. \A i \in 1..n : Sums(counts)[i] = SumTo(counts, i)
    BY <2>1 DEF Sums
  <2>4. \A i \in 1..n : values[i] = lo[i] - (SumTo(counts, i) - counts[i])
    BY <2>1, <2>3
  <2>5. \A i \in 1..n : values[i] = lo[i] - SumTo(counts, i - 1) /\ values[i] \in Int
    BY <1>1, <2>2, <2>4
  <2>6. values = [i \in 1..n |-> values[i]]
    BY <2>1
  <2> HIDE DEF values
  <2> QED
    BY <2>5, <2>6
<1>3. Expanded(lo, counts) = wide
  BY DEF Expanded
<1> HIDE DEF values
<1>4. /\ from \in Seq(Int)
      /\ Spread(from, counts, n)
      /\ \A i \in 1..n : \A j \in 1..counts[i] : from[SumTo(counts, i - 1) + j] = values[i]
  BY <1>2, RepeatedFacts
<1> HIDE DEF from
<1>5. DOMAIN from = 1..Len(from) /\ Len(from) \in Nat /\ \A i \in 1..Len(from) : from[i] \in Int
  BY <1>4
<1>6. wide \in Seq(Int) /\ Len(wide) = Len(from) /\ \A p \in 1..Len(from) : wide[p] = from[p] + p - 1
  <2>1. \A p \in 1..Len(from) : from[p] + p - 1 \in Int
    BY <1>5
  <2>2. wide = [p \in 1..Len(from) |-> from[p] + p - 1]
    BY <1>5
  <2>3. wide \in [1..Len(from) -> Int]
    BY <2>1, <2>2
  <2> QED
    BY <1>5, <2>2, <2>3
<1> HIDE DEF wide
<1>7. Spread(wide, counts, n)
  BY <1>4, <1>6 DEF Spread
<1>8. ASSUME NEW i \in 1..n, NEW j \in 1..counts[i]
      PROVE  wide[SumTo(counts, i - 1) + j] = lo[i] + j - 1
  <2>1. SumTo(counts, i - 1) + j \in 1..Len(from)
    BY <1>4 DEF Spread
  <2>2. wide[SumTo(counts, i - 1) + j] = values[i] + (SumTo(counts, i - 1) + j) - 1
    BY <1>4, <1>6, <2>1
  <2>3. i - 1 \in 0..n
    OBVIOUS
  <2>4. SumTo(counts, i - 1) \in Nat /\ lo[i] \in Int /\ values[i] = lo[i] - SumTo(counts, i - 1)
    BY <1>1, <1>2, <2>3
  <2> QED
    BY <2>2, <2>4
<1> QED
  BY <1>3, <1>6, <1>7, <1>8

\* One tier's chunk holds the pair of every row with every entry in its range.
Hit(tier, lo, hi) == {p \in 1..Len(tier) : lo <= tier[p].key /\ tier[p].key < hi}
Chunked(job, chunk, tier, rows, from, width, m) ==
    /\ chunk \in Seq(Nat)
    /\ \A x : x \in Range(chunk) <=>
          \E i \in 1..m : \E p \in Hit(tier, from[i], from[i] + width) : x = PairOf(job, rows[i], tier[p].id)

\* So it does: the expanded ranges visit every entry between the two searched bounds.
LEMMA ChunkFacts ==
    ASSUME NEW job, job.n \in Nat, NEW tier \in Seq(EntryType), KeySorted(tier),
           NEW m \in Nat, NEW rows \in [1..m -> Nat], NEW from \in [1..m -> Int],
           NEW width \in Nat
    PROVE  Chunked(job, Chunk(job, tier, rows, from, width), tier, rows, from, width, m)
<1>1. /\ Len(tier) \in Nat /\ DOMAIN tier = 1..Len(tier)
      /\ \A i \in 1..Len(tier) : tier[i] \in EntryType /\ tier[i].key \in Int /\ tier[i].id \in Nat
  BY EntryPlaces
<1>2. \A v \in Int : /\ LowerBound(tier, v) \in 0..Len(tier)
                     /\ \A i \in 1..Len(tier) : i <= LowerBound(tier, v) <=> tier[i].key < v
  BY LowerBoundFacts
<1> DEFINE lo == [i \in DOMAIN from |-> LowerBound(tier, from[i])]
           counts == [i \in DOMAIN from |-> Found1(tier, from[i], width)]
           pos == Expanded(lo, counts)
           of == Repeated(rows, counts)
           chunk == [i \in DOMAIN pos |-> PairOf(job, of[i], tier[pos[i] + 1].id)]
<1>3. \A i \in 1..m : /\ from[i] \in Int /\ from[i] + width \in Int
                      /\ LowerBound(tier, from[i]) <= LowerBound(tier, from[i] + width)
  <2> SUFFICES ASSUME NEW i \in 1..m PROVE LowerBound(tier, from[i]) <= LowerBound(tier, from[i] + width)
    OBVIOUS
  <2> DEFINE x == LowerBound(tier, from[i])
             y == LowerBound(tier, from[i] + width)
  <2>1. from[i] \in Int /\ from[i] + width \in Int /\ from[i] <= from[i] + width
    OBVIOUS
  <2>2. x \in 0..Len(tier) /\ y \in 0..Len(tier)
    BY <1>2, <2>1
  <2>3. \A p \in 1..Len(tier) : (p <= x <=> tier[p].key < from[i]) /\ (p <= y <=> tier[p].key < from[i] + width)
    BY <1>2, <2>1
  <2> HIDE DEF x, y
  <2>4. x # 0 => x \in 1..Len(tier) /\ x <= x
    BY <2>2
  <2>5. x # 0 => tier[x].key < from[i] /\ tier[x].key \in Int
    BY <1>1, <2>3, <2>4
  <2>6. x # 0 => tier[x].key < from[i] + width
    BY <2>1, <2>5
  <2>7. x # 0 => x <= y
    BY <2>3, <2>4, <2>6
  <2>8. x <= y
    BY <2>2, <2>7
  <2> QED
    BY <2>8 DEF x, y
<1>4. /\ lo \in [1..m -> Int] /\ counts \in [1..m -> Nat]
      /\ \A i \in 1..m : /\ lo[i] = LowerBound(tier, from[i]) /\ lo[i] \in 0..Len(tier)
                         /\ lo[i] + counts[i] = LowerBound(tier, from[i] + width)
                         /\ lo[i] + counts[i] \in 0..Len(tier)
  <2>1. DOMAIN from = 1..m
    OBVIOUS
  <2>2. \A i \in 1..m : /\ lo[i] = LowerBound(tier, from[i])
                        /\ counts[i] = LowerBound(tier, from[i] + width) - LowerBound(tier, from[i])
    BY <2>1 DEF Found1
  <2>3. lo = [i \in 1..m |-> lo[i]] /\ counts = [i \in 1..m |-> counts[i]]
    BY <2>1
  <2> HIDE DEF lo, counts
  <2>4. \A i \in 1..m : /\ LowerBound(tier, from[i]) \in 0..Len(tier)
                        /\ LowerBound(tier, from[i] + width) \in 0..Len(tier)
    BY <1>2, <1>3
  <2>5. \A i \in 1..m : lo[i] \in Int /\ counts[i] \in Nat /\ lo[i] + counts[i] = LowerBound(tier, from[i] + width)
    <3> SUFFICES ASSUME NEW i \in 1..m
                 PROVE  lo[i] \in Int /\ counts[i] \in Nat /\ lo[i] + counts[i] = LowerBound(tier, from[i] + width)
      OBVIOUS
    <3> DEFINE x == LowerBound(tier, from[i])
               y == LowerBound(tier, from[i] + width)
    <3>1. x \in 0..Len(tier) /\ y \in 0..Len(tier) /\ x <= y /\ lo[i] = x /\ counts[i] = y - x
      BY <1>3, <2>2, <2>4
    <3> HIDE DEF x, y
    <3>2. lo[i] \in Int /\ counts[i] \in Nat /\ lo[i] + counts[i] = y
      BY ONLY <1>1, <3>1
    <3> QED
      BY <3>2 DEF y
  <2> QED
    BY <2>2, <2>3, <2>4, <2>5
<1>5. Chunk(job, tier, rows, from, width) = chunk
  BY DEF Chunk
<1> HIDE DEF lo, counts
<1>6. /\ pos \in Seq(Int) /\ Spread(pos, counts, m)
      /\ \A i \in 1..m : \A j \in 1..counts[i] : pos[SumTo(counts, i - 1) + j] = lo[i] + j - 1
  BY <1>4, ExpandedFacts
<1>7. /\ of \in Seq(Nat) /\ Spread(of, counts, m)
      /\ \A i \in 1..m : \A j \in 1..counts[i] : of[SumTo(counts, i - 1) + j] = rows[i]
  <2>1. counts \in [1..m -> Nat]
    BY <1>4
  <2>2. /\ Repeated(rows, counts) \in Seq(Nat)
        /\ Spread(Repeated(rows, counts), counts, m)
        /\ \A i \in 1..m : \A j \in 1..counts[i] : Repeated(rows, counts)[SumTo(counts, i - 1) + j] = rows[i]
    BY ONLY <2>1, m \in Nat, rows \in [1..m -> Nat], RepeatedFacts
  <2> QED
    BY ONLY <2>2 DEF of
<1> HIDE DEF pos, of
<1>8. DOMAIN pos = 1..Len(pos) /\ Len(pos) \in Nat
  BY <1>6
<1>9. ASSUME NEW i \in 1..m, NEW j \in 1..counts[i]
      PROVE  /\ SumTo(counts, i - 1) + j \in 1..Len(pos)
             /\ chunk[SumTo(counts, i - 1) + j] = PairOf(job, rows[i], tier[lo[i] + j].id)
             /\ lo[i] + j \in Hit(tier, from[i], from[i] + width)
  <2>1. SumTo(counts, i - 1) + j \in 1..Len(pos)
    BY <1>6 DEF Spread
  <2>2. chunk[SumTo(counts, i - 1) + j] = PairOf(job, rows[i], tier[(lo[i] + j - 1) + 1].id)
    BY <1>6, <1>7, <1>8, <2>1
  <2>3. lo[i] \in 0..Len(tier) /\ counts[i] \in Nat /\ lo[i] + counts[i] \in 0..Len(tier)
    BY <1>4
  <2>4. /\ (lo[i] + j - 1) + 1 = lo[i] + j /\ lo[i] + j \in 1..Len(tier)
        /\ lo[i] + j <= lo[i] + counts[i] /\ ~(lo[i] + j <= lo[i])
    <3>1. Len(tier) \in Nat /\ j \in Int /\ 1 <= j /\ j <= counts[i]
      BY <1>1, <2>3
    <3>2. lo[i] \in Int /\ 0 <= lo[i] /\ lo[i] + counts[i] <= Len(tier) /\ counts[i] \in Int
      BY <2>3, <3>1
    <3> QED
      BY ONLY <3>1, <3>2
  <2>5. from[i] \in Int /\ from[i] + width \in Int
    OBVIOUS
  <2>6. tier[lo[i] + j].key < from[i] + width /\ ~(tier[lo[i] + j].key < from[i])
    BY <1>2, <1>4, <2>4, <2>5
  <2>7. tier[lo[i] + j].key \in Int
    BY <1>1, <2>4
  <2> QED
    <3>1. from[i] <= tier[lo[i] + j].key
      BY ONLY <2>5, <2>6, <2>7
    <3>2. lo[i] + j \in Hit(tier, from[i], from[i] + width)
      BY ONLY <2>4, <2>6, <3>1 DEF Hit
    <3>3. chunk[SumTo(counts, i - 1) + j] = PairOf(job, rows[i], tier[lo[i] + j].id)
      BY ONLY <2>2, <2>4
    <3> QED
      BY ONLY <2>1, <3>2, <3>3
<1>10. ASSUME NEW i \in 1..m, NEW p \in Hit(tier, from[i], from[i] + width)
       PROVE  \E j \in 1..counts[i] : p = lo[i] + j
  <2>1. p \in 1..Len(tier) /\ from[i] <= tier[p].key /\ tier[p].key < from[i] + width
    BY DEF Hit
  <2>2. from[i] \in Int /\ from[i] + width \in Int /\ tier[p].key \in Int
    BY <1>1, <2>1
  <2>3. ~(p <= lo[i]) /\ p <= lo[i] + counts[i]
    <3>1. p <= LowerBound(tier, from[i]) <=> tier[p].key < from[i]
      BY ONLY <1>2, <2>1, <2>2
    <3>2. p <= LowerBound(tier, from[i] + width) <=> tier[p].key < from[i] + width
      BY ONLY <1>2, <2>1, <2>2
    <3>3. lo[i] = LowerBound(tier, from[i]) /\ lo[i] + counts[i] = LowerBound(tier, from[i] + width)
      BY <1>4
    <3> QED
      BY ONLY <2>1, <2>2, <3>1, <3>2, <3>3
  <2>4. lo[i] \in 0..Len(tier) /\ counts[i] \in Nat
    BY <1>4
  <2>5. p - lo[i] \in 1..counts[i] /\ p = lo[i] + (p - lo[i])
    BY ONLY <1>1, <2>1, <2>3, <2>4
  <2> QED
    BY <2>5
<1>11. DOMAIN chunk = 1..Len(pos)
  BY <1>8
<1> HIDE DEF chunk
<1>12. ASSUME NEW q \in 1..Len(pos)
       PROVE  \E i \in 1..m : \E p \in Hit(tier, from[i], from[i] + width) :
                 chunk[q] = PairOf(job, rows[i], tier[p].id)
  <2>1. PICK i \in 1..m : \E j \in 1..counts[i] : q = SumTo(counts, i - 1) + j
    BY <1>6 DEF Spread
  <2>2. PICK j \in 1..counts[i] : q = SumTo(counts, i - 1) + j
    BY <2>1
  <2> QED
    BY <1>9, <2>2
<1>13. chunk \in Seq(Nat)
  <2>1. \A q \in 1..Len(pos) : chunk[q] \in Nat
    <3> SUFFICES ASSUME NEW q \in 1..Len(pos) PROVE chunk[q] \in Nat
      OBVIOUS
    <3>0. PICK i \in 1..m : \E p \in Hit(tier, from[i], from[i] + width) :
             chunk[q] = PairOf(job, rows[i], tier[p].id)
      BY <1>12
    <3>1. PICK p \in Hit(tier, from[i], from[i] + width) : chunk[q] = PairOf(job, rows[i], tier[p].id)
      BY <3>0
    <3>2. rows[i] \in Nat /\ tier[p].id \in Nat
      BY <1>1 DEF Hit
    <3>3. PairOf(job, rows[i], tier[p].id) \in Nat
      <4> DEFINE w == job.n
                 v == rows[i]
                 y == tier[p].id
      <4>1. w \in Nat /\ v \in Nat /\ y \in Nat
        BY <3>2
      <4> HIDE DEF w, v, y
      <4>2. v * w \in Nat
        BY ONLY <4>1
      <4>3. v * w + y \in Nat
        BY ONLY <4>1, <4>2
      <4> QED
        BY ONLY <4>3 DEF PairOf, w, v, y
    <3> QED
      BY <3>1, <3>3
  <2>2. chunk = [q \in 1..Len(pos) |-> chunk[q]]
    BY <1>11 DEF chunk
  <2>3. chunk \in [1..Len(pos) -> Nat]
    BY <2>1, <2>2
  <2> QED
    <3> DEFINE len == Len(pos)
    <3>1. len \in Nat /\ chunk \in [1..len -> Nat]
      BY <1>8, <2>3
    <3> HIDE DEF len
    <3> QED
      BY ONLY <3>1
<1>14. \A x : x \in Range(chunk) <=>
          \E i \in 1..m : \E p \in Hit(tier, from[i], from[i] + width) : x = PairOf(job, rows[i], tier[p].id)
  <2>1. ASSUME NEW x \in Range(chunk)
        PROVE  \E i \in 1..m : \E p \in Hit(tier, from[i], from[i] + width) : x = PairOf(job, rows[i], tier[p].id)
    BY <1>11, <1>12 DEF Range
  <2>2. ASSUME NEW i \in 1..m, NEW p \in Hit(tier, from[i], from[i] + width)
        PROVE  PairOf(job, rows[i], tier[p].id) \in Range(chunk)
    <3>1. PICK j \in 1..counts[i] : p = lo[i] + j
      BY <1>10
    <3>2. SumTo(counts, i - 1) + j \in DOMAIN chunk
      BY <1>9, <1>11
    <3>3. chunk[SumTo(counts, i - 1) + j] = PairOf(job, rows[i], tier[p].id)
      BY <1>9, <3>1
    <3> QED
      BY ONLY <3>2, <3>3 DEF Range
  <2> QED
    BY ONLY <2>1, <2>2
<1>15. Chunked(job, chunk, tier, rows, from, width, m)
  BY ONLY <1>13, <1>14 DEF Chunked
<1> QED
  BY ONLY <1>5, <1>15

-----------------------------------------------------------------------------
\* What a job of the batch form is made of.
RowJobOK(job) ==
    /\ job.n \in Nat \ {0} /\ job.static \in 0..job.n
    /\ job.keys \in [Tables -> [1..job.n -> Int]]
    /\ job.own \in Seq([Tables -> Int])
    /\ job.probed \in [DOMAIN job.own -> [Tables -> Seq(Int)]]
    /\ job.gap \in [DOMAIN job.own -> [1..job.n -> Int]]
    /\ job.k \in Nat \ {0} /\ job.block \in Nat \ {0} /\ job.radius \in Int
    /\ job.excludes = <<>> \/ job.excludes \in [DOMAIN job.own -> Int]

\* The ids of the tiers: the static one's, then the others.
IdsOf(job, s) == IF s = 1 THEN 0..(job.static - 1) ELSE job.static..(job.n - 1)
Filed(job, t, tier, ids) ==
    /\ Tier(tier, ids) /\ tier \in Seq(EntryType) /\ KeySorted(tier)
    /\ \A p \in 1..Len(tier) : tier[p].id \in ids /\ tier[p].key = job.keys[t][tier[p].id + 1]
    /\ \A x \in ids : \E p \in 1..Len(tier) : tier[p].id = x

\* Each tier files its ids under their keys.
LEMMA Tiers2Facts ==
    ASSUME NEW job, RowJobOK(job), NEW t \in Tables
    PROVE  /\ Len(Tiers2(job, t)) = (IF job.static = job.n THEN 1 ELSE 2)
           /\ Tiers2(job, t) \in [1..Len(Tiers2(job, t)) -> Seq(EntryType)]
           /\ \A s \in 1..Len(Tiers2(job, t)) : Filed(job, t, Tiers2(job, t)[s], IdsOf(job, s))
<1> DEFINE one == SubSeq(job.keys[t], 1, job.static)
           two == SubSeq(job.keys[t], job.static + 1, job.n)
           first == SortTier(one, 0)
           second == SortTier(two, job.static)
<1>1. /\ job.n \in Nat /\ job.static \in Nat /\ job.static <= job.n
      /\ job.keys[t] \in [1..job.n -> Int]
  BY DEF RowJobOK
<1>2. /\ one \in [1..job.static -> Int] /\ \A i \in 1..job.static : one[i] = job.keys[t][i]
      /\ two \in [1..(job.n - job.static) -> Int]
      /\ \A i \in 1..(job.n - job.static) : two[i] = job.keys[t][job.static + i]
  <2> DEFINE keys == job.keys[t]
             n == job.n
             c == job.static
  <2>1. n \in Nat /\ c \in Nat /\ c <= n /\ keys \in [1..n -> Int]
    BY <1>1
  <2> HIDE DEF keys, n, c
  <2>2. keys \in Seq(Int) /\ Len(keys) = n
    BY ONLY <2>1, IsASeq, LenProperties
  <2>3. SubSeq(keys, 1, c) = [i \in 1..c |-> keys[i]]
    BY ONLY <2>1
  <2>4. SubSeq(keys, c + 1, n) = [i \in 1..(n - c) |-> keys[c + i]]
    BY ONLY <2>1
  <2>5. /\ SubSeq(keys, 1, c) \in [1..c -> Int] /\ \A i \in 1..c : SubSeq(keys, 1, c)[i] = keys[i]
    <3>1. \A i \in 1..c : i \in 1..n /\ keys[i] \in Int
      BY ONLY <2>1
    <3> QED
      BY ONLY <2>3, <3>1
  <2>6. /\ SubSeq(keys, c + 1, n) \in [1..(n - c) -> Int]
        /\ \A i \in 1..(n - c) : SubSeq(keys, c + 1, n)[i] = keys[c + i]
    <3>1. \A i \in 1..(n - c) : c + i \in 1..n /\ keys[c + i] \in Int
      BY ONLY <2>1
    <3> QED
      BY ONLY <2>4, <3>1
  <2> QED
    BY <2>5, <2>6 DEF keys, n, c
<1>3. Tiers2(job, t) = IF job.static = job.n THEN <<first>> ELSE <<first, second>>
  BY DEF Tiers2
<1> HIDE DEF one, two
<1>4. Filed(job, t, first, 0..(job.static - 1))
  <2> DEFINE c == job.static
  <2>1. /\ Tier(first, 0..(0 + c - 1))
        /\ \A i \in 1..Len(first) : first[i].key = one[first[i].id - 0 + 1]
    BY ONLY <1>1, <1>2, SortTierFacts
  <2>2. 0 + c - 1 = c - 1
    BY <1>1
  <2>3. Tier(first, 0..(c - 1))
    BY <2>1, <2>2
  <2>4. /\ first \in Seq(EntryType) /\ KeySorted(first)
        /\ {first[i].id : i \in DOMAIN first} = 0..(c - 1)
    BY <2>3 DEF Tier, FilesOnce
  <2> HIDE DEF first
  <2>5. \A i \in 1..Len(first) : first[i].id \in 0..(c - 1)
    BY <2>4, EntryPlaces
  <2>6. \A x \in 0..(c - 1) : \E i \in 1..Len(first) : first[i].id = x
    BY <2>4, EntryPlaces
  <2>7. ASSUME NEW i \in 1..Len(first) PROVE first[i].key = job.keys[t][first[i].id + 1]
    <3>1. first[i].id - 0 + 1 \in 1..c /\ first[i].id - 0 + 1 = first[i].id + 1
      BY <1>1, <2>5
    <3> QED
      BY <1>2, <2>1, <3>1
  <2> QED
    BY <2>3, <2>4, <2>5, <2>6, <2>7 DEF Filed
<1>5. Filed(job, t, second, job.static..(job.n - 1))
  <2> DEFINE c == job.static
             w == job.n - job.static
  <2>0. w \in Nat /\ c \in Nat /\ c + w - 1 = job.n - 1 /\ w = job.n - c
    BY <1>1
  <2>1. /\ Tier(second, c..(c + w - 1))
        /\ \A i \in 1..Len(second) : second[i].key = two[second[i].id - c + 1]
    <3>1. two \in [1..w -> Int]
      BY <1>2
    <3> HIDE DEF w, c
    <3>2. /\ Tier(SortTier(two, c), c..(c + w - 1))
          /\ \A i \in 1..Len(SortTier(two, c)) : SortTier(two, c)[i].key = two[SortTier(two, c)[i].id - c + 1]
      BY ONLY <2>0, <3>1, SortTierFacts
    <3> QED
      BY ONLY <3>2 DEF c
  <2>3. Tier(second, c..(job.n - 1))
    BY <2>0, <2>1
  <2>4. /\ second \in Seq(EntryType) /\ KeySorted(second)
        /\ {second[i].id : i \in DOMAIN second} = c..(job.n - 1)
    BY <2>3 DEF Tier, FilesOnce
  <2> HIDE DEF second
  <2>5. \A i \in 1..Len(second) : second[i].id \in c..(job.n - 1)
    BY <2>4, EntryPlaces
  <2>6. \A x \in c..(job.n - 1) : \E i \in 1..Len(second) : second[i].id = x
    BY <2>4, EntryPlaces
  <2>7. ASSUME NEW i \in 1..Len(second) PROVE second[i].key = job.keys[t][second[i].id + 1]
    <3>1. second[i].id - c + 1 \in 1..w /\ c + (second[i].id - c + 1) = second[i].id + 1
      BY <1>1, <2>5
    <3> QED
      BY <1>2, <2>1, <3>1
  <2> QED
    BY <2>3, <2>4, <2>5, <2>6, <2>7 DEF Filed
<1>6. first \in Seq(EntryType) /\ second \in Seq(EntryType)
  BY <1>4, <1>5 DEF Filed
<1> HIDE DEF first, second
<1>7. CASE job.static = job.n
  <2>1. Tiers2(job, t) = <<first>> /\ Len(Tiers2(job, t)) = 1
    BY <1>3, <1>7
  <2>2. 1..1 = {1} /\ Tiers2(job, t)[1] = first /\ Tiers2(job, t) \in [1..1 -> Seq(EntryType)]
    BY <1>6, <2>1
  <2> QED
    BY <1>4, <1>7, <2>1, <2>2 DEF IdsOf
<1>8. CASE job.static # job.n
  <2>1. Tiers2(job, t) = <<first, second>> /\ Len(Tiers2(job, t)) = 2
    BY <1>3, <1>8
  <2>2. 1..2 = {1, 2} /\ Tiers2(job, t)[1] = first /\ Tiers2(job, t)[2] = second
    BY <2>1
  <2>3. Tiers2(job, t) \in [1..2 -> Seq(EntryType)]
    BY <1>6, <2>1
  <2> QED
    BY <1>4, <1>5, <1>8, <2>1, <2>2, <2>3 DEF IdsOf
<1> QED
  BY <1>7, <1>8

\* Every id stands in one tier.
LEMMA IdsCover ==
    ASSUME NEW job, RowJobOK(job), NEW t \in Tables
    PROVE  /\ \A s \in 1..Len(Tiers2(job, t)) : IdsOf(job, s) \subseteq 0..(job.n - 1)
           /\ \A x \in 0..(job.n - 1) : \E s \in 1..Len(Tiers2(job, t)) : x \in IdsOf(job, s)
<1>1. /\ job.n \in Nat /\ job.static \in Nat /\ job.static <= job.n
      /\ Len(Tiers2(job, t)) = (IF job.static = job.n THEN 1 ELSE 2)
  <2>1. Len(Tiers2(job, t)) = (IF job.static = job.n THEN 1 ELSE 2)
    BY Tiers2Facts
  <2> QED
    BY <2>1 DEF RowJobOK
<1>2. \A s \in 1..Len(Tiers2(job, t)) : IdsOf(job, s) \subseteq 0..(job.n - 1)
  BY <1>1 DEF IdsOf
<1>3. ASSUME NEW x \in 0..(job.n - 1) PROVE \E s \in 1..Len(Tiers2(job, t)) : x \in IdsOf(job, s)
  <2>1. CASE x < job.static
    <3>1. 1 \in 1..Len(Tiers2(job, t)) /\ x \in IdsOf(job, 1)
      BY <1>1, <2>1 DEF IdsOf
    <3> QED
      BY <3>1
  <2>2. CASE ~(x < job.static)
    <3>1. job.static # job.n
      BY <1>1, <2>2
    <3>2. 2 \in 1..Len(Tiers2(job, t)) /\ x \in IdsOf(job, 2)
      BY <1>1, <2>2, <3>1 DEF IdsOf
    <3> QED
      BY <3>2
  <2> QED
    BY <2>1, <2>2
<1> QED
  BY <1>2, <1>3

\* One table's chunks hold the pair of every row with every id in its range.
ChunkHas(job, t, chunk, rows, from, width, m) ==
    /\ chunk \in Seq(Nat)
    /\ \A x : x \in Range(chunk) <=>
          \E i \in 1..m : \E y \in InKeys(job, t, from[i]..(from[i] + width - 1)) : x = PairOf(job, rows[i], y)

\* So they do, whether the table is in one tier or two.
LEMMA ChunksFacts ==
    ASSUME NEW job, RowJobOK(job), NEW t \in Tables,
           NEW m \in Nat, NEW rows \in [1..m -> Nat], NEW from \in [1..m -> Int], NEW width \in Nat
    PROVE  ChunkHas(job, t, Chunks(job, t, rows, from, width), rows, from, width, m)
<1> DEFINE tiers == Tiers2(job, t)
           len == Len(tiers)
           parts == [s \in DOMAIN tiers |-> Chunk(job, tiers[s], rows, from, width)]
<1>1. /\ len \in Nat /\ DOMAIN tiers = 1..len
      /\ \A s \in 1..len : Filed(job, t, tiers[s], IdsOf(job, s))
  <2>1. len = (IF job.static = job.n THEN 1 ELSE 2) /\ tiers \in [1..len -> Seq(EntryType)]
    BY Tiers2Facts
  <2>2. \A s \in 1..len : Filed(job, t, tiers[s], IdsOf(job, s))
    BY Tiers2Facts
  <2> QED
    BY <2>1, <2>2
<1>2. /\ \A s \in 1..len : IdsOf(job, s) \subseteq 0..(job.n - 1)
      /\ \A x \in 0..(job.n - 1) : \E s \in 1..len : x \in IdsOf(job, s)
  BY IdsCover
<1>3. Chunks(job, t, rows, from, width) = FlattenSeq(parts)
  BY DEF Chunks
<1> HIDE DEF tiers, len
<1>4. job.n \in Nat
  BY DEF RowJobOK
<1>5. ASSUME NEW s \in 1..len
      PROVE  /\ parts[s] \in Seq(Nat)
             /\ \A x : x \in Range(parts[s]) <=>
                   \E i \in 1..m : \E p \in Hit(tiers[s], from[i], from[i] + width) :
                      x = PairOf(job, rows[i], tiers[s][p].id)
  <2>1. tiers[s] \in Seq(EntryType) /\ KeySorted(tiers[s])
    BY <1>1 DEF Filed
  <2>2. parts[s] = Chunk(job, tiers[s], rows, from, width)
    BY <1>1
  <2> DEFINE tier == tiers[s]
  <2> HIDE DEF tier
  <2>3. tier \in Seq(EntryType) /\ KeySorted(tier)
    BY <2>1 DEF tier
  <2>4. Chunked(job, Chunk(job, tier, rows, from, width), tier, rows, from, width, m)
    BY ONLY <1>4, <2>3, m \in Nat, rows \in [1..m -> Nat], from \in [1..m -> Int], width \in Nat, ChunkFacts
  <2> QED
    BY ONLY <2>2, <2>4 DEF tier, Chunked
<1>6. parts \in [1..len -> Seq(Nat)]
  <2>1. parts = [s \in 1..len |-> parts[s]]
    BY <1>1
  <2> HIDE DEF parts
  <2> QED
    BY <1>5, <2>1
<1> HIDE DEF parts
<1>7. FlattenSeq(parts) \in Seq(Nat)
  <2>1. Laid(FlattenSeq(parts), parts, len, Nat)
    BY <1>1, <1>6, FlatFacts
  <2> QED
    BY <2>1 DEF Laid
<1>8. \A x : x \in Range(FlattenSeq(parts)) <=> \E s \in 1..len : x \in Range(parts[s])
  BY ONLY <1>1, <1>6, FlatRange
<1>9. \A i \in 1..m : from[i] \in Int /\ rows[i] \in Nat
  OBVIOUS
<1>10. ASSUME NEW s \in 1..len, NEW i \in 1..m, NEW p \in Hit(tiers[s], from[i], from[i] + width)
       PROVE  tiers[s][p].id \in InKeys(job, t, from[i]..(from[i] + width - 1))
  <2>1. /\ p \in 1..Len(tiers[s]) /\ from[i] <= tiers[s][p].key /\ tiers[s][p].key < from[i] + width
    BY DEF Hit
  <2>2. /\ tiers[s][p].id \in 0..(job.n - 1)
        /\ tiers[s][p].key = job.keys[t][tiers[s][p].id + 1] /\ tiers[s][p].key \in Int
    <3>1. Filed(job, t, tiers[s], IdsOf(job, s))
      BY <1>1
    <3>2. tiers[s] \in Seq(EntryType)
      BY <3>1 DEF Filed
    <3>3. tiers[s][p].key \in Int
      BY ONLY <2>1, <3>2, EntryPlaces
    <3>4. tiers[s][p].id \in IdsOf(job, s) /\ tiers[s][p].key = job.keys[t][tiers[s][p].id + 1]
      BY ONLY <2>1, <3>1 DEF Filed
    <3>5. IdsOf(job, s) \subseteq 0..(job.n - 1)
      BY <1>2
    <3> QED
      BY ONLY <3>3, <3>4, <3>5
  <2>3. tiers[s][p].key \in from[i]..(from[i] + width - 1)
    <3> DEFINE v == tiers[s][p].key
               lo == from[i]
    <3>1. v \in Int /\ lo \in Int /\ lo <= v /\ v < lo + width
      BY <1>9, <2>1, <2>2
    <3> HIDE DEF v, lo
    <3>2. v \in lo..(lo + width - 1)
      BY ONLY <3>1, width \in Nat
    <3> QED
      BY <3>2 DEF v, lo
  <2> QED
    BY <2>2, <2>3 DEF InKeys
<1>11. ASSUME NEW i \in 1..m, NEW y \in InKeys(job, t, from[i]..(from[i] + width - 1))
       PROVE  \E s \in 1..len : \E p \in Hit(tiers[s], from[i], from[i] + width) : tiers[s][p].id = y
  <2>1. y \in 0..(job.n - 1) /\ job.keys[t][y + 1] \in from[i]..(from[i] + width - 1)
    BY DEF InKeys
  <2>2. PICK s \in 1..len : y \in IdsOf(job, s)
    BY <1>2, <2>1
  <2>3. PICK p \in 1..Len(tiers[s]) : tiers[s][p].id = y
    BY <1>1, <2>2 DEF Filed
  <2>4. tiers[s][p].key = job.keys[t][y + 1]
    BY <1>1, <2>3 DEF Filed
  <2>5. from[i] <= tiers[s][p].key /\ tiers[s][p].key < from[i] + width
    BY <1>9, <2>1, <2>4
  <2>6. p \in Hit(tiers[s], from[i], from[i] + width)
    BY <2>5 DEF Hit
  <2> QED
    BY <2>3, <2>6
<1>12. \A x : x \in Range(FlattenSeq(parts)) <=>
          \E s \in 1..len : \E i \in 1..m : \E p \in Hit(tiers[s], from[i], from[i] + width) :
             x = PairOf(job, rows[i], tiers[s][p].id)
  <2> DEFINE pair(s, i, p) == PairOf(job, rows[i], tiers[s][p].id)
             places(s, i) == Hit(tiers[s], from[i], from[i] + width)
  <2>1. \A s \in 1..len : \A x : x \in Range(parts[s]) <=> \E i \in 1..m : \E p \in places(s, i) : x = pair(s, i, p)
    BY ONLY <1>5
  <2> HIDE DEF pair, places
  <2>2. \A x : x \in Range(FlattenSeq(parts)) <=>
           \E s \in 1..len : \E i \in 1..m : \E p \in places(s, i) : x = pair(s, i, p)
    <3> SUFFICES ASSUME NEW x
                 PROVE  x \in Range(FlattenSeq(parts)) <=>
                           \E s \in 1..len : \E i \in 1..m : \E p \in places(s, i) : x = pair(s, i, p)
      OBVIOUS
    <3>1. \A s \in 1..len : x \in Range(parts[s]) <=> \E i \in 1..m : \E p \in places(s, i) : x = pair(s, i, p)
      BY ONLY <2>1
    <3>2. x \in Range(FlattenSeq(parts)) <=> \E s \in 1..len : x \in Range(parts[s])
      BY ONLY <1>8
    <3> QED
      BY ONLY <3>1, <3>2, Zenon
  <2> QED
    BY ONLY <2>2 DEF pair, places
<1>13. ASSUME NEW x
       PROVE  x \in Range(FlattenSeq(parts)) <=>
                 \E i \in 1..m : \E y \in InKeys(job, t, from[i]..(from[i] + width - 1)) : x = PairOf(job, rows[i], y)
  <2>1. ASSUME x \in Range(FlattenSeq(parts))
        PROVE  \E i \in 1..m : \E y \in InKeys(job, t, from[i]..(from[i] + width - 1)) : x = PairOf(job, rows[i], y)
    BY ONLY <1>10, <1>12, <2>1
  <2>2. ASSUME NEW i \in 1..m, NEW y \in InKeys(job, t, from[i]..(from[i] + width - 1)), x = PairOf(job, rows[i], y)
        PROVE  x \in Range(FlattenSeq(parts))
    <3>1. \E s \in 1..len : \E p \in Hit(tiers[s], from[i], from[i] + width) : tiers[s][p].id = y
      BY <1>11
    <3>2. \E s \in 1..len : \E p \in Hit(tiers[s], from[i], from[i] + width) : x = PairOf(job, rows[i], tiers[s][p].id)
      BY ONLY <2>2, <3>1
    <3> QED
      BY ONLY <1>12, <3>2
  <2> QED
    BY ONLY <2>1, <2>2
<1>14. ChunkHas(job, t, FlattenSeq(parts), rows, from, width, m)
  BY ONLY <1>7, <1>13 DEF ChunkHas
<1> QED
  BY ONLY <1>3, <1>14 DEF parts

\* A query's range holds as many entries, over the tiers, as ids have their key in it.
LEMMA FoundFacts ==
    ASSUME NEW job, RowJobOK(job), NEW t \in Tables, NEW from \in Int, NEW width \in Nat
    PROVE  SumTo([s \in DOMAIN Tiers2(job, t) |-> Found1(Tiers2(job, t)[s], from, width)], Len(Tiers2(job, t)))
              = Cardinality(InKeys(job, t, from..(from + width - 1)))
<1> DEFINE tiers == Tiers2(job, t)
           len == Len(tiers)
           found == [s \in DOMAIN tiers |-> Found1(tiers[s], from, width)]
           part(s) == {tiers[s][p].id : p \in Hit(tiers[s], from, from + width)}
           all == InKeys(job, t, from..(from + width - 1))
<1>1. /\ len = (IF job.static = job.n THEN 1 ELSE 2) /\ DOMAIN tiers = 1..len
      /\ \A s \in 1..len : Filed(job, t, tiers[s], IdsOf(job, s))
  <2>1. len = (IF job.static = job.n THEN 1 ELSE 2) /\ tiers \in [1..len -> Seq(EntryType)]
    BY Tiers2Facts
  <2>2. \A s \in 1..len : Filed(job, t, tiers[s], IdsOf(job, s))
    BY Tiers2Facts
  <2> QED
    BY <2>1, <2>2
<1>2. /\ \A s \in 1..len : IdsOf(job, s) \subseteq 0..(job.n - 1)
      /\ \A x \in 0..(job.n - 1) : \E s \in 1..len : x \in IdsOf(job, s)
  BY IdsCover
<1>3. job.n \in Nat /\ job.static \in Nat /\ job.static <= job.n /\ from + width \in Int /\ from <= from + width
  BY DEF RowJobOK
<1> HIDE DEF tiers, len
<1>4. ASSUME NEW s \in 1..len
      PROVE  /\ found[s] = Cardinality(part(s)) /\ IsFiniteSet(part(s)) /\ Cardinality(part(s)) \in Nat
             /\ \A y : y \in part(s) <=> y \in all /\ y \in IdsOf(job, s)
  <2> DEFINE tier == tiers[s]
  <2>1. Filed(job, t, tier, IdsOf(job, s))
    BY <1>1
  <2>2. /\ found[s] = LowerBound(tier, from + width) - LowerBound(tier, from)
        /\ part(s) = {tier[p].id : p \in Hit(tier, from, from + width)}
    BY <1>1 DEF Found1
  <2> HIDE DEF tier, found
  <2>3. tier \in Seq(EntryType) /\ KeySorted(tier) /\ Tier(tier, IdsOf(job, s))
    BY <2>1 DEF Filed
  <2>4. Len(tier) \in Nat /\ \A p \in 1..Len(tier) : tier[p].key \in Int /\ tier[p].id \in Nat
    BY <2>3, EntryPlaces
  <2> DEFINE lo == LowerBound(tier, from)
             hi == LowerBound(tier, from + width)
             slice == SubSeq(tier, lo + 1, hi)
  <2>5. /\ lo \in 0..Len(tier) /\ hi \in 0..Len(tier)
        /\ \A p \in 1..Len(tier) : (p <= lo <=> tier[p].key < from) /\ (p <= hi <=> tier[p].key < from + width)
    BY <1>3, <2>3, LowerBoundFacts
  <2>6. FilesOnce(slice, part(s))
    <3>1. FilesOnce(slice, {tier[i].id : i \in {j \in 1..Len(tier) : from <= tier[j].key /\ tier[j].key < from + width}})
      BY ONLY <1>3, <2>3, from \in Int, RangeFiles
    <3> QED
      BY <2>2, <3>1 DEF Hit
  <2>7. lo <= hi
    <3> HIDE DEF lo, hi
    <3>1. lo # 0 => lo \in 1..Len(tier) /\ lo <= lo
      BY <2>5
    <3>2. lo # 0 => tier[lo].key < from /\ tier[lo].key \in Int
      BY <2>4, <2>5, <3>1
    <3>3. lo # 0 => tier[lo].key < from + width
      BY <1>3, <3>2
    <3>4. lo # 0 => lo <= hi
      BY <2>5, <3>1, <3>3
    <3> QED
      BY <2>5, <3>4
  <2>8. Len(slice) = hi - lo
    <3> HIDE DEF lo, hi
    <3> QED
      BY <2>3, <2>4, <2>5, <2>7, SubSeqProperties
  <2>9. found[s] = Cardinality(part(s)) /\ found[s] \in Nat
    <3>1. Cardinality(part(s)) = hi - lo /\ found[s] = hi - lo
      BY <2>2, <2>6, <2>8 DEF FilesOnce
    <3> HIDE DEF lo, hi
    <3> QED
      BY <2>5, <2>7, <3>1, <2>4
  <2>10. ASSUME NEW y PROVE y \in part(s) <=> y \in all /\ y \in IdsOf(job, s)
    <3>1. ASSUME y \in part(s) PROVE y \in all /\ y \in IdsOf(job, s)
      <4>1. PICK p \in Hit(tier, from, from + width) : y = tier[p].id
        BY <2>2, <3>1
      <4>2. p \in 1..Len(tier) /\ from <= tier[p].key /\ tier[p].key < from + width
        BY DEF Hit
      <4>3. y \in IdsOf(job, s) /\ tier[p].key = job.keys[t][y + 1]
        BY <2>1, <4>1, <4>2 DEF Filed
      <4>4. job.keys[t][y + 1] \in from..(from + width - 1) /\ y \in 0..(job.n - 1)
        BY <1>2, <1>3, <2>4, <4>2, <4>3
      <4> QED
        BY <4>3, <4>4 DEF InKeys
    <3>2. ASSUME y \in all, y \in IdsOf(job, s) PROVE y \in part(s)
      <4>1. job.keys[t][y + 1] \in from..(from + width - 1)
        BY <3>2 DEF InKeys
      <4>2. PICK p \in 1..Len(tier) : tier[p].id = y
        BY <2>1, <3>2 DEF Filed
      <4>3. tier[p].key = job.keys[t][y + 1]
        BY <2>1, <4>2 DEF Filed
      <4>4. p \in Hit(tier, from, from + width)
        BY <1>3, <4>1, <4>3 DEF Hit
      <4> QED
        BY <2>2, <4>2, <4>4
    <3> QED
      BY <3>1, <3>2
  <2>11. IsFiniteSet(part(s))
    <3>1. IsFiniteSet(0..(job.n - 1))
      BY <1>3, FS_Interval
    <3>2. part(s) \in SUBSET (0..(job.n - 1))
      BY <1>2, <2>10
    <3> HIDE DEF part
    <3> QED
      BY <3>1, <3>2, FS_Subset
  <2> HIDE DEF part
  <2> QED
    BY <2>9, <2>10, <2>11
<1>5. /\ SumTo(found, 0) = 0
      /\ \A s \in 1..len : SumTo(found, s) = SumTo(found, s - 1) + found[s]
  <2>1. len \in Nat /\ \A s \in 1..len : found[s] \in Int
    <3> HIDE DEF found, part
    <3> QED
      BY <1>1, <1>4
  <2> HIDE DEF found
  <2> QED
    BY <2>1, SumAt
<1> HIDE DEF found, part
<1>6. CASE len = 1
  <2>1. 1 \in 1..len /\ 1 - 1 = 0
    BY <1>6
  <2>2. \A y : y \in part(1) <=> y \in all
    <3>1. all \subseteq 0..(job.n - 1)
      BY DEF InKeys
    <3>2. \A y \in 0..(job.n - 1) : y \in IdsOf(job, 1)
      BY <1>2, <1>6
    <3> QED
      BY <1>4, <2>1, <3>1, <3>2
  <2>3. part(1) = all
    BY ONLY <2>2
  <2> QED
    BY <1>4, <1>5, <1>6, <2>1, <2>3 DEF tiers, len, found
<1>7. CASE len = 2
  <2>1. 1 \in 1..len /\ 1 - 1 = 0 /\ 2 \in 1..len /\ 2 - 1 = 1
    BY <1>7
  <2>2. \A y : y \in part(1) \cup part(2) <=> y \in all
    <3>1. all \subseteq 0..(job.n - 1)
      BY DEF InKeys
    <3>2. \A y \in 0..(job.n - 1) : y \in IdsOf(job, 1) \/ y \in IdsOf(job, 2)
      BY <1>2, <1>7
    <3> QED
      BY <1>4, <2>1, <3>1, <3>2
  <2>3. part(1) \cup part(2) = all
    BY ONLY <2>2
  <2>4. part(1) \cap part(2) = {}
    <3>1. IdsOf(job, 1) \cap IdsOf(job, 2) = {}
      BY <1>3 DEF IdsOf
    <3> QED
      BY <1>4, <2>1, <3>1
  <2>5. Cardinality(all) = Cardinality(part(1)) + Cardinality(part(2))
    <3>1. /\ IsFiniteSet(part(1)) /\ IsFiniteSet(part(2))
          /\ Cardinality(part(1)) \in Nat /\ Cardinality(part(2)) \in Nat
      BY <1>4, <2>1
    <3>2. Cardinality(part(1) \cup part(2))
            = Cardinality(part(1)) + Cardinality(part(2)) - Cardinality(part(1) \cap part(2))
      BY ONLY <3>1, FS_Union
    <3>3. Cardinality(part(1) \cap part(2)) = 0
      BY ONLY <2>4, FS_EmptySet
    <3> QED
      <4> DEFINE c1 == Cardinality(part(1))
                 c2 == Cardinality(part(2))
      <4>1. c1 \in Nat /\ c2 \in Nat /\ Cardinality(part(1) \cup part(2)) = c1 + c2 - 0
        BY <3>1, <3>2, <3>3
      <4> HIDE DEF c1, c2
      <4>2. Cardinality(part(1) \cup part(2)) = c1 + c2
        BY ONLY <4>1
      <4> QED
        BY <2>3, <4>2 DEF c1, c2
  <2>6. SumTo(found, 2) = found[1] + found[2]
    <3>1. SumTo(found, 1) = SumTo(found, 0) + found[1] /\ SumTo(found, 2) = SumTo(found, 1) + found[2]
      BY <1>5, <2>1
    <3>2. found[1] \in Nat /\ found[2] \in Nat
      BY <1>4, <2>1
    <3> QED
      BY <1>5, <3>1, <3>2
  <2>7. SumTo(found, len) = Cardinality(all)
    BY <1>4, <1>7, <2>1, <2>5, <2>6
  <2> QED
    BY <2>7 DEF tiers, len, found
<1> QED
  BY <1>1, <1>6, <1>7

\* The pairs of the rows 0 to m - 1 with their candidates, each pair once.
PairType(job) == [row : Nat, id : 0..(job.n - 1)]
Pairs(job, pairs, m, cand) ==
    /\ pairs \in Seq(PairType(job))
    /\ \A i, j \in 1..Len(pairs) : pairs[i] = pairs[j] => i = j
    /\ \A i \in 1..Len(pairs) : pairs[i].row + 1 \in 1..m /\ pairs[i].id \in cand[pairs[i].row + 1]
    /\ \A r \in 1..m : \A y \in cand[r] : \E i \in 1..Len(pairs) : pairs[i] = [row |-> r - 1, id |-> y]

\* A number splits in one way into a row and an id.
PartsOf(job, x, q, s) ==
    /\ q \in Nat /\ s \in 0..(job.n - 1) /\ x = PairOf(job, q, s)
    /\ \A r \in Nat, y \in 0..(job.n - 1) : x = PairOf(job, r, y) => q = r /\ s = y

\* The quotient and the remainder by n are those parts.
LEMMA PairSplits ==
    ASSUME NEW job, job.n \in Nat \ {0}, NEW x \in Nat
    PROVE  PartsOf(job, x, x \div job.n, x % job.n)
<1> DEFINE n == job.n
           q == x \div n
           s == x % n
<1>1. n \in Nat /\ n >= 1 /\ q \in Int /\ s \in 0..(n - 1) /\ x = n * q + s
  OBVIOUS
<1> HIDE DEF n, q, s
<1>2. q \in Nat
  <2> SUFFICES ASSUME q <= -1 PROVE FALSE
    BY <1>1
  <2>1. n * q <= n * (-1)
    BY <1>1
  <2>2. n * (-1) = 0 - n /\ n * q \in Int
    BY <1>1
  <2> QED
    BY <1>1, <2>1, <2>2
<1>3. ASSUME NEW r \in Nat, NEW y \in 0..(n - 1), x = r * n + y PROVE q = r /\ s = y
  <2>1. x = y + n * r /\ x \in Int /\ r \in Int
    <3>1. r * n = n * r /\ n * r \in Int
      BY <1>1
    <3> QED
      BY <1>1, <1>3, <3>1
  <2>2. x \div n = r
    BY ONLY <1>1, <2>1, y \in 0..(n - 1), Quotient
  <2>3. q = r
    BY <2>2 DEF q
  <2>4. n * q = n * r /\ n * r \in Int
    BY <1>1, <2>3
  <2> QED
    BY <1>1, <2>1, <2>3, <2>4
<1>4. q * n = n * q
  BY <1>1, <1>2
<1>5. x = q * n + s
  BY ONLY <1>1, <1>4
<1>6. ASSUME NEW r \in Nat, NEW y \in 0..(job.n - 1), x = PairOf(job, r, y) PROVE q = r /\ s = y
  <2>1. y \in 0..(n - 1) /\ x = r * n + y
    BY ONLY <1>6, y \in 0..(job.n - 1) DEF PairOf, n
  <2> QED
    BY ONLY <1>3, <2>1, r \in Nat
<1>7. x = PairOf(job, q, s) /\ s \in 0..(job.n - 1)
  BY ONLY <1>1, <1>5 DEF PairOf, n
<1>8. PartsOf(job, x, q, s)
  BY ONLY <1>2, <1>6, <1>7 DEF PartsOf
<1> QED
  BY ONLY <1>8 DEF q, s, n

\* Chunks of pairs decoded: every pair that is in one of them, once.
LEMMA DecodedFacts ==
    ASSUME NEW job, job.n \in Nat \ {0}, NEW c \in Nat, NEW chunks \in [1..c -> Seq(Nat)],
           NEW m \in Nat, NEW cand \in [1..m -> SUBSET (0..(job.n - 1))],
           \A x : (\E s \in 1..c : x \in Range(chunks[s]))
                     <=> \E r \in 1..m : \E y \in cand[r] : x = PairOf(job, r - 1, y)
    PROVE  Pairs(job, Decoded(job, chunks), m, cand)
<1> DEFINE flat == FlattenSeq(chunks)
           all == Range(flat)
           size == Cardinality(all)
           pairs == Ascending(all)
           decoded == [i \in DOMAIN pairs |-> [row |-> pairs[i] \div job.n, id |-> pairs[i] % job.n]]
<1>1. flat \in Seq(Nat) /\ \A x : x \in all <=> \E r \in 1..m : \E y \in cand[r] : x = PairOf(job, r - 1, y)
  <2>1. Laid(flat, chunks, c, Nat)
    BY FlatFacts
  <2>2. flat \in Seq(Nat)
    BY <2>1 DEF Laid
  <2>3. \A x : x \in all <=> \E s \in 1..c : x \in Range(chunks[s])
    BY FlatRange
  <2> QED
    BY ONLY <2>2, <2>3,
       \A x : (\E s \in 1..c : x \in Range(chunks[s]))
                     <=> \E r \in 1..m : \E y \in cand[r] : x = PairOf(job, r - 1, y)
<1>2. IsFiniteSet(all) /\ \A x \in all : x \in Nat
  <2> HIDE DEF flat
  <2>1. Len(flat) \in Nat /\ flat \in [1..Len(flat) -> Nat]
    BY <1>1
  <2>2. flat \in Surjection(1..Len(flat), all)
    BY <2>1 DEF Surjection, Range
  <2>3. IsFiniteSet(1..Len(flat))
    BY <2>1, FS_Interval
  <2>4. IsFiniteSet(all)
    BY ONLY <2>2, <2>3, FS_Surjection
  <2>5. \A x \in all : x \in Nat
    BY <2>1 DEF Range
  <2> QED
    BY <2>4, <2>5
<1> HIDE DEF flat, all
<1>3. /\ size \in Nat /\ Lists(pairs, all, size) /\ DOMAIN pairs = 1..size
  <2>1. \A x \in all : x \in Int
    BY <1>2
  <2>2. /\ Cardinality(all) \in Nat /\ Lists(Ordered(all, Below), all, Cardinality(all))
        /\ DOMAIN Ordered(all, Below) = 1..Cardinality(all)
    BY ONLY <1>2, <2>1, AscendingFacts
  <2> QED
    BY ONLY <2>2 DEF Ascending
<1> HIDE DEF size, pairs
<1>4. /\ pairs \in [1..size -> all]
      /\ \A x \in all : \E i \in 1..size : pairs[i] = x
      /\ \A i, j \in 1..size : pairs[i] < pairs[j] <=> i < j
  BY <1>3 DEF Lists
<1>5. Decoded(job, chunks) = decoded
  BY DEF Decoded, pairs, all, flat
<1> DEFINE quo == [i \in 1..size |-> pairs[i] \div job.n]
           rem == [i \in 1..size |-> pairs[i] % job.n]
<1>6. \A i \in 1..size : /\ pairs[i] \in Nat
                         /\ decoded[i] = [row |-> quo[i], id |-> rem[i]]
                         /\ PartsOf(job, pairs[i], quo[i], rem[i])
  <2> SUFFICES ASSUME NEW i \in 1..size
               PROVE  /\ pairs[i] \in Nat
                      /\ decoded[i] = [row |-> quo[i], id |-> rem[i]]
                      /\ PartsOf(job, pairs[i], quo[i], rem[i])
    OBVIOUS
  <2>1. pairs[i] \in Nat
    BY <1>2, <1>4
  <2>2. decoded[i] = [row |-> quo[i], id |-> rem[i]]
    BY <1>3
  <2>3. quo[i] = pairs[i] \div job.n /\ rem[i] = pairs[i] % job.n
    OBVIOUS
  <2> HIDE DEF quo, rem, decoded
  <2>4. PartsOf(job, pairs[i], pairs[i] \div job.n, pairs[i] % job.n)
    BY ONLY <2>1, job.n \in Nat \ {0}, PairSplits
  <2>5. PartsOf(job, pairs[i], quo[i], rem[i])
    BY ONLY <2>3, <2>4, Zenon
  <2> QED
    BY ONLY <2>1, <2>2, <2>5
<1> HIDE DEF quo, rem
<1>61. ASSUME NEW i \in 1..size
       PROVE  /\ pairs[i] \in Nat /\ quo[i] \in Nat /\ rem[i] \in 0..(job.n - 1)
              /\ decoded[i] = [row |-> quo[i], id |-> rem[i]]
              /\ decoded[i].row = quo[i] /\ decoded[i].id = rem[i]
              /\ pairs[i] = PairOf(job, quo[i], rem[i])
  <2> HIDE DEF decoded
  <2>1. /\ pairs[i] \in Nat /\ decoded[i] = [row |-> quo[i], id |-> rem[i]]
        /\ PartsOf(job, pairs[i], quo[i], rem[i])
    BY ONLY <1>6, i \in 1..size
  <2> QED
    BY ONLY <2>1 DEF PartsOf
<1>62. ASSUME NEW i \in 1..size, NEW r \in Nat, NEW y \in 0..(job.n - 1), pairs[i] = PairOf(job, r, y)
       PROVE  quo[i] = r /\ rem[i] = y
  <2> HIDE DEF decoded
  <2>1. PartsOf(job, pairs[i], quo[i], rem[i])
    BY ONLY <1>6, i \in 1..size
  <2> QED
    BY ONLY <1>62, <2>1, r \in Nat, y \in 0..(job.n - 1) DEF PartsOf
<1>7. decoded \in Seq(PairType(job)) /\ Len(decoded) = size
  <2>1. \A i \in 1..size : decoded[i] \in PairType(job)
    <3> HIDE DEF decoded
    <3> QED
      <4> SUFFICES ASSUME NEW i \in 1..size PROVE decoded[i] \in PairType(job)
        OBVIOUS
      <4>1. decoded[i] = [row |-> quo[i], id |-> rem[i]] /\ quo[i] \in Nat /\ rem[i] \in 0..(job.n - 1)
        BY ONLY <1>61, i \in 1..size
      <4> QED
        BY ONLY <4>1 DEF PairType
  <2>2. decoded = [i \in 1..size |-> decoded[i]]
    BY <1>3
  <2> HIDE DEF decoded
  <2>3. decoded \in [1..size -> PairType(job)]
    BY ONLY <2>1, <2>2
  <2> QED
    BY ONLY <1>3, <2>3
<1> HIDE DEF decoded
<1>8. ASSUME NEW i \in 1..size
      PROVE  decoded[i].row + 1 \in 1..m /\ decoded[i].id \in cand[decoded[i].row + 1]
  <2>1. PICK r \in 1..m : \E y \in cand[r] : pairs[i] = PairOf(job, r - 1, y)
    BY <1>1, <1>4
  <2>2. PICK y \in cand[r] : pairs[i] = PairOf(job, r - 1, y)
    BY <2>1
  <2>3. r - 1 \in Nat /\ y \in 0..(job.n - 1) /\ r - 1 + 1 = r
    OBVIOUS
  <2>4. quo[i] = r - 1 /\ rem[i] = y
    BY ONLY <1>62, <2>2, <2>3, i \in 1..size
  <2>5. decoded[i].row = r - 1 /\ decoded[i].id = y
    BY ONLY <1>61, <2>4, i \in 1..size
  <2> QED
    BY ONLY <2>3, <2>5, r \in 1..m, y \in cand[r]
<1>9. ASSUME NEW r \in 1..m, NEW y \in cand[r]
      PROVE  \E i \in 1..size : decoded[i] = [row |-> r - 1, id |-> y]
  <2>1. PairOf(job, r - 1, y) \in all
    BY <1>1
  <2>2. PICK i \in 1..size : pairs[i] = PairOf(job, r - 1, y)
    BY <1>4, <2>1
  <2>3. r - 1 \in Nat /\ y \in 0..(job.n - 1)
    OBVIOUS
  <2>4. quo[i] = r - 1 /\ rem[i] = y
    BY ONLY <1>62, <2>2, <2>3, i \in 1..size
  <2> QED
    BY ONLY <1>61, <2>4, i \in 1..size
<1>10. ASSUME NEW i \in 1..size, NEW j \in 1..size, decoded[i] = decoded[j] PROVE i = j
  <2>1. quo[i] = quo[j] /\ rem[i] = rem[j]
    <3>1. decoded[i].row = decoded[j].row /\ decoded[i].id = decoded[j].id
      BY <1>10
    <3>2. decoded[i].row = quo[i] /\ decoded[i].id = rem[i] /\ decoded[j].row = quo[j] /\ decoded[j].id = rem[j]
      BY ONLY <1>61, i \in 1..size, j \in 1..size
    <3> QED
      BY ONLY <3>1, <3>2
  <2>2. pairs[i] = pairs[j] /\ pairs[i] \in Nat
    <3>1. pairs[i] = PairOf(job, quo[i], rem[i]) /\ pairs[j] = PairOf(job, quo[j], rem[j]) /\ pairs[i] \in Nat
      BY ONLY <1>61, i \in 1..size, j \in 1..size
    <3> QED
      BY ONLY <2>1, <3>1
  <2>3. ~(i < j) /\ ~(j < i)
    BY ONLY <1>4, <2>2
  <2> QED
    BY <1>3, <2>3
<1> QED
  BY ONLY <1>5, <1>7, <1>8, <1>9, <1>10 DEF Pairs

-----------------------------------------------------------------------------
\* The keys a block of queries looks up in table t, flat, and the row of each.
FlatKeys(rows, from, keys, m, w) ==
    /\ rows \in [1..w -> Nat] /\ from \in [1..w -> Int]
    /\ \A i \in 1..w : rows[i] + 1 \in 1..m /\ from[i] \in Range(keys[rows[i] + 1])
    /\ \A r \in 1..m : \A v \in Range(keys[r]) : \E i \in 1..w : rows[i] = r - 1 /\ from[i] = v

\* np.repeat names the row of every key looked up.
LEMMA LookedUp ==
    ASSUME NEW m \in Nat, NEW keys \in [1..m -> Seq(Int)],
           NEW rows, rows = Repeated([r \in DOMAIN keys |-> r - 1], [r \in DOMAIN keys |-> Len(keys[r])]),
           NEW from, from = FlattenSeq(keys)
    PROVE  \E w \in Nat : FlatKeys(rows, from, keys, m, w)
<1> DEFINE places == [r \in DOMAIN keys |-> r - 1]
           counts == [r \in DOMAIN keys |-> Len(keys[r])]
           w == SumTo(counts, m)
<1>1. DOMAIN keys = 1..m /\ \A r \in 1..m : keys[r] \in Seq(Int) /\ Len(keys[r]) \in Nat /\ DOMAIN keys[r] = 1..Len(keys[r])
  OBVIOUS
<1>2. /\ places \in [1..m -> Nat] /\ \A r \in 1..m : places[r] = r - 1
      /\ counts \in [1..m -> Nat] /\ \A r \in 1..m : counts[r] = Len(keys[r])
      /\ Lens(keys) = counts
  <2>1. \A r \in 1..m : r - 1 \in Nat
    OBVIOUS
  <2> QED
    BY <1>1, <2>1 DEF Lens
<1>3. rows = Repeated(places, counts)
  OBVIOUS
<1> HIDE DEF places, counts
<1>4. /\ rows \in Seq(Nat) /\ Spread(rows, counts, m)
      /\ \A i \in 1..m : \A j \in 1..counts[i] : rows[SumTo(counts, i - 1) + j] = places[i]
  <2>1. places \in [1..m -> Nat] /\ counts \in [1..m -> Nat]
    BY <1>2
  <2>2. /\ Repeated(places, counts) \in Seq(Nat)
        /\ Spread(Repeated(places, counts), counts, m)
        /\ \A i \in 1..m : \A j \in 1..counts[i] : Repeated(places, counts)[SumTo(counts, i - 1) + j] = places[i]
    BY ONLY <2>1, m \in Nat, RepeatedFacts
  <2> QED
    BY ONLY <1>3, <2>2
<1>5. Laid(from, keys, m, Int)
  BY FlatFacts
<1>6. Len(from) = w /\ Len(rows) = w /\ w \in Nat /\ from \in Seq(Int)
  <2>1. Len(from) = w /\ Len(rows) = w /\ from \in Seq(Int)
    BY <1>2, <1>4, <1>5 DEF Laid, Spread
  <2> HIDE DEF w
  <2> QED
    BY <2>1
<1> HIDE DEF w
<1>7. rows \in [1..w -> Nat] /\ from \in [1..w -> Int]
  BY ONLY <1>4, <1>6
<1>8. ASSUME NEW r \in 1..m, NEW j \in 1..Len(keys[r])
      PROVE  /\ SumTo(counts, r - 1) + j \in 1..w
             /\ rows[SumTo(counts, r - 1) + j] = r - 1 /\ from[SumTo(counts, r - 1) + j] = keys[r][j]
  <2>1. Begin(keys, r) = SumTo(counts, r - 1)
    BY <1>2 DEF Begin
  <2>2. j \in 1..counts[r] /\ places[r] = r - 1
    BY <1>2
  <2> QED
    BY <1>4, <1>5, <1>6, <2>1, <2>2 DEF Laid
<1>9. ASSUME NEW i \in 1..w PROVE rows[i] + 1 \in 1..m /\ from[i] \in Range(keys[rows[i] + 1])
  <2>1. PICK r \in 1..m : \E j \in 1..counts[r] : i = SumTo(counts, r - 1) + j
    BY <1>4, <1>6 DEF Spread
  <2>2. PICK j \in 1..Len(keys[r]) : i = SumTo(counts, r - 1) + j
    BY <1>2, <2>1
  <2>3. rows[i] = r - 1 /\ from[i] = keys[r][j]
    BY ONLY <1>8, <2>2, r \in 1..m
  <2>5. rows[i] + 1 = r
    BY ONLY <2>3, r \in 1..m, m \in Nat
  <2>4. keys[r][j] \in Range(keys[r])
    BY <1>1 DEF Range
  <2> QED
    BY ONLY <2>3, <2>4, <2>5, r \in 1..m
<1>10. ASSUME NEW r \in 1..m, NEW v \in Range(keys[r])
       PROVE  \E i \in 1..w : rows[i] = r - 1 /\ from[i] = v
  <2>1. PICK j \in 1..Len(keys[r]) : v = keys[r][j]
    BY <1>1 DEF Range
  <2> QED
    BY <1>8, <2>1
<1> QED
  BY <1>6, <1>7, <1>9, <1>10 DEF FlatKeys

\* _gather finds, for every query of a block, the ids filed under the keys it looks up.
LEMMA GatherFacts ==
    ASSUME NEW job, RowJobOK(job), NEW m \in Nat, NEW queries \in [1..m -> DOMAIN job.own],
           NEW cand, cand = [r \in 1..m |-> Probed1(job, queries[r])]
    PROVE  Pairs(job, GatherPairs(job, queries), m, cand)
<1> DEFINE keys(t) == [r \in DOMAIN queries |-> job.probed[queries[r]][t]]
           rows(t) == Repeated([r \in DOMAIN queries |-> r - 1], [r \in DOMAIN queries |-> Len(keys(t)[r])])
           from(t) == FlattenSeq(keys(t))
           chunks == [t \in Tables |-> Chunks(job, t, rows(t), from(t), 1)]
<1>1. job.n \in Nat \ {0} /\ DOMAIN queries = 1..m
  BY DEF RowJobOK
<1>2. GatherPairs(job, queries) = Decoded(job, chunks)
  BY DEF GatherPairs
<1>3. ASSUME NEW t \in Tables
      PROVE  /\ keys(t) \in [1..m -> Seq(Int)] /\ DOMAIN keys(t) = 1..m
             /\ \A r \in 1..m : keys(t)[r] = job.probed[queries[r]][t]
  <2>1. \A r \in 1..m : job.probed[queries[r]][t] \in Seq(Int)
    BY DEF RowJobOK
  <2>2. keys(t) = [r \in 1..m |-> job.probed[queries[r]][t]]
    BY <1>1
  <2> HIDE DEF keys
  <2> QED
    BY ONLY <2>1, <2>2
<1>4. ASSUME NEW t \in Tables
      PROVE  \E w \in Nat : FlatKeys(rows(t), from(t), keys(t), m, w)
  <2>1. keys(t) \in [1..m -> Seq(Int)] /\ DOMAIN keys(t) = DOMAIN queries
    BY <1>1, <1>3
  <2>2. rows(t) = Repeated([r \in DOMAIN keys(t) |-> r - 1], [r \in DOMAIN keys(t) |-> Len(keys(t)[r])])
    BY <2>1
  <2>3. from(t) = FlattenSeq(keys(t))
    OBVIOUS
  <2> DEFINE kk == keys(t)
             rr == rows(t)
             ff == from(t)
  <2>4. /\ kk \in [1..m -> Seq(Int)] /\ ff = FlattenSeq(kk)
        /\ rr = Repeated([r \in DOMAIN kk |-> r - 1], [r \in DOMAIN kk |-> Len(kk[r])])
    BY <2>1, <2>2, <2>3
  <2> HIDE DEF kk, rr, ff
  <2>5. \E w \in Nat : FlatKeys(rr, ff, kk, m, w)
    BY ONLY <2>4, m \in Nat, LookedUp
  <2> QED
    BY ONLY <2>5 DEF kk, rr, ff
<1> HIDE DEF rows, from
<1>5. ASSUME NEW t \in Tables
      PROVE  /\ chunks[t] \in Seq(Nat)
             /\ \A x : x \in Range(chunks[t]) <=>
                   \E r \in 1..m : \E y \in InKeys(job, t, Range(job.probed[queries[r]][t])) : x = PairOf(job, r - 1, y)
  <2>1. PICK w \in Nat : FlatKeys(rows(t), from(t), keys(t), m, w)
    BY <1>4
  <2> DEFINE rr == rows(t)
             ff == from(t)
             chunk == chunks[t]
  <2>2. /\ rr \in [1..w -> Nat] /\ ff \in [1..w -> Int]
        /\ \A i \in 1..w : rr[i] + 1 \in 1..m /\ ff[i] \in Range(job.probed[queries[rr[i] + 1]][t])
        /\ \A r \in 1..m : \A v \in Range(job.probed[queries[r]][t]) : \E i \in 1..w : rr[i] = r - 1 /\ ff[i] = v
    BY <1>3, <2>1 DEF FlatKeys
  <2>3. chunk = Chunks(job, t, rr, ff, 1)
    OBVIOUS
  <2> HIDE DEF rr, ff, chunk
  <2>4. /\ chunk \in Seq(Nat)
        /\ \A x : x \in Range(chunk) <=> \E i \in 1..w : \E y \in InKeys(job, t, ff[i]..(ff[i] + 1 - 1)) : x = PairOf(job, rr[i], y)
    <3> DEFINE one == 1
    <3>1. rr \in [1..w -> Nat] /\ ff \in [1..w -> Int] /\ one \in Nat
      BY <2>2
    <3>2. chunk = Chunks(job, t, rr, ff, one)
      BY <2>3
    <3> HIDE DEF one
    <3>3. ChunkHas(job, t, Chunks(job, t, rr, ff, one), rr, ff, one, w)
      BY ONLY <3>1, RowJobOK(job), t \in Tables, w \in Nat, ChunksFacts
    <3> QED
      BY ONLY <3>2, <3>3 DEF one, ChunkHas
  <2>5. \A i \in 1..w : \A y : y \in InKeys(job, t, ff[i]..(ff[i] + 1 - 1))
                                  <=> y \in 0..(job.n - 1) /\ job.keys[t][y + 1] = ff[i]
    <3> SUFFICES ASSUME NEW i \in 1..w, NEW y
                 PROVE  y \in InKeys(job, t, ff[i]..(ff[i] + 1 - 1)) <=> y \in 0..(job.n - 1) /\ job.keys[t][y + 1] = ff[i]
      OBVIOUS
    <3>1. ff[i] \in Int
      BY <2>2
    <3>2. ff[i]..(ff[i] + 1 - 1) = {ff[i]}
      BY ONLY <3>1
    <3> QED
      BY ONLY <3>2 DEF InKeys
  <2>6. ASSUME NEW x, x \in Range(chunk)
        PROVE  \E r \in 1..m : \E y \in InKeys(job, t, Range(job.probed[queries[r]][t])) : x = PairOf(job, r - 1, y)
    <3>1. PICK i \in 1..w : \E y \in InKeys(job, t, ff[i]..(ff[i] + 1 - 1)) : x = PairOf(job, rr[i], y)
      BY <2>4, <2>6
    <3>2. PICK y \in InKeys(job, t, ff[i]..(ff[i] + 1 - 1)) : x = PairOf(job, rr[i], y)
      BY <3>1
    <3> DEFINE r == rr[i] + 1
    <3>3. r \in 1..m /\ ff[i] \in Range(job.probed[queries[r]][t]) /\ rr[i] \in Nat
      BY <2>2
    <3>4. rr[i] = r - 1
      BY <3>3
    <3>5. y \in 0..(job.n - 1) /\ job.keys[t][y + 1] = ff[i]
      BY <2>5, <3>2
    <3> HIDE DEF r
    <3>6. y \in InKeys(job, t, Range(job.probed[queries[r]][t]))
      BY ONLY <3>3, <3>5 DEF InKeys
    <3>7. x = PairOf(job, r - 1, y)
      BY ONLY <3>2, <3>4
    <3> QED
      BY ONLY <3>3, <3>6, <3>7
  <2>7. ASSUME NEW r \in 1..m, NEW y \in InKeys(job, t, Range(job.probed[queries[r]][t])), NEW x, x = PairOf(job, r - 1, y)
        PROVE  x \in Range(chunk)
    <3>1. y \in 0..(job.n - 1) /\ job.keys[t][y + 1] \in Range(job.probed[queries[r]][t])
      BY DEF InKeys
    <3>2. PICK i \in 1..w : rr[i] = r - 1 /\ ff[i] = job.keys[t][y + 1]
      BY <2>2, <3>1
    <3>3. y \in InKeys(job, t, ff[i]..(ff[i] + 1 - 1))
      BY <2>5, <3>1, <3>2
    <3>4. x = PairOf(job, rr[i], y)
      BY <2>7, <3>2
    <3> QED
      BY ONLY <2>4, <3>3, <3>4
  <2>8. chunk \in Seq(Nat) /\ \A x : x \in Range(chunk) <=>
           \E r \in 1..m : \E y \in InKeys(job, t, Range(job.probed[queries[r]][t])) : x = PairOf(job, r - 1, y)
    BY ONLY <2>4, <2>6, <2>7
  <2> QED
    BY <2>8 DEF chunk
<1>6. /\ chunks \in [1..L -> Seq(Nat)] /\ L \in Nat
  <2>1. chunks = [t \in 1..L |-> chunks[t]]
    BY DEF Tables
  <2> HIDE DEF chunks
  <2> QED
    BY <1>5, <2>1, HashTypes DEF Tables
<1> HIDE DEF chunks
<1>7. /\ cand \in [1..m -> SUBSET (0..(job.n - 1))]
      /\ \A r \in 1..m : \A y : y \in cand[r] <=> \E t \in Tables : y \in InKeys(job, t, Range(job.probed[queries[r]][t]))
  <2>1. \A r \in 1..m : \A y : y \in Probed1(job, queries[r])
           <=> \E t \in Tables : y \in InKeys(job, t, Range(job.probed[queries[r]][t]))
    BY DEF Probed1
  <2>2. \A r \in 1..m : Probed1(job, queries[r]) \subseteq 0..(job.n - 1)
    BY ONLY <2>1 DEF InKeys
  <2> QED
    BY <2>1, <2>2
<1>8. ASSUME NEW x
      PROVE  (\E t \in 1..L : x \in Range(chunks[t])) <=> \E r \in 1..m : \E y \in cand[r] : x = PairOf(job, r - 1, y)
  <2>1. ASSUME NEW t \in 1..L, x \in Range(chunks[t])
        PROVE  \E r \in 1..m : \E y \in cand[r] : x = PairOf(job, r - 1, y)
    <3>1. t \in Tables
      BY DEF Tables
    <3>2. PICK r \in 1..m : \E y \in InKeys(job, t, Range(job.probed[queries[r]][t])) : x = PairOf(job, r - 1, y)
      <4>1. \A z : z \in Range(chunks[t]) <=>
               \E r \in 1..m : \E y \in InKeys(job, t, Range(job.probed[queries[r]][t])) : z = PairOf(job, r - 1, y)
        BY ONLY <1>5, <3>1
      <4> QED
        BY ONLY <2>1, <4>1
    <3> QED
      BY ONLY <1>7, <3>1, <3>2, r \in 1..m
  <2>2. ASSUME NEW r \in 1..m, NEW y \in cand[r], x = PairOf(job, r - 1, y)
        PROVE  \E t \in 1..L : x \in Range(chunks[t])
    <3>1. PICK t \in Tables : y \in InKeys(job, t, Range(job.probed[queries[r]][t]))
      BY ONLY <1>7, y \in cand[r], r \in 1..m
    <3>2. x \in Range(chunks[t])
      BY ONLY <1>5, <2>2, <3>1, r \in 1..m
    <3> QED
      BY ONLY <3>2 DEF Tables
  <2> QED
    BY ONLY <2>1, <2>2
<1>9. Pairs(job, Decoded(job, chunks), m, cand)
  BY ONLY <1>1, <1>6, <1>7, <1>8, m \in Nat, DecodedFacts
<1> QED
  BY ONLY <1>2, <1>9 DEF chunks

\* The elements of a set, each listed once, in the order of a relation.
Listing(list, size, X, R) ==
    /\ size \in Nat /\ list \in [1..size -> X]
    /\ \A x \in X : \E i \in 1..size : list[i] = x
    /\ \A i, j \in 1..size : <<list[i], list[j]>> \in R <=> i < j

\* There is only one such list.
LEMMA OneListing ==
    ASSUME NEW X, NEW R, NEW u, NEW n, Listing(u, n, X, R), NEW v, NEW m, Listing(v, m, X, R)
    PROVE  n = m /\ \A i \in 1..n : u[i] = v[i]
<1>1. /\ n \in Nat /\ u \in [1..n -> X]
      /\ \A x \in X : \E i \in 1..n : u[i] = x
      /\ \A i, j \in 1..n : <<u[i], u[j]>> \in R <=> i < j
  BY DEF Listing
<1>2. /\ m \in Nat /\ v \in [1..m -> X]
      /\ \A x \in X : \E i \in 1..m : v[i] = x
      /\ \A i, j \in 1..m : <<v[i], v[j]>> \in R <=> i < j
  BY DEF Listing
<1>3. Cardinality(X) = n
  <2>1. \A i, j \in 1..n : u[i] = u[j] => i = j
    <3> SUFFICES ASSUME NEW i \in 1..n, NEW j \in 1..n, u[i] = u[j] PROVE i = j
      OBVIOUS
    <3>1. (i < j <=> j < j) /\ (j < i <=> j < j)
      BY <1>1
    <3> QED
      BY <1>1, <3>1
  <2>2. u \in Bijection(1..n, X)
    BY <1>1, <2>1 DEF Bijection, Injection, Surjection, IsInjective
  <2> QED
    BY <1>1, <2>2, FS_CountingElements DEF ExistsBijection
<1>4. Cardinality(X) = m
  <2>1. \A i, j \in 1..m : v[i] = v[j] => i = j
    <3> SUFFICES ASSUME NEW i \in 1..m, NEW j \in 1..m, v[i] = v[j] PROVE i = j
      OBVIOUS
    <3>1. (i < j <=> j < j) /\ (j < i <=> j < j)
      BY <1>2
    <3> QED
      BY <1>2, <3>1
  <2>2. v \in Bijection(1..m, X)
    BY <1>2, <2>1 DEF Bijection, Injection, Surjection, IsInjective
  <2> QED
    BY <1>2, <2>2, FS_CountingElements DEF ExistsBijection
<1>5. n = m
  BY <1>3, <1>4
<1> DEFINE g == [i \in 1..n |-> CHOOSE j \in 1..n : v[j] = u[i]]
<1>6. \A i \in 1..n : g[i] \in 1..n /\ v[g[i]] = u[i]
  <2> SUFFICES ASSUME NEW i \in 1..n PROVE g[i] \in 1..n /\ v[g[i]] = u[i]
    OBVIOUS
  <2>1. u[i] \in X
    BY <1>1
  <2>2. \E j \in 1..n : v[j] = u[i]
    BY <1>2, <1>5, <2>1
  <2> QED
    BY <2>2
<1>7. Rises(g, n)
  <2>1. g = [i \in 1..n |-> g[i]]
    OBVIOUS
  <2> HIDE DEF g
  <2>2. g \in [1..n -> 1..n]
    BY <1>6, <2>1
  <2>3. ASSUME NEW i \in 1..n, NEW j \in 1..n, i < j PROVE g[i] < g[j]
    <3>1. <<u[i], u[j]>> \in R
      BY <1>1, <2>3
    <3>2. <<v[g[i]], v[g[j]]>> \in R /\ g[i] \in 1..m /\ g[j] \in 1..m
      BY <1>5, <1>6, <3>1
    <3> QED
      BY <1>2, <3>2
  <2> QED
    BY <1>1, <2>2, <2>3 DEF Rises
<1>8. \A i \in 1..n : g[i] = i
  <2> HIDE DEF g
  <2> QED
    BY <1>7, RisingIsIdentity
<1> HIDE DEF g
<1> QED
  BY <1>5, <1>6, <1>8

-----------------------------------------------------------------------------
\* Masked pairs: the rows keep what stays.
LEMMA PickedPairs ==
    ASSUME NEW job, NEW pairs, NEW m \in Nat, NEW cand, Pairs(job, pairs, m, cand),
           NEW left, \A r \in 1..m : left[r] \subseteq cand[r],
           NEW places, places = {i \in 1..Len(pairs) : pairs[i].id \in left[pairs[i].row + 1]}
    PROVE  Pairs(job, Picked(pairs, places), m, left)
<1> DEFINE some == Picked(pairs, places)
<1>1. /\ pairs \in Seq(PairType(job)) /\ Len(pairs) \in Nat
      /\ \A i, j \in 1..Len(pairs) : pairs[i] = pairs[j] => i = j
      /\ \A i \in 1..Len(pairs) : pairs[i].row + 1 \in 1..m
      /\ \A r \in 1..m : \A y \in cand[r] : \E i \in 1..Len(pairs) : pairs[i] = [row |-> r - 1, id |-> y]
  BY DEF Pairs
<1>2. places \in SUBSET (1..Len(pairs))
  OBVIOUS
<1>3. /\ Cardinality(places) \in Nat /\ some \in Seq(PairType(job)) /\ Len(some) = Cardinality(places)
      /\ \E place : /\ Lists(place, places, Cardinality(places))
                    /\ \A i \in 1..Cardinality(places) : some[i] = pairs[place[i]]
  BY ONLY <1>1, <1>2, PickedFacts
<1> HIDE DEF some
<1> DEFINE size == Cardinality(places)
<1>4. PICK place : /\ Lists(place, places, size)
                   /\ \A i \in 1..size : some[i] = pairs[place[i]]
  BY <1>3
<1>5. size \in Nat /\ Len(some) = size
  BY <1>3
<1> HIDE DEF size
<1>6. /\ place \in [1..size -> places]
      /\ \A p \in places : \E i \in 1..size : place[i] = p
      /\ \A i, j \in 1..size : place[i] < place[j] <=> i < j
  BY <1>4 DEF Lists
<1>7. \A i \in 1..size : place[i] \in 1..Len(pairs) /\ some[i] = pairs[place[i]]
                         /\ some[i].row + 1 \in 1..m /\ some[i].id \in left[some[i].row + 1]
  BY <1>1, <1>4, <1>6
<1>8. ASSUME NEW i \in 1..size, NEW j \in 1..size, some[i] = some[j] PROVE i = j
  <2>1. place[i] = place[j]
    BY <1>1, <1>7, <1>8
  <2>2. ~(i < j) /\ ~(j < i)
    BY <1>6, <1>7, <2>1
  <2> QED
    BY <1>5, <2>2
<1>9. ASSUME NEW r \in 1..m, NEW y \in left[r] PROVE \E i \in 1..size : some[i] = [row |-> r - 1, id |-> y]
  <2>1. y \in cand[r]
    OBVIOUS
  <2>2. PICK p \in 1..Len(pairs) : pairs[p] = [row |-> r - 1, id |-> y]
    BY <1>1, <2>1
  <2>3. r - 1 + 1 = r
    OBVIOUS
  <2>4. p \in places
    BY <2>2, <2>3
  <2> QED
    BY <1>6, <1>7, <2>2, <2>4
<1>10. Pairs(job, some, m, left)
  BY ONLY <1>3, <1>5, <1>7, <1>8, <1>9 DEF Pairs
<1> QED
  BY <1>10 DEF some

-----------------------------------------------------------------------------
\* A ranked list, in one piece.
RankedAs(s, g, ids) ==
    /\ Cardinality(ids) \in Nat
    /\ s \in [1..Cardinality(ids) -> ids]
    /\ \A i \in ids : \E n \in 1..Cardinality(ids) : s[n] = i
    /\ \A m, n \in 1..Cardinality(ids) : Closer(g, s[m], s[n]) <=> m < n

\* A list by rank is one.
LEMMA RanksList ==
    ASSUME NEW g, NEW ids, Rankable(g, ids),
           NEW T, NEW s \in [1..Cardinality(ids) -> T],
           ListsByRank(s, g, ids)
    PROVE  RankedAs(s, g, ids)
<1>0. Rankable(g, ids) /\ ListsByRank(s, g, ids) /\ s \in [1..Cardinality(ids) -> T]
  OBVIOUS
<1>1. Cardinality(ids) \in Nat
  BY ONLY <1>0, RankedFacts
<1>2. s \in [1..Cardinality(ids) -> ids]
  BY ONLY <1>0, RankedFacts
<1>3. \A i \in ids : \E n \in 1..Cardinality(ids) : s[n] = i
  BY ONLY <1>0, RankedFacts
<1>4. \A m, n \in 1..Cardinality(ids) : Closer(g, s[m], s[n]) <=> m < n
  BY ONLY <1>0, RankedFacts
<1> QED
  BY <1>1, <1>2, <1>3, <1>4 DEF RankedAs

\* One query's list.
NearRel(job, q) == {x \in (0..(job.n - 1)) \X (0..(job.n - 1)) : NearerTo(job, q, x[1], x[2])}
Rivals(job, q, ids) == ids \ {Excluded1(job, q)}

\* It holds the candidates but the excluded one, nearest first, ties by id.
LEMMA NearestFacts ==
    ASSUME NEW job, RowJobOK(job), NEW q \in DOMAIN job.own, NEW ids \in SUBSET (0..(job.n - 1))
    PROVE  /\ Listing(Nearest1(job, q, ids), Len(Nearest1(job, q, ids)), Rivals(job, q, ids), NearRel(job, q))
           /\ Nearest1(job, q, ids) \in Seq(0..(job.n - 1))
<1> DEFINE all == Rivals(job, q, ids)
           g == [i \in 0..(job.n - 1) |-> job.gap[q][i + 1]]
           near == Nearest1(job, q, ids)
           size == Cardinality(all)
<1>1. job.n \in Nat /\ all \in SUBSET (0..(job.n - 1))
  BY DEF RowJobOK, Rivals
<1>2. \A i \in 0..(job.n - 1) : g[i] = job.gap[q][i + 1] /\ g[i] \in Int
  <2>1. job.gap[q] \in [1..job.n -> Int]
    BY DEF RowJobOK
  <2>2. \A i \in 0..(job.n - 1) : i + 1 \in 1..job.n
    BY <1>1
  <2> QED
    BY <2>1, <2>2
<1>3. \A i, j \in 0..(job.n - 1) : NearerTo(job, q, i, j) <=> Closer(g, i, j)
  BY <1>2 DEF NearerTo, Closer
<1>4. near = [c \in 1..size |-> CHOOSE i \in all : Cardinality({j \in all : NearerTo(job, q, j, i)}) = c - 1]
  BY DEF Nearest1, Rivals
<1> HIDE DEF near, all, g
<1>5. Rankable(g, all)
  <2>1. IsFiniteSet(0..(job.n - 1))
    BY <1>1, FS_Interval
  <2>2. IsFiniteSet(all)
    BY <1>1, <2>1, FS_Subset
  <2> QED
    BY <1>1, <1>2, <2>2 DEF Rankable
<1>6. \A i \in all : {j \in all : NearerTo(job, q, j, i)} = Passed(g, all, i)
  <2> SUFFICES ASSUME NEW i \in all PROVE {j \in all : NearerTo(job, q, j, i)} = Passed(g, all, i)
    OBVIOUS
  <2>1. \A j \in all : NearerTo(job, q, j, i) <=> Closer(g, j, i)
    BY <1>1, <1>3
  <2> QED
    BY <2>1 DEF Passed
<1>7. \A c \in 1..size : near[c] = CHOOSE i \in all : Cardinality(Passed(g, all, i)) = c - 1
  <2> SUFFICES ASSUME NEW c \in 1..size PROVE near[c] = CHOOSE i \in all : Cardinality(Passed(g, all, i)) = c - 1
    OBVIOUS
  <2>1. \A i \in all : Cardinality({j \in all : NearerTo(job, q, j, i)}) = c - 1 <=> Cardinality(Passed(g, all, i)) = c - 1
    BY <1>6
  <2>2. near[c] = CHOOSE i \in all : Cardinality({j \in all : NearerTo(job, q, j, i)}) = c - 1
    BY <1>4
  <2>3. (CHOOSE i \in all : Cardinality({j \in all : NearerTo(job, q, j, i)}) = c - 1)
          = (CHOOSE i \in all : Cardinality(Passed(g, all, i)) = c - 1)
    BY ONLY <2>1, Zenon
  <2> QED
    BY ONLY <2>2, <2>3
<1>8. ListsByRank(near, g, all)
  BY <1>7 DEF ListsByRank, size
<1>9. near \in [1..size -> Range(near)]
  BY <1>4 DEF Range
<1>10. /\ size \in Nat
       /\ near \in [1..size -> all]
       /\ \A i \in all : \E c \in 1..size : near[c] = i
       /\ \A a1, c \in 1..size : Closer(g, near[a1], near[c]) <=> a1 < c
  <2> DEFINE X == Range(near)
  <2>1. near \in [1..Cardinality(all) -> X]
    BY <1>9 DEF size
  <2> HIDE DEF X
  <2>2. RankedAs(near, g, all)
    BY ONLY <1>5, <1>8, <2>1, RanksList
  <2> QED
    BY ONLY <2>2 DEF size, RankedAs
<1> HIDE DEF size
<1>11. Len(near) = size /\ near \in Seq(0..(job.n - 1))
  <2>1. Len(near) = size /\ near \in Seq(0..(job.n - 1))
    <3>1. \A c \in 1..size : near[c] \in 0..(job.n - 1)
      BY <1>1, <1>10
    <3> DEFINE X == 0..(job.n - 1)
    <3>2. \A c \in 1..size : near[c] \in X
      BY <3>1
    <3> HIDE DEF X
    <3>3. near \in [1..size -> X]
      BY ONLY <1>10, <3>2
    <3>4. Len(near) = size /\ near \in Seq(X)
      BY ONLY <1>10, <3>3
    <3> QED
      BY ONLY <3>4 DEF X
  <2> QED
    BY ONLY <2>1
<1>12. \A i, j \in 1..size : <<near[i], near[j]>> \in NearRel(job, q) <=> i < j
  <2> SUFFICES ASSUME NEW i \in 1..size, NEW j \in 1..size PROVE <<near[i], near[j]>> \in NearRel(job, q) <=> i < j
    OBVIOUS
  <2>1. near[i] \in 0..(job.n - 1) /\ near[j] \in 0..(job.n - 1)
    BY <1>1, <1>10
  <2>2. <<near[i], near[j]>> \in NearRel(job, q) <=> Closer(g, near[i], near[j])
    BY <1>3, <2>1 DEF NearRel
  <2> QED
    BY <1>10, <2>2
<1>13. Listing(near, size, all, NearRel(job, q))
  BY ONLY <1>10, <1>12 DEF Listing
<1> QED
  BY <1>11, <1>13 DEF near, all

\* Pairs in the order of their rows, in a row by distance, then by id.
LexRel(job, queries, all) == {x \in all \X all : LexBefore(job, queries, x[1], x[2])}
Typed(job, all, m) == \A x \in all : x \in PairType(job) /\ x.row + 1 \in 1..m

\* The order is strict and total.
LEMMA LexFacts ==
    ASSUME NEW job, RowJobOK(job), NEW m \in Nat, NEW queries \in [1..m -> DOMAIN job.own],
           NEW all, Typed(job, all, m), NEW x \in all, NEW y \in all, NEW z \in all
    PROVE  /\ ~LexBefore(job, queries, x, x)
           /\ x = y \/ LexBefore(job, queries, x, y) \/ LexBefore(job, queries, y, x)
           /\ LexBefore(job, queries, x, y) /\ LexBefore(job, queries, y, z) => LexBefore(job, queries, x, z)
<1> DEFINE d(p) == job.gap[queries[p.row + 1]][p.id + 1]
<1>1. \A p \in all : /\ p \in PairType(job) /\ p.row \in Int /\ p.id \in Int /\ d(p) \in Int
                     /\ p = [row |-> p.row, id |-> p.id]
  <2> SUFFICES ASSUME NEW p \in all
               PROVE  /\ p \in PairType(job) /\ p.row \in Int /\ p.id \in Int /\ d(p) \in Int
                      /\ p = [row |-> p.row, id |-> p.id]
    OBVIOUS
  <2>1. p \in [row : Nat, id : 0..(job.n - 1)] /\ p.row + 1 \in 1..m
    BY DEF Typed, PairType
  <2>2. job.n \in Nat /\ job.gap[queries[p.row + 1]] \in [1..job.n -> Int]
    BY <2>1 DEF RowJobOK
  <2>3. p.id \in 0..(job.n - 1) /\ p.row \in Int /\ p = [row |-> p.row, id |-> p.id]
    BY <2>1
  <2>4. p.id + 1 \in 1..job.n /\ p.id \in Int
    BY <2>2, <2>3
  <2>5. d(p) \in Int
    BY <2>2, <2>4
  <2> QED
    BY <2>1, <2>3, <2>4, <2>5 DEF PairType
<1>2. \A p, o \in all : LexBefore(job, queries, p, o) <=>
         (p.row < o.row \/ (p.row = o.row /\ d(p) < d(o)) \/ (p.row = o.row /\ d(p) = d(o) /\ p.id < o.id))
  BY DEF LexBefore
<1> HIDE DEF d
<1>3. x = y <=> x.row = y.row /\ x.id = y.id
  BY <1>1
<1>4. /\ x.row \in Int /\ x.id \in Int /\ d(x) \in Int
      /\ y.row \in Int /\ y.id \in Int /\ d(y) \in Int
      /\ z.row \in Int /\ z.id \in Int /\ d(z) \in Int
  BY <1>1
<1>5. x.row = y.row /\ x.id = y.id => d(x) = d(y)
  BY <1>3
<1> QED
  BY <1>2, <1>3, <1>4, <1>5

\* lexsort lists the pairs in this order.
LEMMA RankListing ==
    ASSUME NEW job, RowJobOK(job), NEW m \in Nat, NEW queries \in [1..m -> DOMAIN job.own],
           NEW pairs, NEW all, all = Range(pairs), IsFiniteSet(all), Typed(job, all, m)
    PROVE  Listing(InRankOrder(job, queries, pairs), Len(InRankOrder(job, queries, pairs)),
                   all, LexRel(job, queries, all))
           /\ DOMAIN InRankOrder(job, queries, pairs) = 1..Len(InRankOrder(job, queries, pairs))
<1> DEFINE before(x) == {y \in all : LexBefore(job, queries, y, x)}
           Sooner == [x \in all |-> before(x)]
           s == InRankOrder(job, queries, pairs)
           T == Range(s)
<1>1. s = [i \in 1..Cardinality(all) |-> CHOOSE x \in all : Cardinality(before(x)) = i - 1]
  BY DEF InRankOrder
<1>2. StrictlyOrders(Sooner, all)
  <2>1. Sooner \in [all -> SUBSET all] /\ \A x \in all : Sooner[x] = before(x)
    OBVIOUS
  <2>2. \A x, y \in all : x \in before(y) <=> LexBefore(job, queries, x, y)
    OBVIOUS
  <2> HIDE DEF Sooner, before
  <2>3. \A x, y, z \in all :
           /\ ~LexBefore(job, queries, x, x)
           /\ x = y \/ LexBefore(job, queries, x, y) \/ LexBefore(job, queries, y, x)
           /\ LexBefore(job, queries, x, y) /\ LexBefore(job, queries, y, z) => LexBefore(job, queries, x, z)
    BY LexFacts
  <2>4. \A x \in all : x \notin Sooner[x]
    BY ONLY <2>1, <2>2, <2>3
  <2>5. \A x, y \in all : x = y \/ x \in Sooner[y] \/ y \in Sooner[x]
    BY ONLY <2>1, <2>2, <2>3
  <2>6. \A x, y, z \in all : x \in Sooner[y] /\ y \in Sooner[z] => x \in Sooner[z]
    BY ONLY <2>1, <2>2, <2>3
  <2> QED
    BY <2>1, <2>4, <2>5, <2>6 DEF StrictlyOrders
<1>3. TakesByRank(s, Sooner, all, T)
  <2>1. \A x \in all : Sooner[x] = before(x)
    OBVIOUS
  <2> HIDE DEF Sooner, before
  <2>2. s \in [1..Cardinality(all) -> T]
    <3>1. DOMAIN s = 1..Cardinality(all)
      BY <1>1
    <3>2. s = [i \in 1..Cardinality(all) |-> s[i]]
      BY <1>1
    <3> HIDE DEF s
    <3> QED
      BY ONLY <3>1, <3>2 DEF Range
  <2>3. ASSUME NEW i \in 1..Cardinality(all), \E x \in all : Cardinality(Sooner[x]) = i - 1
        PROVE  s[i] \in all /\ Cardinality(Sooner[s[i]]) = i - 1
    <3>1. \E x \in all : Cardinality(before(x)) = i - 1
      BY <2>1, <2>3
    <3>2. s[i] = CHOOSE x \in all : Cardinality(before(x)) = i - 1
      BY <1>1
    <3> HIDE DEF s
    <3>3. s[i] \in all /\ Cardinality(before(s[i])) = i - 1
      BY ONLY <3>1, <3>2
    <3> QED
      BY <2>1, <3>3
  <2> HIDE DEF s, T
  <2> QED
    BY <2>2, <2>3 DEF TakesByRank
<1>4. \A x, y \in all : x \in Sooner[y] <=> <<x, y>> \in LexRel(job, queries, all)
  BY DEF LexRel
<1>5. /\ Cardinality(all) \in Nat
      /\ s \in [1..Cardinality(all) -> all]
      /\ \A x \in all : \E i \in 1..Cardinality(all) : s[i] = x
      /\ \A i, j \in 1..Cardinality(all) : s[i] \in Sooner[s[j]] <=> i < j
  <2> HIDE DEF s, Sooner, T
  <2>1. Cardinality(all) \in Nat
    BY ONLY <1>2, <1>3, ListedByRank
  <2>2. s \in [1..Cardinality(all) -> all]
    BY ONLY <1>2, <1>3, ListedByRank
  <2>3. \A x \in all : \E i \in 1..Cardinality(all) : s[i] = x
    BY ONLY <1>2, <1>3, ListedByRank
  <2>4. \A i, j \in 1..Cardinality(all) : s[i] \in Sooner[s[j]] <=> i < j
    BY ONLY <1>2, <1>3, ListedByRank
  <2> QED
    BY ONLY <2>1, <2>2, <2>3, <2>4
<1> HIDE DEF s, Sooner
<1> DEFINE size == Cardinality(all)
<1>6. /\ size \in Nat /\ s \in [1..size -> all]
      /\ \A x \in all : \E i \in 1..size : s[i] = x
      /\ \A i, j \in 1..size : <<s[i], s[j]>> \in LexRel(job, queries, all) <=> i < j
  <2>1. \A i, j \in 1..size : s[i] \in all /\ s[j] \in all
    BY <1>5
  <2> QED
    BY <1>4, <1>5, <2>1
<1> HIDE DEF size
<1>7. Len(s) = size /\ DOMAIN s = 1..size
  BY ONLY <1>6
<1>8. Listing(s, Len(s), all, LexRel(job, queries, all)) /\ DOMAIN s = 1..Len(s)
  BY ONLY <1>6, <1>7 DEF Listing
<1> QED
  BY <1>8 DEF s

-----------------------------------------------------------------------------
\* The rows' lists as pairs.
RowsOf(near) == [r \in DOMAIN near |-> [c \in DOMAIN near[r] |-> [row |-> r - 1, id |-> near[r][c]]]]
Ordering(job, near, m, queries, cand) ==
    /\ near \in [1..m -> Seq(0..(job.n - 1))]
    /\ \A r \in 1..m : Listing(near[r], Len(near[r]), cand[r], NearRel(job, queries[r]))

RowsAre(job, rows, near, m) ==
    /\ rows \in [1..m -> Seq(PairType(job))]
    /\ \A r \in 1..m : /\ Len(near[r]) \in Nat /\ Len(rows[r]) = Len(near[r])
                       /\ \A c \in 1..Len(near[r]) : rows[r][c] = [row |-> r - 1, id |-> near[r][c]]
    /\ \A i \in 0..m : SumTo(Lens(rows), i) = SumTo(Lens(near), i)

AllPairs(all, m, cand) == \A x : x \in all <=> \E r \in 1..m : \E y \in cand[r] : x = [row |-> r - 1, id |-> y]

\* Such rows, entry by entry.
LEMMA RowsOfFacts ==
    ASSUME NEW job, NEW m \in Nat, NEW near \in [1..m -> Seq(0..(job.n - 1))]
    PROVE  RowsAre(job, RowsOf(near), near, m)
<1> DEFINE rows == RowsOf(near)
<1>1. /\ rows = [r \in 1..m |-> rows[r]]
      /\ \A r \in 1..m : rows[r] = [c \in DOMAIN near[r] |-> [row |-> r - 1, id |-> near[r][c]]]
  BY DEF RowsOf
<1> HIDE DEF rows
<1>2. ASSUME NEW r \in 1..m
      PROVE  /\ rows[r] \in Seq(PairType(job)) /\ Len(near[r]) \in Nat /\ Len(rows[r]) = Len(near[r])
             /\ \A c \in 1..Len(near[r]) : rows[r][c] = [row |-> r - 1, id |-> near[r][c]]
  <2> DEFINE list == near[r]
             len == Len(list)
  <2>1. len \in Nat /\ DOMAIN list = 1..len /\ \A c \in 1..len : list[c] \in 0..(job.n - 1)
    <3> DEFINE X == 0..(job.n - 1)
    <3>1. near \in [1..m -> Seq(X)]
      OBVIOUS
    <3> HIDE DEF X
    <3>2. near[r] \in Seq(X)
      BY ONLY <3>1, r \in 1..m
    <3> HIDE DEF list
    <3>3. list \in Seq(X)
      BY ONLY <3>2 DEF list
    <3>4. Len(list) \in Nat /\ DOMAIN list = 1..Len(list) /\ \A c \in 1..Len(list) : list[c] \in X
      BY ONLY <3>3
    <3> QED
      BY ONLY <3>4 DEF X
  <2>2. rows[r] = [c \in 1..len |-> [row |-> r - 1, id |-> list[c]]]
    BY <1>1, <2>1
  <2> HIDE DEF list, len
  <2>3. \A c \in 1..len : [row |-> r - 1, id |-> list[c]] \in PairType(job)
    BY <2>1 DEF PairType
  <2> DEFINE X == PairType(job)
  <2>4. \A c \in 1..len : [row |-> r - 1, id |-> list[c]] \in X
    BY <2>3
  <2> HIDE DEF X
  <2>5. rows[r] \in [1..len -> X]
    BY ONLY <2>2, <2>4
  <2>6. rows[r] \in Seq(X) /\ Len(rows[r]) = len
    <3> DEFINE part == rows[r]
    <3>1. part \in [1..len -> X] /\ len \in Nat
      BY ONLY <2>1, <2>5
    <3> HIDE DEF part
    <3>2. part \in Seq(X) /\ Len(part) = len
      BY ONLY <3>1
    <3> QED
      BY ONLY <3>2 DEF part
  <2>7. \A c \in 1..len : rows[r][c] = [row |-> r - 1, id |-> list[c]]
    BY ONLY <2>2
  <2> QED
    BY ONLY <2>1, <2>6, <2>7 DEF X, list, len
<1>3. rows \in [1..m -> Seq(PairType(job))]
  BY <1>1, <1>2
<1>4. \A i \in 0..m : SumTo(Lens(rows), i) = SumTo(Lens(near), i)
  <2>a. DOMAIN rows = 1..m /\ DOMAIN near = 1..m
    BY <1>3
  <2>1. \A i \in 1..m : Lens(rows)[i] = Len(rows[i]) /\ Lens(near)[i] = Len(near[i])
    BY ONLY <2>a DEF Lens
  <2>b. \A i \in 1..m : Len(rows[i]) = Len(near[i]) /\ Len(near[i]) \in Nat
    BY <1>2
  <2>2. \A i \in 1..m : Lens(rows)[i] \in Int /\ Lens(rows)[i] = Lens(near)[i]
    BY ONLY <2>b, <2>1
  <2> QED
    BY ONLY <2>2, m \in Nat, SumsSame
<1> QED
  BY <1>2, <1>3, <1>4 DEF rows, RowsAre

\* Laid end to end they are the pairs in lexsort's order.
LEMMA FlatListing ==
    ASSUME NEW job, RowJobOK(job), NEW m \in Nat, NEW queries \in [1..m -> DOMAIN job.own],
           NEW cand, NEW near, Ordering(job, near, m, queries, cand),
           NEW all, AllPairs(all, m, cand)
    PROVE  Listing(FlattenSeq(RowsOf(near)), Len(FlattenSeq(RowsOf(near))), all, LexRel(job, queries, all))
           /\ FlattenSeq(RowsOf(near)) \in Seq(PairType(job))
<1> DEFINE rows == RowsOf(near)
           flat == FlattenSeq(rows)
           size == Len(flat)
<1>1. /\ near \in [1..m -> Seq(0..(job.n - 1))]
      /\ \A r \in 1..m : Listing(near[r], Len(near[r]), cand[r], NearRel(job, queries[r]))
      /\ \A x : x \in all <=> \E r \in 1..m : \E y \in cand[r] : x = [row |-> r - 1, id |-> y]
  BY DEF Ordering, AllPairs
<1>2. /\ rows \in [1..m -> Seq(PairType(job))]
      /\ \A r \in 1..m : /\ Len(near[r]) \in Nat /\ Len(rows[r]) = Len(near[r])
                         /\ \A c \in 1..Len(near[r]) : rows[r][c] = [row |-> r - 1, id |-> near[r][c]]
  <2>1. near \in [1..m -> Seq(0..(job.n - 1))] /\ m \in Nat
    BY <1>1
  <2>2. RowsAre(job, RowsOf(near), near, m)
    BY ONLY <2>1, RowsOfFacts
  <2> HIDE DEF rows
  <2>3. RowsAre(job, rows, near, m)
    BY <2>2 DEF rows
  <2> QED
    BY ONLY <2>3 DEF RowsAre
<1> HIDE DEF rows
<1>3. Laid(flat, rows, m, PairType(job))
  BY <1>2, FlatFacts
<1>4. /\ \A i \in 1..m : Len(rows[i]) \in Nat
      /\ \A i \in 0..m : SumTo(Lens(rows), i) \in Nat
      /\ \A i \in 1..m : SumTo(Lens(rows), i) = SumTo(Lens(rows), i - 1) + Len(rows[i])
      /\ \A i, j \in 0..m : i <= j => SumTo(Lens(rows), i) <= SumTo(Lens(rows), j)
  BY <1>2, LensFacts
<1> HIDE DEF flat
<1>5. flat \in Seq(PairType(job)) /\ size \in Nat
  BY <1>3 DEF Laid
<1> HIDE DEF size
<1>6. ASSUME NEW r \in 1..m, NEW c \in 1..Len(near[r])
      PROVE  Begin(rows, r) + c \in 1..size /\ flat[Begin(rows, r) + c] = [row |-> r - 1, id |-> near[r][c]]
  BY <1>2, <1>3 DEF Laid, size
<1>7. ASSUME NEW p \in 1..size
      PROVE  \E r \in 1..m : \E c \in 1..Len(near[r]) : p = Begin(rows, r) + c
  <2>1. PICK r \in 1..m : \E c \in 1..Len(rows[r]) : p = Begin(rows, r) + c
    BY <1>3 DEF Laid, size
  <2> QED
    BY <1>2, <2>1
<1>8. \A r \in 1..m : /\ \A c \in 1..Len(near[r]) : near[r][c] \in cand[r]
                      /\ \A y \in cand[r] : \E c \in 1..Len(near[r]) : near[r][c] = y
                      /\ \A c, e \in 1..Len(near[r]) : <<near[r][c], near[r][e]>> \in NearRel(job, queries[r]) <=> c < e
  BY <1>1 DEF Listing
<1>9. \A p \in 1..size : flat[p] \in all
  <2> SUFFICES ASSUME NEW p \in 1..size PROVE flat[p] \in all
    OBVIOUS
  <2>1. PICK r \in 1..m : \E c \in 1..Len(near[r]) : p = Begin(rows, r) + c
    BY <1>7
  <2>2. PICK c \in 1..Len(near[r]) : p = Begin(rows, r) + c
    BY <2>1
  <2>3. flat[p] = [row |-> r - 1, id |-> near[r][c]] /\ near[r][c] \in cand[r]
    BY <1>6, <1>8, <2>2
  <2> QED
    BY ONLY <1>1, <2>3, r \in 1..m
<1>10. \A x \in all : \E p \in 1..size : flat[p] = x
  <2> SUFFICES ASSUME NEW x \in all PROVE \E p \in 1..size : flat[p] = x
    OBVIOUS
  <2>1. PICK r \in 1..m : \E y \in cand[r] : x = [row |-> r - 1, id |-> y]
    BY <1>1
  <2>2. PICK y \in cand[r] : x = [row |-> r - 1, id |-> y]
    BY <2>1
  <2>3. PICK c \in 1..Len(near[r]) : near[r][c] = y
    BY <1>8
  <2> QED
    BY <1>6, <2>2, <2>3
<1>11. ASSUME NEW r \in 1..m, NEW c \in 1..Len(near[r]), NEW r2 \in 1..m, NEW c2 \in 1..Len(near[r2])
       PROVE  LexBefore(job, queries, [row |-> r - 1, id |-> near[r][c]], [row |-> r2 - 1, id |-> near[r2][c2]])
                 <=> Begin(rows, r) + c < Begin(rows, r2) + c2
  <2> DEFINE x == [row |-> r - 1, id |-> near[r][c]]
             y == [row |-> r2 - 1, id |-> near[r2][c2]]
  <2>1. /\ x.row = r - 1 /\ y.row = r2 - 1 /\ x.id = near[r][c] /\ y.id = near[r2][c2]
        /\ x.row + 1 = r /\ y.row + 1 = r2
    OBVIOUS
  <2>2. /\ Begin(rows, r) \in Nat /\ Begin(rows, r2) \in Nat
        /\ SumTo(Lens(rows), r) = Begin(rows, r) + Len(near[r])
        /\ SumTo(Lens(rows), r2) = Begin(rows, r2) + Len(near[r2])
        /\ c \in 1..Len(near[r]) /\ c2 \in 1..Len(near[r2]) /\ Len(near[r]) \in Nat /\ Len(near[r2]) \in Nat
    <3>1. r - 1 \in 0..m /\ r2 - 1 \in 0..m
      OBVIOUS
    <3> QED
      BY <1>2, <1>4, <3>1 DEF Begin
  <2> HIDE DEF x, y
  <2>3. CASE r < r2
    <3>1. LexBefore(job, queries, x, y)
      BY <2>1, <2>3 DEF LexBefore
    <3>2. SumTo(Lens(rows), r) <= Begin(rows, r2)
      <4>1. r \in 0..m /\ r2 - 1 \in 0..m /\ r <= r2 - 1
        BY <2>3
      <4> QED
        BY ONLY <1>4, <4>1 DEF Begin
    <3>3. Begin(rows, r) + c < Begin(rows, r2) + c2
      BY ONLY <2>2, <3>2
    <3> QED
      BY <3>1, <3>3 DEF x, y
  <2>4. CASE r2 < r
    <3>1. ~LexBefore(job, queries, x, y)
      BY <2>1, <2>4 DEF LexBefore
    <3>2. SumTo(Lens(rows), r2) <= Begin(rows, r)
      <4>1. r2 \in 0..m /\ r - 1 \in 0..m /\ r2 <= r - 1
        BY <2>4
      <4> QED
        BY ONLY <1>4, <4>1 DEF Begin
    <3>3. ~(Begin(rows, r) + c < Begin(rows, r2) + c2)
      BY ONLY <2>2, <3>2
    <3> QED
      BY <3>1, <3>3 DEF x, y
  <2>5. CASE r = r2
    <3>1. LexBefore(job, queries, x, y) <=> NearerTo(job, queries[r], near[r][c], near[r][c2])
      BY <2>1, <2>5 DEF LexBefore, NearerTo
    <3>2. near[r][c] \in 0..(job.n - 1) /\ near[r][c2] \in 0..(job.n - 1)
      <4>1. near[r] \in Seq(0..(job.n - 1))
        BY <1>1
      <4> QED
        BY <2>2, <2>5, <4>1, ElementOfSeq
    <3>3. LexBefore(job, queries, x, y) <=> <<near[r][c], near[r][c2]>> \in NearRel(job, queries[r])
      BY <3>1, <3>2 DEF NearRel
    <3>4. <<near[r][c], near[r][c2]>> \in NearRel(job, queries[r]) <=> c < c2
      BY <1>8, <2>5
    <3>5. c < c2 <=> Begin(rows, r) + c < Begin(rows, r) + c2
      BY ONLY <2>2, <2>5
    <3> QED
      BY <2>5, <3>3, <3>4, <3>5 DEF x, y
  <2> QED
    BY <2>3, <2>4, <2>5
<1>12. ASSUME NEW p \in 1..size, NEW q \in 1..size
       PROVE  <<flat[p], flat[q]>> \in LexRel(job, queries, all) <=> p < q
  <2>1. PICK r \in 1..m : \E c \in 1..Len(near[r]) : p = Begin(rows, r) + c
    BY <1>7
  <2>2. PICK c \in 1..Len(near[r]) : p = Begin(rows, r) + c
    BY <2>1
  <2>3. PICK r2 \in 1..m : \E c2 \in 1..Len(near[r2]) : q = Begin(rows, r2) + c2
    BY <1>7
  <2>4. PICK c2 \in 1..Len(near[r2]) : q = Begin(rows, r2) + c2
    BY <2>3
  <2>5. flat[p] = [row |-> r - 1, id |-> near[r][c]] /\ flat[q] = [row |-> r2 - 1, id |-> near[r2][c2]]
    BY <1>6, <2>2, <2>4
  <2>6. LexBefore(job, queries, flat[p], flat[q]) <=> p < q
    BY <1>11, <2>2, <2>4, <2>5
  <2>7. flat[p] \in all /\ flat[q] \in all
    BY <1>9
  <2> QED
    BY ONLY <2>6, <2>7 DEF LexRel
<1>13. flat \in [1..size -> all]
  <2>1. DOMAIN flat = 1..size
    BY <1>5 DEF size
  <2>2. flat = [p \in 1..size |-> flat[p]]
    BY ONLY <1>5, <2>1
  <2> QED
    BY ONLY <1>9, <2>2
<1>14. Listing(flat, size, all, LexRel(job, queries, all))
  BY ONLY <1>5, <1>10, <1>12, <1>13 DEF Listing
<1> QED
  BY <1>5, <1>14 DEF flat, size, rows

\* So the ranked pairs are the rows' lists, end to end.
LEMMA RankedAreRows ==
    ASSUME NEW job, RowJobOK(job), NEW m \in Nat, NEW queries \in [1..m -> DOMAIN job.own],
           NEW cand, NEW near, Ordering(job, near, m, queries, cand),
           NEW pairs, Pairs(job, pairs, m, cand)
    PROVE  InRankOrder(job, queries, pairs) = FlattenSeq(RowsOf(near))
<1> DEFINE all == Range(pairs)
           ranked == InRankOrder(job, queries, pairs)
           flat == FlattenSeq(RowsOf(near))
<1>1. /\ pairs \in Seq(PairType(job)) /\ Len(pairs) \in Nat /\ DOMAIN pairs = 1..Len(pairs)
      /\ \A i \in 1..Len(pairs) : pairs[i].row + 1 \in 1..m /\ pairs[i].id \in cand[pairs[i].row + 1]
      /\ \A r \in 1..m : \A y \in cand[r] : \E i \in 1..Len(pairs) : pairs[i] = [row |-> r - 1, id |-> y]
  <2> DEFINE X == PairType(job)
  <2>1. /\ pairs \in Seq(X)
        /\ \A i \in 1..Len(pairs) : pairs[i].row + 1 \in 1..m /\ pairs[i].id \in cand[pairs[i].row + 1]
        /\ \A r \in 1..m : \A y \in cand[r] : \E i \in 1..Len(pairs) : pairs[i] = [row |-> r - 1, id |-> y]
    BY DEF Pairs
  <2> HIDE DEF X
  <2>2. Len(pairs) \in Nat /\ DOMAIN pairs = 1..Len(pairs)
    BY ONLY <2>1
  <2> QED
    BY ONLY <2>1, <2>2 DEF X
<1>2. \A i \in 1..Len(pairs) : pairs[i] \in PairType(job)
  <2> DEFINE X == PairType(job)
  <2>1. pairs \in Seq(X)
    BY <1>1
  <2> HIDE DEF X
  <2>2. \A i \in 1..Len(pairs) : pairs[i] \in X
    BY ONLY <2>1
  <2> QED
    BY <2>2 DEF X
<1>3. Typed(job, all, m)
  BY <1>1, <1>2 DEF Typed, Range
<1>4. IsFiniteSet(all)
  <2>1. pairs \in Surjection(1..Len(pairs), all)
    BY <1>1 DEF Surjection, Range
  <2>2. IsFiniteSet(1..Len(pairs))
    BY <1>1, FS_Interval
  <2> QED
    BY ONLY <2>1, <2>2, FS_Surjection
<1>5. ASSUME NEW x PROVE x \in all <=> \E r \in 1..m : \E y \in cand[r] : x = [row |-> r - 1, id |-> y]
  <2>1. ASSUME x \in all PROVE \E r \in 1..m : \E y \in cand[r] : x = [row |-> r - 1, id |-> y]
    <3>1. PICK i \in 1..Len(pairs) : x = pairs[i]
      BY <1>1, <2>1 DEF Range
    <3>2. x \in [row : Nat, id : 0..(job.n - 1)]
      BY <1>2, <3>1 DEF PairType
    <3>3. x = [row |-> (x.row + 1) - 1, id |-> x.id]
      BY <3>2
    <3>4. x.row + 1 \in 1..m /\ x.id \in cand[x.row + 1]
      BY <1>1, <3>1
    <3> QED
      BY ONLY <3>3, <3>4
  <2>2. ASSUME NEW r \in 1..m, NEW y \in cand[r], x = [row |-> r - 1, id |-> y] PROVE x \in all
    BY <1>1, <2>2 DEF Range
  <2> QED
    BY ONLY <2>1, <2>2
<1> HIDE DEF all
<1>6. Listing(ranked, Len(ranked), all, LexRel(job, queries, all)) /\ DOMAIN ranked = 1..Len(ranked)
  <2>1. all = Range(pairs)
    BY DEF all
  <2> HIDE DEF ranked
  <2>2. RowJobOK(job) /\ m \in Nat /\ queries \in [1..m -> DOMAIN job.own]
    OBVIOUS
  <2>3. Listing(InRankOrder(job, queries, pairs), Len(InRankOrder(job, queries, pairs)), all, LexRel(job, queries, all))
        /\ DOMAIN InRankOrder(job, queries, pairs) = 1..Len(InRankOrder(job, queries, pairs))
    BY ONLY <1>3, <1>4, <2>1, <2>2, RankListing
  <2> QED
    BY <2>3 DEF ranked
<1>7. Listing(flat, Len(flat), all, LexRel(job, queries, all)) /\ flat \in Seq(PairType(job))
  <2> DEFINE x == FlattenSeq(RowsOf(near))
  <2>1. RowJobOK(job) /\ m \in Nat /\ queries \in [1..m -> DOMAIN job.own] /\ Ordering(job, near, m, queries, cand)
    OBVIOUS
  <2>2. AllPairs(all, m, cand)
    BY <1>5 DEF AllPairs
  <2>3. Listing(x, Len(x), all, LexRel(job, queries, all)) /\ x \in Seq(PairType(job))
    BY ONLY <2>1, <2>2, FlatListing
  <2> QED
    BY <2>3
<1> HIDE DEF ranked, flat
<1>8. Len(ranked) = Len(flat) /\ \A i \in 1..Len(ranked) : ranked[i] = flat[i]
  BY ONLY <1>6, <1>7, OneListing
<1>9. ranked = flat
  <2>1. DOMAIN flat = 1..Len(flat)
    BY <1>7
  <2>2. ranked = [i \in 1..Len(ranked) |-> ranked[i]]
    BY ONLY <1>6 DEF Listing
  <2>3. flat = [i \in 1..Len(flat) |-> flat[i]]
    BY ONLY <1>7 DEF Listing
  <2> QED
    BY ONLY <1>8, <2>2, <2>3
<1> QED
  BY <1>9 DEF ranked, flat

\* Every pair at its place: the rows behind one another, the c-th of a row ranked c - 1.
Placed(flat, near, m) ==
    /\ DOMAIN flat = 1..Len(flat)
    /\ \A r \in 1..m : InRow(flat, r - 1) = Len(near[r])
    /\ \A r \in 1..m : \A c \in 1..Len(near[r]) :
          /\ Begin(near, r) + c \in DOMAIN flat
          /\ flat[Begin(near, r) + c] = [row |-> r - 1, id |-> near[r][c]]
          /\ RankInRow(flat, Begin(near, r) + c) = c - 1
    /\ \A p \in DOMAIN flat : \E r \in 1..m : \E c \in 1..Len(near[r]) : p = Begin(near, r) + c

\* Of the rows laid end to end, starts holds where each begins.
LEMMA PlacedRows ==
    ASSUME NEW job, NEW m \in Nat, NEW near \in [1..m -> Seq(0..(job.n - 1))]
    PROVE  Placed(FlattenSeq(RowsOf(near)), near, m)
<1> DEFINE rows == RowsOf(near)
           flat == FlattenSeq(rows)
<1>1. RowsAre(job, rows, near, m)
  BY RowsOfFacts
<1> HIDE DEF rows
<1>2. /\ rows \in [1..m -> Seq(PairType(job))]
      /\ \A r \in 1..m : Len(near[r]) \in Nat /\ Len(rows[r]) = Len(near[r])
      /\ \A r \in 1..m : \A c \in 1..Len(near[r]) : rows[r][c] = [row |-> r - 1, id |-> near[r][c]]
      /\ \A i \in 0..m : SumTo(Lens(rows), i) = SumTo(Lens(near), i)
  BY <1>1 DEF RowsAre
<1>3. Laid(flat, rows, m, PairType(job))
  BY <1>2, FlatFacts
<1> HIDE DEF flat
<1>4. flat \in Seq(PairType(job)) /\ Len(flat) \in Nat /\ DOMAIN flat = 1..Len(flat)
  <2> DEFINE X == PairType(job)
  <2>1. flat \in Seq(X)
    BY <1>3 DEF Laid
  <2> HIDE DEF X
  <2>2. Len(flat) \in Nat /\ DOMAIN flat = 1..Len(flat)
    BY ONLY <2>1
  <2> QED
    BY <2>1, <2>2 DEF X
<1>5. \A r \in 1..m : Begin(rows, r) = Begin(near, r)
  <2>1. \A r \in 1..m : r - 1 \in 0..m
    OBVIOUS
  <2> QED
    BY <1>2, <2>1 DEF Begin
<1>6. ASSUME NEW r \in 1..m, NEW c \in 1..Len(near[r])
      PROVE  Begin(near, r) + c \in DOMAIN flat /\ flat[Begin(near, r) + c] = [row |-> r - 1, id |-> near[r][c]]
  BY <1>2, <1>3, <1>4, <1>5 DEF Laid
<1>7. ASSUME NEW p \in DOMAIN flat PROVE \E r \in 1..m : \E c \in 1..Len(near[r]) : p = Begin(near, r) + c
  <2>1. PICK r \in 1..m : \E c \in 1..Len(rows[r]) : p = Begin(rows, r) + c
    BY <1>3, <1>4 DEF Laid
  <2> QED
    BY <1>2, <1>5, <2>1
<1>8. ASSUME NEW r \in 1..m PROVE Begin(near, r) \in Nat
  <2>1. r - 1 \in 0..m
    OBVIOUS
  <2>2. \A i \in 0..m : SumTo(Lens(rows), i) \in Nat
    BY <1>2, LensFacts
  <2> QED
    BY <1>2, <2>1, <2>2 DEF Begin
<1>9. ASSUME NEW r \in 1..m PROVE InRow(flat, r - 1) = Len(near[r])
  <2> DEFINE base == Begin(near, r)
             len == Len(near[r])
             here == {j \in DOMAIN flat : flat[j].row = r - 1}
  <2>1. base \in Nat /\ len \in Nat
    BY <1>2, <1>8
  <2>2. ASSUME NEW j \in here PROVE j \in (base + 1)..(base + len)
    <3>1. PICK r2 \in 1..m : \E c \in 1..Len(near[r2]) : j = Begin(near, r2) + c
      BY <1>7
    <3>2. PICK c \in 1..Len(near[r2]) : j = Begin(near, r2) + c
      BY <3>1
    <3>3. flat[j] = [row |-> r2 - 1, id |-> near[r2][c]] /\ flat[j].row = r - 1
      BY <1>6, <3>2
    <3>4. r2 = r
      BY <3>3
    <3> QED
      BY <2>1, <3>2, <3>4
  <2>3. ASSUME NEW j \in (base + 1)..(base + len) PROVE j \in here
    <3> DEFINE c == j - base
    <3>1. c \in 1..len /\ j = base + c
      BY <2>1
    <3> HIDE DEF c
    <3>2. j \in DOMAIN flat /\ flat[j] = [row |-> r - 1, id |-> near[r][c]]
      BY <1>6, <3>1
    <3> QED
      BY <3>2
  <2>4. here = (base + 1)..(base + len)
    BY <2>2, <2>3
  <2>5. Cardinality(here) = len
    <3> HIDE DEF base, len, here
    <3> DEFINE lo == base + 1
               hi == base + len
    <3>1. lo \in Int /\ hi \in Int
      BY <2>1
    <3> HIDE DEF lo, hi
    <3>2. Cardinality(lo..hi) = IF lo > hi THEN 0 ELSE hi - lo + 1
      BY ONLY <3>1, FS_Interval
    <3>3. (IF lo > hi THEN 0 ELSE hi - lo + 1) = len
      BY ONLY <2>1 DEF lo, hi
    <3>4. here = lo..hi
      BY ONLY <2>4 DEF lo, hi
    <3> QED
      BY ONLY <3>2, <3>3, <3>4
  <2> QED
    BY <2>5 DEF InRow
<1>10. ASSUME NEW r \in 1..m, NEW c \in 1..Len(near[r]) PROVE RankInRow(flat, Begin(near, r) + c) = c - 1
  <2> DEFINE p == Begin(near, r) + c
             counts == [x \in 1..(r - 1) |-> InRow(flat, x - 1)]
             lens == Lens(near)
  <2>1. flat[p].row = r - 1 /\ Begin(near, r) \in Nat /\ c \in Int
    <3>1. flat[p] = [row |-> r - 1, id |-> near[r][c]]
      BY <1>6
    <3>2. Begin(near, r) \in Nat /\ Len(near[r]) \in Nat
      BY <1>2, <1>8
    <3>3. c \in Int
      BY <3>2
    <3> HIDE DEF p
    <3> QED
      BY ONLY <3>1, <3>2, <3>3
  <2>2. \A x \in 1..(r - 1) : counts[x] \in Int /\ counts[x] = lens[x]
    <3> SUFFICES ASSUME NEW x \in 1..(r - 1) PROVE counts[x] \in Int /\ counts[x] = lens[x]
      OBVIOUS
    <3>1. x \in 1..m
      OBVIOUS
    <3>2. counts[x] = InRow(flat, x - 1)
      OBVIOUS
    <3>3. lens[x] = Len(near[x])
      BY <3>1 DEF Lens
    <3>4. InRow(flat, x - 1) = Len(near[x]) /\ Len(near[x]) \in Nat
      BY <1>2, <1>9, <3>1
    <3> HIDE DEF counts, lens
    <3> QED
      BY ONLY <3>2, <3>3, <3>4
  <2>3. r - 1 \in Nat /\ r - 1 \in 0..(r - 1)
    OBVIOUS
  <2> HIDE DEF counts, lens
  <2>4. SumTo(counts, r - 1) = SumTo(lens, r - 1)
    <3> DEFINE d == r - 1
    <3>1. d \in Nat /\ d \in 0..d
      BY <2>3
    <3>2. \A i \in 1..d : counts[i] \in Int /\ counts[i] = lens[i]
      BY <2>2
    <3> HIDE DEF d
    <3>3. d \in Nat
      BY <3>1
    <3>4. \A i \in 0..d : SumTo(counts, i) = SumTo(lens, i)
      BY ONLY <3>2, <3>3, SumsSame
    <3> QED
      BY <3>1, <3>4 DEF d
  <2>5. RankInRow(flat, p) = (p - 1) - SumTo(counts, r - 1)
    BY <2>1 DEF RankInRow, counts
  <2>6. SumTo(lens, r - 1) = Begin(near, r)
    BY DEF lens, Begin
  <2>7. p = Begin(near, r) + c
    OBVIOUS
  <2> HIDE DEF p
  <2>8. RankInRow(flat, p) = c - 1
    BY ONLY <2>1, <2>4, <2>5, <2>6, <2>7
  <2> QED
    BY ONLY <2>7, <2>8
<1>11. Placed(flat, near, m)
  BY <1>4, <1>6, <1>7, <1>9, <1>10 DEF Placed
<1> QED
  BY <1>11 DEF flat, rows

-----------------------------------------------------------------------------
\* What each row keeps of its candidates.
Lefts(job, queries, cand, m) == [r \in 1..m |-> Rivals(job, queries[r], cand[r])]
Shortlists(job, cand, m) == cand \in [1..m -> SUBSET (0..(job.n - 1))]

\* The excluded id of every row is dropped from that row and no other.
LEMMA KeptPairs ==
    ASSUME NEW job, RowJobOK(job), NEW m \in Nat, NEW queries \in [1..m -> DOMAIN job.own],
           NEW cand, Shortlists(job, cand, m), NEW pairs, Pairs(job, pairs, m, cand)
    PROVE  Pairs(job, Kept1(ExcludesOf(job, queries), pairs), m, Lefts(job, queries, cand, m))
<1> DEFINE left == Lefts(job, queries, cand, m)
           ex == ExcludesOf(job, queries)
<1>1. \A r \in 1..m : left[r] = cand[r] \ {Excluded1(job, queries[r])}
  BY DEF Lefts, Rivals
<1>2. /\ \A r \in 1..m : cand[r] \in SUBSET (0..(job.n - 1))
      /\ DOMAIN queries = 1..m
  BY DEF Shortlists
<1> HIDE DEF left
<1>3. CASE ex = <<>>
  <2>1. Kept1(ex, pairs) = pairs
    BY <1>3 DEF Kept1
  <2>2. \A r \in 1..m : left[r] = cand[r]
    <3>1. CASE job.excludes = <<>>
      <4> SUFFICES ASSUME NEW r \in 1..m PROVE left[r] = cand[r]
        OBVIOUS
      <4>1. Excluded1(job, queries[r]) = -1
        BY <3>1 DEF Excluded1
      <4>2. -1 \notin 0..(job.n - 1)
        BY DEF RowJobOK
      <4> QED
        BY <1>1, <1>2, <4>1, <4>2
    <3>2. CASE job.excludes # <<>>
      <4>1. ex = [r \in 1..m |-> job.excludes[queries[r]]]
        BY <1>2, <3>2 DEF ExcludesOf
      <4>2. DOMAIN ex = 1..m
        BY <4>1
      <4>3. DOMAIN <<>> = {}
        OBVIOUS
      <4>4. 1..m = {}
        BY <1>3, <4>2, <4>3
      <4> QED
        BY <4>4
    <3> QED
      BY <3>1, <3>2
  <2>3. Pairs(job, pairs, m, left)
    <3>1. /\ pairs \in Seq(PairType(job))
          /\ \A i, j \in 1..Len(pairs) : pairs[i] = pairs[j] => i = j
          /\ \A i \in 1..Len(pairs) : pairs[i].row + 1 \in 1..m /\ pairs[i].id \in cand[pairs[i].row + 1]
          /\ \A r \in 1..m : \A y \in cand[r] : \E i \in 1..Len(pairs) : pairs[i] = [row |-> r - 1, id |-> y]
      BY DEF Pairs
    <3> DEFINE X == PairType(job)
    <3> HIDE DEF X
    <3>2. \A i \in 1..Len(pairs) : pairs[i].row + 1 \in 1..m /\ pairs[i].id \in left[pairs[i].row + 1]
      BY <2>2, <3>1
    <3>3. \A r \in 1..m : \A y \in left[r] : \E i \in 1..Len(pairs) : pairs[i] = [row |-> r - 1, id |-> y]
      BY <2>2, <3>1
    <3> QED
      BY <3>1, <3>2, <3>3 DEF Pairs
  <2> QED
    BY <2>1, <2>3 DEF left
<1>4. CASE ex # <<>>
  <2> DEFINE places == {i \in DOMAIN pairs : pairs[i].id # ex[pairs[i].row + 1]}
  <2>1. job.excludes # <<>>
    BY <1>4 DEF ExcludesOf
  <2>2. \A r \in 1..m : ex[r] = job.excludes[queries[r]] /\ Excluded1(job, queries[r]) = job.excludes[queries[r]]
    BY <1>2, <2>1 DEF ExcludesOf, Excluded1
  <2>3. Kept1(ex, pairs) = Picked(pairs, places)
    BY <1>4 DEF Kept1
  <2> HIDE DEF ex
  <2>4. \A i \in 1..Len(pairs) : pairs[i].row + 1 \in 1..m /\ pairs[i].id \in cand[pairs[i].row + 1]
    BY DEF Pairs
  <2>5. DOMAIN pairs = 1..Len(pairs)
    <3> DEFINE X == PairType(job)
    <3>1. pairs \in Seq(X)
      BY DEF Pairs
    <3> HIDE DEF X
    <3> QED
      BY ONLY <3>1
  <2>6. \A i \in 1..Len(pairs) : pairs[i].id # ex[pairs[i].row + 1] <=> pairs[i].id \in left[pairs[i].row + 1]
    BY <1>1, <2>2, <2>4
  <2>7. places = {i \in 1..Len(pairs) : pairs[i].id \in left[pairs[i].row + 1]}
    BY <2>5, <2>6
  <2>8. \A r \in 1..m : left[r] \subseteq cand[r]
    BY <1>1
  <2> HIDE DEF places
  <2>9. Pairs(job, Picked(pairs, places), m, left)
    BY ONLY <2>7, <2>8, m \in Nat, Pairs(job, pairs, m, cand), PickedPairs
  <2> QED
    BY <2>3, <2>9 DEF left, ex
<1> QED
  BY <1>3, <1>4

\* Each row's own list, and the order of the pairs kept.
LEMMA RowLists ==
    ASSUME NEW job, RowJobOK(job), NEW m \in Nat, NEW queries \in [1..m -> DOMAIN job.own],
           NEW cand, Shortlists(job, cand, m),
           NEW near, near = [r \in 1..m |-> Nearest1(job, queries[r], cand[r])]
    PROVE  Ordering(job, near, m, queries, Lefts(job, queries, cand, m))
<1>1. ASSUME NEW r \in 1..m
      PROVE  /\ near[r] \in Seq(0..(job.n - 1))
             /\ Listing(near[r], Len(near[r]), Lefts(job, queries, cand, m)[r], NearRel(job, queries[r]))
  <2>1. queries[r] \in DOMAIN job.own /\ cand[r] \in SUBSET (0..(job.n - 1))
    BY DEF Shortlists
  <2>2. near[r] = Nearest1(job, queries[r], cand[r])
    OBVIOUS
  <2>3. Lefts(job, queries, cand, m)[r] = Rivals(job, queries[r], cand[r])
    BY DEF Lefts
  <2>4. /\ Listing(Nearest1(job, queries[r], cand[r]), Len(Nearest1(job, queries[r], cand[r])),
                   Rivals(job, queries[r], cand[r]), NearRel(job, queries[r]))
        /\ Nearest1(job, queries[r], cand[r]) \in Seq(0..(job.n - 1))
    <3>1. RowJobOK(job)
      OBVIOUS
    <3> QED
      BY ONLY <2>1, <3>1, NearestFacts
  <2> QED
    BY ONLY <2>2, <2>3, <2>4
<1>2. near \in [1..m -> Seq(0..(job.n - 1))]
  <2> DEFINE X == Seq(0..(job.n - 1))
  <2>1. \A r \in 1..m : near[r] \in X
    BY <1>1
  <2>2. near = [r \in 1..m |-> near[r]]
    OBVIOUS
  <2> HIDE DEF X
  <2>3. near \in [1..m -> X]
    BY ONLY <2>1, <2>2
  <2> QED
    BY <2>3 DEF X
<1> QED
  BY <1>1, <1>2 DEF Ordering

\* _finish_topk scatters every pair into its row, at its rank.
LEMMA FinishFacts ==
    ASSUME NEW job, RowJobOK(job), NEW m \in Nat, NEW queries \in [1..m -> DOMAIN job.own],
           NEW cand, Shortlists(job, cand, m), NEW pairs, Pairs(job, pairs, m, cand)
    PROVE  FinishTopk(job, queries, ExcludesOf(job, queries), pairs)
              = [r \in 1..m |-> Padded1(Nearest1(job, queries[r], cand[r]), job.k)]
<1> DEFINE left == Lefts(job, queries, cand, m)
           near == [r \in 1..m |-> Nearest1(job, queries[r], cand[r])]
           some == Kept1(ExcludesOf(job, queries), pairs)
           ranked == InRankOrder(job, queries, some)
           spot(r, c) == {i \in DOMAIN ranked : ranked[i].row = r - 1 /\ RankInRow(ranked, i) = c - 1}
<1>0. RowJobOK(job) /\ m \in Nat /\ queries \in [1..m -> DOMAIN job.own] /\ Shortlists(job, cand, m) /\ Pairs(job, pairs, m, cand)
  OBVIOUS
<1>1. Pairs(job, some, m, left)
  BY ONLY <1>0, KeptPairs
<1>2. Ordering(job, near, m, queries, left)
  <2>1. near = [r \in 1..m |-> Nearest1(job, queries[r], cand[r])]
    OBVIOUS
  <2> HIDE DEF near
  <2> QED
    BY ONLY <1>0, <2>1, RowLists
<1>3. \A r \in 1..m : near[r] = Nearest1(job, queries[r], cand[r])
  OBVIOUS
<1> HIDE DEF near
<1>4. ranked = FlattenSeq(RowsOf(near))
  <2> HIDE DEF some, left
  <2> QED
    BY ONLY <1>0, <1>1, <1>2, RankedAreRows DEF ranked
<1>5. Placed(ranked, near, m)
  <2>1. near \in [1..m -> Seq(0..(job.n - 1))]
    BY <1>2 DEF Ordering
  <2>2. Placed(FlattenSeq(RowsOf(near)), near, m)
    BY ONLY <1>0, <2>1, PlacedRows
  <2> QED
    BY ONLY <1>4, <2>2
<1>6. \A r \in 1..m : Len(near[r]) \in Nat
  <2>1. \A r \in 1..m : near[r] \in Seq(0..(job.n - 1))
    BY <1>2 DEF Ordering
  <2> DEFINE X == 0..(job.n - 1)
  <2>2. \A r \in 1..m : near[r] \in Seq(X)
    BY <2>1
  <2> HIDE DEF X
  <2> QED
    BY ONLY <2>2
<1>7. FinishTopk(job, queries, ExcludesOf(job, queries), pairs)
        = [r \in 1..m |-> [c \in 1..job.k |-> IF spot(r, c) = {} THEN -1 ELSE ranked[CHOOSE i \in spot(r, c) : TRUE].id]]
  <2>1. Len(queries) = m
    OBVIOUS
  <2> QED
    BY <2>1 DEF FinishTopk
<1> HIDE DEF ranked, some
<1>8. job.k \in Nat
  BY DEF RowJobOK
<1>9. ASSUME NEW r \in 1..m, NEW c \in 1..job.k
      PROVE  (IF spot(r, c) = {} THEN -1 ELSE ranked[CHOOSE i \in spot(r, c) : TRUE].id)
               = (IF c <= Len(near[r]) THEN near[r][c] ELSE -1)
  <2>1. c \in Int /\ c >= 1 /\ r \in Int
    BY <1>8
  <2>2. CASE c <= Len(near[r])
    <3>1. c \in 1..Len(near[r])
      BY <1>6, <2>1, <2>2
    <3> DEFINE p == Begin(near, r) + c
    <3>2. p \in DOMAIN ranked /\ ranked[p] = [row |-> r - 1, id |-> near[r][c]] /\ RankInRow(ranked, p) = c - 1
      BY <1>5, <3>1 DEF Placed
    <3>3. p \in spot(r, c)
      BY <3>2
    <3>4. ASSUME NEW i \in spot(r, c) PROVE i = p
      <4>1. PICK r2 \in 1..m : \E c2 \in 1..Len(near[r2]) : i = Begin(near, r2) + c2
        BY <1>5 DEF Placed
      <4>2. PICK c2 \in 1..Len(near[r2]) : i = Begin(near, r2) + c2
        BY <4>1
      <4>3. ranked[i] = [row |-> r2 - 1, id |-> near[r2][c2]] /\ RankInRow(ranked, i) = c2 - 1
        BY <1>5, <4>2 DEF Placed
      <4>4. ranked[i].row = r - 1 /\ RankInRow(ranked, i) = c - 1
        OBVIOUS
      <4>5. r2 = r
        BY <2>1, <4>3, <4>4
      <4>6. c2 = c
        BY <1>6, <2>1, <4>3, <4>4
      <4> QED
        BY <4>2, <4>5, <4>6
    <3> HIDE DEF p
    <3> DEFINE these == spot(r, c)
    <3>5. these # {} /\ \A i \in these : i = p
      BY <3>3, <3>4
    <3> HIDE DEF these
    <3>6. (CHOOSE i \in these : TRUE) = p
      BY ONLY <3>5
    <3>7. ranked[CHOOSE i \in spot(r, c) : TRUE].id = near[r][c] /\ spot(r, c) # {}
      BY <3>2, <3>5, <3>6 DEF these
    <3> HIDE DEF spot
    <3> QED
      BY <2>2, <3>7
  <2>3. CASE ~(c <= Len(near[r]))
    <3>1. ASSUME NEW i \in spot(r, c) PROVE FALSE
      <4>1. PICK r2 \in 1..m : \E c2 \in 1..Len(near[r2]) : i = Begin(near, r2) + c2
        BY <1>5 DEF Placed
      <4>2. PICK c2 \in 1..Len(near[r2]) : i = Begin(near, r2) + c2
        BY <4>1
      <4>3. ranked[i] = [row |-> r2 - 1, id |-> near[r2][c2]] /\ RankInRow(ranked, i) = c2 - 1
        BY <1>5, <4>2 DEF Placed
      <4>4. ranked[i].row = r - 1 /\ RankInRow(ranked, i) = c - 1
        OBVIOUS
      <4>5. r2 = r
        BY <2>1, <4>3, <4>4
      <4>6. c2 = c
        BY <1>6, <2>1, <4>3, <4>4
      <4> QED
        BY <1>6, <2>1, <2>3, <4>5, <4>6
    <3>2. spot(r, c) = {}
      BY <3>1
    <3> HIDE DEF spot
    <3> QED
      BY <2>3, <3>2
  <2> QED
    BY <2>2, <2>3
<1> HIDE DEF spot
<1>10. \A r \in 1..m :
          [c \in 1..job.k |-> IF spot(r, c) = {} THEN -1 ELSE ranked[CHOOSE i \in spot(r, c) : TRUE].id]
             = Padded1(Nearest1(job, queries[r], cand[r]), job.k)
  BY <1>3, <1>9 DEF Padded1
<1> QED
  BY <1>7, <1>10

\* The blocks of a batch: one behind another, the last one ending with it.
Blocked(job) ==
    /\ Blocks(job) \in Nat /\ Len(job.own) \in Nat
    /\ Blocks(job) = 0 => Len(job.own) = 0
    /\ StartOf(job, 1) = 0
    /\ \A d \in 1..Blocks(job) :
          /\ StartOf(job, d) \in Nat /\ BlockLen(job, d) \in Nat
          /\ StartOf(job, d) + BlockLen(job, d) <= Len(job.own)
          /\ d < Blocks(job) => StartOf(job, d + 1) = StartOf(job, d) + BlockLen(job, d)
          /\ d = Blocks(job) => Len(job.own) = StartOf(job, d) + BlockLen(job, d)

\* Whole division.
LEMMA Rest ==
    ASSUME NEW v \in Nat, NEW w \in Nat, w >= 1
    PROVE  v \div w \in Nat /\ (v \div w) * w <= v /\ v < (v \div w) * w + w
<1> DEFINE q == v \div w
           s == v % w
<1>1. q \in Int /\ s \in 0..(w - 1) /\ v = w * q + s
  OBVIOUS
<1> HIDE DEF q, s
<1>2. q \in Nat
  <2> SUFFICES ASSUME q <= -1 PROVE FALSE
    BY <1>1
  <2>1. w * q <= w * (-1)
    BY <1>1
  <2>2. w * (-1) = 0 - w /\ w * q \in Int
    BY <1>1
  <2> QED
    BY <1>1, <2>1, <2>2
<1>3. q * w = w * q /\ w * q \in Int
  BY <1>1
<1>4. q * w <= v /\ v < q * w + w
  BY ONLY <1>1, <1>3, w \in Nat, v \in Nat
<1> QED
  BY <1>2, <1>4 DEF q

\* Rounding the number of blocks up leaves no query out and makes no block empty.
LEMMA BlocksTile == ASSUME NEW job, RowJobOK(job) PROVE Blocked(job)
<1> DEFINE N == Len(job.own)
           w == job.block
           many == (N + w - 1) \div w
           till == [d \in 0..many |-> d * w]
<1>1. N \in Nat /\ w \in Nat /\ w >= 1
  <2>1. N \in Nat
    BY DEF RowJobOK
  <2> QED
    BY <2>1 DEF RowJobOK
<1>2. Blocks(job) = many
  BY DEF Blocks
<1>3. /\ \A d : StartOf(job, d) = (d - 1) * w
      /\ \A d : BlockLen(job, d) = Min({N, StartOf(job, d) + w}) - StartOf(job, d)
  BY DEF StartOf, BlockLen
<1> HIDE DEF N, w
<1>4. many \in Nat /\ many * w <= N + w - 1 /\ N + w - 1 < many * w + w
  <2> DEFINE v == N + w - 1
  <2>1. v \in Nat
    BY <1>1
  <2> HIDE DEF v
  <2>2. v \div w \in Nat /\ (v \div w) * w <= v /\ v < (v \div w) * w + w
    BY ONLY <1>1, <2>1, Rest
  <2> QED
    BY <2>2 DEF v
<1> HIDE DEF many
<1>5. /\ \A d \in 0..many : till[d] = d * w /\ till[d] \in Int
      /\ \A d \in 1..many : till[d] = till[d - 1] + w
      /\ \A d \in 0..many : d < many => till[d] <= till[many] - w
      /\ till[0] = 0
  <2>1. \A d \in 0..many : till[d] = d * w /\ till[d] \in Int
    BY <1>1, <1>4
  <2>2. \A d \in 1..many : d - 1 \in 0..many /\ d \in 0..many /\ d * w = (d - 1) * w + w
    BY <1>1, <1>4
  <2>3. \A d \in 0..many : d < many => d * w <= many * w - w
    <3> SUFFICES ASSUME NEW d \in 0..many, d < many PROVE d * w <= many * w - w
      OBVIOUS
    <3>1. many - 1 - d \in Nat
      BY <1>4
    <3>2. (many - 1 - d) * w >= 0
      BY <1>1, <3>1
    <3>3. (many - 1 - d) * w = many * w - w - d * w
      BY <1>1, <1>4
    <3> QED
      BY <1>1, <1>4, <3>2, <3>3
  <2>4. many \in 0..many /\ 0 \in 0..many
    BY <1>4
  <2>5. 0 * w = 0
    BY <1>1
  <2> HIDE DEF till
  <2> QED
    BY <2>1, <2>2, <2>3, <2>4, <2>5
<1> HIDE DEF till
<1>6. many \in 0..many /\ till[many] <= N + w - 1 /\ N + w - 1 < till[many] + w /\ till[many] \in Int
  BY <1>4, <1>5
<1>7. ASSUME many = 0 PROVE N = 0
  BY <1>1, <1>5, <1>6, <1>7
<1>8. \A d \in 1..many : StartOf(job, d) = till[d - 1] /\ till[d - 1] \in Int /\ d - 1 \in 0..many
  BY <1>3, <1>4, <1>5
<1>9. ASSUME NEW d \in 1..many
      PROVE  /\ StartOf(job, d) \in Nat /\ BlockLen(job, d) \in Nat
             /\ StartOf(job, d) + BlockLen(job, d) <= N
             /\ d < many => StartOf(job, d + 1) = StartOf(job, d) + BlockLen(job, d)
             /\ d = many => N = StartOf(job, d) + BlockLen(job, d)
  <2> DEFINE s == till[d - 1]
             e == till[d]
             least == Min({N, s + w})
  <2>1. s \in Int /\ e \in Int /\ e = s + w /\ StartOf(job, d) = s
    BY <1>5, <1>8
  <2>2. BlockLen(job, d) = least - s
    BY <1>3, <2>1
  <2>3. 0 <= s
    <3>1. 0 * w <= (d - 1) * w
      BY <1>1
    <3> QED
      BY <1>1, <1>5, <1>8, <3>1
  <2>4. least = IF N <= e THEN N ELSE e
    <3>1. Min({N, e}) = IF N <= e THEN N ELSE e
      <4> HIDE DEF e
      <4> QED
        BY ONLY <1>1, <2>1, LesserOf
    <3> QED
      BY <2>1, <3>1
  <2> HIDE DEF least
  <2>5. s <= N - 1
    <3>1. d - 1 \in 0..many /\ d - 1 < many
      BY <1>4
    <3>2. s <= till[many] - w
      BY <1>5, <3>1
    <3> QED
      BY <1>1, <1>6, <2>1, <3>2
  <2>6. CASE d < many
    <3>1. d \in 0..many /\ d + 1 \in 1..many /\ (d + 1) - 1 = d
      BY <1>4, <2>6
    <3>2. e <= till[many] - w
      BY <1>5, <2>6, <3>1
    <3>3. e <= N - 1
      BY <1>1, <1>6, <2>1, <3>2
    <3>4. StartOf(job, d + 1) = e
      BY <1>8, <3>1
    <3> HIDE DEF s, e
    <3> QED
      BY <1>1, <1>4, <2>1, <2>2, <2>3, <2>4, <2>6, <3>3, <3>4
  <2>7. CASE ~(d < many)
    <3>1. d = many
      BY <1>4, <2>7
    <3>2. N <= e
      BY <1>1, <1>6, <2>1, <3>1
    <3> HIDE DEF s, e
    <3> QED
      BY <1>1, <1>4, <2>1, <2>2, <2>3, <2>4, <2>5, <2>7, <3>1, <3>2
  <2> QED
    BY <2>6, <2>7
<1>10. StartOf(job, 1) = 0
  BY <1>1, <1>3
<1> QED
  BY <1>1, <1>2, <1>4, <1>7, <1>9, <1>10 DEF Blocked, N

-----------------------------------------------------------------------------
\* Where the parts of a batch begin, if each has the length of its block.
LEMMA PartsBegin ==
    ASSUME NEW job, Blocked(job), NEW counts, \A d \in 1..Blocks(job) : counts[d] = BlockLen(job, d)
    PROVE  /\ \A d \in 1..Blocks(job) : SumTo(counts, d - 1) = StartOf(job, d)
           /\ SumTo(counts, Blocks(job)) = Len(job.own)
<1> DEFINE many == Blocks(job)
<1>1. /\ many \in Nat /\ Len(job.own) \in Nat /\ StartOf(job, 1) = 0
      /\ many = 0 => Len(job.own) = 0
      /\ \A d \in 1..many :
            /\ StartOf(job, d) \in Nat /\ BlockLen(job, d) \in Nat
            /\ d < many => StartOf(job, d + 1) = StartOf(job, d) + BlockLen(job, d)
            /\ d = many => Len(job.own) = StartOf(job, d) + BlockLen(job, d)
  BY DEF Blocked
<1>2. \A d \in 1..many : counts[d] = BlockLen(job, d) /\ counts[d] \in Int
  BY <1>1
<1> HIDE DEF many
<1>3. /\ SumTo(counts, 0) = 0
      /\ \A d \in 1..many : SumTo(counts, d) = SumTo(counts, d - 1) + counts[d]
  BY ONLY <1>1, <1>2, SumAt
<1> DEFINE Bad == {d \in 1..many : SumTo(counts, d - 1) # StartOf(job, d)}
<1>4. Bad = {}
  <2> SUFFICES ASSUME Bad # {} PROVE FALSE
    OBVIOUS
  <2>1. PICK d \in Bad : \A x \in Bad : d <= x
    <3>1. Bad \in SUBSET Nat
      OBVIOUS
    <3> HIDE DEF Bad
    <3> QED
      BY <3>1, LeastNatural
  <2>2. d \in 1..many /\ SumTo(counts, d - 1) # StartOf(job, d)
    OBVIOUS
  <2>3. CASE d = 1
    BY <1>1, <1>3, <2>2, <2>3
  <2>4. CASE d # 1
    <3> DEFINE a1 == d - 1
    <3>1. a1 \in 1..many /\ ~(d <= a1) /\ a1 < many /\ d = a1 + 1
      BY <1>1, <2>2, <2>4
    <3> HIDE DEF a1
    <3>2. SumTo(counts, a1 - 1) = StartOf(job, a1)
      BY <2>1, <3>1
    <3>3. SumTo(counts, a1) = SumTo(counts, a1 - 1) + counts[a1]
      BY <1>3, <3>1
    <3>4. StartOf(job, a1 + 1) = StartOf(job, a1) + counts[a1]
      BY <1>1, <1>2, <3>1
    <3>5. SumTo(counts, d - 1) = SumTo(counts, a1)
      BY DEF a1
    <3> QED
      BY ONLY <2>2, <3>1, <3>2, <3>3, <3>4, <3>5
  <2> QED
    BY <2>3, <2>4
<1>5. SumTo(counts, many) = Len(job.own)
  <2>1. CASE many = 0
    BY <1>1, <1>3, <2>1
  <2>2. CASE many # 0
    <3>1. many \in 1..many
      BY <1>1, <2>2
    <3>2. SumTo(counts, many - 1) = StartOf(job, many)
      BY <1>4, <3>1
    <3> QED
      BY <1>1, <1>2, <1>3, <3>1, <3>2
  <2> QED
    BY <2>1, <2>2
<1> QED
  BY <1>4, <1>5 DEF many

\* A sequence cut along the blocks.
CutInto(job, rows, f) ==
    \A d \in 1..Blocks(job) :
        /\ Len(rows[d]) = BlockLen(job, d)
        /\ \A r \in 1..BlockLen(job, d) : rows[d][r] = f[StartOf(job, d) + r]

\* np.concatenate of the blocks' answers is the answer of the batch.
LEMMA BlocksJoin ==
    ASSUME NEW job, Blocked(job), NEW T, NEW f \in [1..Len(job.own) -> T],
           NEW rows \in [1..Blocks(job) -> Seq(T)], CutInto(job, rows, f)
    PROVE  FlattenSeq(rows) = f
<1> DEFINE many == Blocks(job)
           flat == FlattenSeq(rows)
           N == Len(job.own)
<1>1. many \in Nat /\ N \in Nat
  BY DEF Blocked
<1>2. /\ \A d \in 1..many : Len(rows[d]) = BlockLen(job, d)
      /\ \A d \in 1..many : \A r \in 1..BlockLen(job, d) : rows[d][r] = f[StartOf(job, d) + r]
  BY DEF CutInto
<1>3. Laid(flat, rows, many, T)
  BY <1>1, FlatFacts
<1>4. \A d \in 1..many : Lens(rows)[d] = BlockLen(job, d)
  BY <1>2 DEF Lens
<1>5. /\ \A d \in 1..many : SumTo(Lens(rows), d - 1) = StartOf(job, d)
      /\ SumTo(Lens(rows), many) = N
  <2> DEFINE counts == Lens(rows)
  <2>1. \A d \in 1..Blocks(job) : counts[d] = BlockLen(job, d)
    BY <1>4
  <2> HIDE DEF counts
  <2>2. /\ \A d \in 1..Blocks(job) : SumTo(counts, d - 1) = StartOf(job, d)
        /\ SumTo(counts, Blocks(job)) = Len(job.own)
    BY ONLY <2>1, Blocked(job), PartsBegin
  <2> QED
    BY <2>2 DEF counts
<1> HIDE DEF flat, many, N
<1>6. flat \in Seq(T) /\ Len(flat) = N
  BY <1>3, <1>5 DEF Laid
<1>7. \A p \in 1..N : flat[p] = f[p]
  <2> SUFFICES ASSUME NEW p \in 1..N PROVE flat[p] = f[p]
    OBVIOUS
  <2>1. PICK d \in 1..many : \E r \in 1..Len(rows[d]) : p = Begin(rows, d) + r
    BY <1>3, <1>6 DEF Laid
  <2>2. PICK r \in 1..Len(rows[d]) : p = Begin(rows, d) + r
    BY <2>1
  <2>3. flat[p] = rows[d][r]
    BY <1>3, <2>2 DEF Laid
  <2>4. Begin(rows, d) = StartOf(job, d)
    BY <1>5 DEF Begin
  <2> QED
    BY <1>2, <2>2, <2>3, <2>4
<1>8. DOMAIN flat = 1..N /\ flat = [p \in 1..N |-> flat[p]]
  BY ONLY <1>1, <1>6
<1>9. f = [p \in 1..N |-> f[p]]
  BY DEF N
<1>10. flat = f
  BY ONLY <1>7, <1>8, <1>9
<1> QED
  BY <1>10 DEF flat

\* Every query is in one of the blocks.
LEMMA InSomeBlock ==
    ASSUME NEW job, Blocked(job), NEW q \in 1..Len(job.own)
    PROVE  \E d \in 1..Blocks(job) : \E r \in 1..BlockLen(job, d) : q = StartOf(job, d) + r
<1> DEFINE many == Blocks(job)
           Past == {d \in 1..many : q <= StartOf(job, d) + BlockLen(job, d)}
<1>1. /\ many \in Nat /\ Len(job.own) \in Nat /\ StartOf(job, 1) = 0
      /\ many = 0 => Len(job.own) = 0
      /\ \A d \in 1..many :
            /\ StartOf(job, d) \in Nat /\ BlockLen(job, d) \in Nat
            /\ d < many => StartOf(job, d + 1) = StartOf(job, d) + BlockLen(job, d)
            /\ d = many => Len(job.own) = StartOf(job, d) + BlockLen(job, d)
  BY DEF Blocked
<1>2. q \in Nat /\ q >= 1 /\ q <= Len(job.own)
  BY <1>1
<1> HIDE DEF many
<1>3. many \in Past
  <2>1. many \in 1..many
    BY <1>1, <1>2
  <2> QED
    BY <1>1, <1>2, <2>1
<1>4. PICK d \in Past : \A x \in Past : d <= x
  <2>1. Past \in SUBSET Nat /\ Past # {}
    BY <1>3
  <2> HIDE DEF Past
  <2> QED
    BY <2>1, LeastNatural
<1>5. d \in 1..many /\ q <= StartOf(job, d) + BlockLen(job, d)
  OBVIOUS
<1>6. q > StartOf(job, d)
  <2>1. CASE d = 1
    BY <1>1, <1>2, <2>1
  <2>2. CASE d # 1
    <3> DEFINE a1 == d - 1
    <3>1. a1 \in 1..many /\ ~(d <= a1) /\ a1 < many /\ d = a1 + 1
      BY <1>1, <1>5, <2>2
    <3> HIDE DEF a1
    <3>2. a1 \notin Past
      BY <1>4, <3>1
    <3>3. ~(q <= StartOf(job, a1) + BlockLen(job, a1))
      BY <3>1, <3>2
    <3>4. StartOf(job, a1 + 1) = StartOf(job, a1) + BlockLen(job, a1) /\ StartOf(job, a1) + BlockLen(job, a1) \in Nat
      BY <1>1, <3>1
    <3> QED
      BY <1>2, <3>1, <3>3, <3>4
  <2> QED
    BY <2>1, <2>2
<1> DEFINE r == q - StartOf(job, d)
<1>7. r \in 1..BlockLen(job, d) /\ q = StartOf(job, d) + r
  BY <1>1, <1>2, <1>5, <1>6
<1> HIDE DEF r
<1> QED
  BY <1>5, <1>7 DEF many

\* The least of a set of numbers.
LEMMA MinIsLeast ==
    ASSUME NEW A \in SUBSET Nat, A # {}
    PROVE  Min(A) \in A /\ \A y \in A : Min(A) <= y
<1>1. \E x \in A : \A y \in A : x <= y
  BY LeastNatural
<1>2. Min(A) = CHOOSE x \in A : \A y \in A : x <= y
  BY DEF Min
<1> QED
  BY <1>1, <1>2

\* The first level, up to one, that holds enough entries; K if none does.
FirstLevel(job, q, lev) == Min({l \in 1..lev : Enough(job, q, l)} \cup {K})

\* The search for it, level by level.
LEMMA FirstLevelGrows ==
    ASSUME NEW job, NEW q
    PROVE  /\ FirstLevel(job, q, 0) = K
           /\ \A lev \in 0..(K - 1) : FirstLevel(job, q, lev) \in 1..K
           /\ \A lev \in 1..(K - 1) : FirstLevel(job, q, lev) =
                 (IF FirstLevel(job, q, lev - 1) = K /\ Enough(job, q, lev) THEN lev ELSE FirstLevel(job, q, lev - 1))
<1> DEFINE all(lev) == {l \in 1..lev : Enough(job, q, l)} \cup {K}
<1>1. K \in Nat /\ K >= 1
  BY HashTypes
<1>2. ASSUME NEW lev \in 0..(K - 1)
      PROVE  FirstLevel(job, q, lev) \in all(lev) /\ \A y \in all(lev) : FirstLevel(job, q, lev) <= y
  <2>1. all(lev) \in SUBSET Nat /\ all(lev) # {} /\ FirstLevel(job, q, lev) = Min(all(lev))
    BY <1>1 DEF FirstLevel
  <2> HIDE DEF all
  <2>2. Min(all(lev)) \in all(lev) /\ \A y \in all(lev) : Min(all(lev)) <= y
    <3> DEFINE these == all(lev)
    <3>1. these \in SUBSET Nat /\ these # {}
      BY <2>1
    <3> HIDE DEF these
    <3>2. Min(these) \in these /\ \A y \in these : Min(these) <= y
      BY ONLY <3>1, MinIsLeast
    <3> QED
      BY <3>2 DEF these
  <2> QED
    BY <2>1, <2>2
<1>3. \A lev \in 0..(K - 1) : \A x : x \in all(lev) <=> (x \in 1..lev /\ Enough(job, q, x)) \/ x = K
  OBVIOUS
<1> HIDE DEF all
<1>4. ASSUME NEW lev \in 0..(K - 1) PROVE FirstLevel(job, q, lev) \in 1..K
  BY <1>1, <1>2, <1>3
<1>5. FirstLevel(job, q, 0) = K
  <2>1. 0 \in 0..(K - 1) /\ 1..0 = {}
    BY <1>1
  <2> QED
    BY <1>2, <1>3, <2>1
<1>6. ASSUME NEW lev \in 1..(K - 1)
      PROVE  FirstLevel(job, q, lev) =
                (IF FirstLevel(job, q, lev - 1) = K /\ Enough(job, q, lev) THEN lev ELSE FirstLevel(job, q, lev - 1))
  <2> DEFINE old == FirstLevel(job, q, lev - 1)
             new == FirstLevel(job, q, lev)
             low == lev - 1
  <2>1. lev \in 0..(K - 1) /\ low \in 0..(K - 1) /\ lev \in Nat /\ low \in Nat /\ lev = low + 1 /\ lev < K
    BY <1>1
  <2>2. /\ (old \in 1..low /\ Enough(job, q, old)) \/ old = K
        /\ \A y : (y \in 1..low /\ Enough(job, q, y)) \/ y = K => old <= y
    <3>1. old \in all(low) /\ \A y \in all(low) : old <= y
      BY <1>2, <2>1
    <3> QED
      BY <1>3, <2>1, <3>1
  <2>3. /\ (new \in 1..lev /\ Enough(job, q, new)) \/ new = K
        /\ \A y : (y \in 1..lev /\ Enough(job, q, y)) \/ y = K => new <= y
    BY <1>2, <1>3, <2>1
  <2>4. old \in 1..K /\ new \in 1..K
    BY <1>4, <2>1
  <2> HIDE DEF old, new, low
  <2>5. CASE old = K /\ Enough(job, q, lev)
    <3>1. new <= lev
      BY <2>1, <2>3, <2>5
    <3>2. new \in 1..lev /\ Enough(job, q, new)
      BY <1>1, <2>1, <2>3, <2>4, <3>1
    <3>3. ~(new \in 1..low)
      BY <1>1, <2>1, <2>2, <2>4, <2>5, <3>2
    <3>4. new = lev
      BY <2>1, <3>2, <3>3
    <3> QED
      BY <2>5, <3>4 DEF old, new
  <2>6. CASE ~(old = K /\ Enough(job, q, lev))
    <3>1. new <= old
      BY <1>1, <2>1, <2>2, <2>3, <2>4
    <3>2. old <= new
      <4>1. CASE new = K
        BY <1>1, <2>4, <4>1
      <4>2. CASE new # K
        <5>1. new \in 1..lev /\ Enough(job, q, new)
          BY <2>3, <4>2
        <5>2. CASE new = lev
          <6>1. old # K
            BY <2>6, <5>1, <5>2
          <6>2. old \in 1..low
            BY <2>2, <6>1
          <6> QED
            BY <2>1, <2>4, <5>2, <6>2
        <5>3. CASE new # lev
          <6>1. new \in 1..low
            BY <2>1, <5>1, <5>3
          <6> QED
            BY <2>2, <5>1, <6>1
        <5> QED
          BY <5>2, <5>3
      <4> QED
        BY <4>1, <4>2
    <3>3. new = old
      BY <1>1, <2>4, <3>1, <3>2
    <3> QED
      BY <2>6, <3>3 DEF old, new
  <2> QED
    BY <2>5, <2>6
<1> QED
  BY <1>4, <1>5, <1>6

\* What the tiers hold of a widened range is what the tables do.
LEMMA RawFacts ==
    ASSUME NEW job, RowJobOK(job), NEW q \in DOMAIN job.own, NEW lev \in 0..K
    PROVE  /\ \A t \in Tables : Floored(job, q, t, lev) \in Int
           /\ Pw[lev] \in Nat
           /\ RangeCount(job, q, lev) >= 4 * job.k <=> Enough(job, q, lev)
<1>1. Pw[lev] \in Nat /\ Pw[lev] >= 1
  BY PowerFacts
<1>2. ASSUME NEW t \in Tables PROVE Floored(job, q, t, lev) \in Int
  <2>1. job.own[q][t] \in Int
    BY DEF RowJobOK
  <2> DEFINE v == job.own[q][t]
             p == Pw[lev]
  <2>2. v \in Int /\ p \in Nat /\ p >= 1
    BY <1>1, <2>1
  <2> HIDE DEF v, p
  <2>3. v \div p \in Int
    BY ONLY <2>2
  <2>4. (v \div p) * p \in Int
    BY ONLY <2>2, <2>3
  <2> QED
    BY <2>4 DEF Floored, v, p
<1> DEFINE raw == [t \in Tables |->
                      SumTo([s \in DOMAIN Tiers2(job, t) |-> Found1(Tiers2(job, t)[s], Floored(job, q, t, lev), Pw[lev])],
                            Len(Tiers2(job, t)))]
           held == [t \in Tables |-> Cardinality(Prefix(job, q, t, lev))]
<1>3. ASSUME NEW t \in Tables PROVE raw[t] = held[t] /\ held[t] \in Int
  <2> DEFINE lo == Floored(job, q, t, lev)
             w == Pw[lev]
  <2>1. lo \in Int /\ w \in Nat
    BY <1>1, <1>2
  <2>2. raw[t] = SumTo([s \in DOMAIN Tiers2(job, t) |-> Found1(Tiers2(job, t)[s], lo, w)], Len(Tiers2(job, t)))
    OBVIOUS
  <2>3. held[t] = Cardinality(InKeys(job, t, lo..(lo + w - 1)))
    BY DEF Prefix
  <2> HIDE DEF lo, w, raw, held
  <2>4. SumTo([s \in DOMAIN Tiers2(job, t) |-> Found1(Tiers2(job, t)[s], lo, w)], Len(Tiers2(job, t)))
          = Cardinality(InKeys(job, t, lo..(lo + w - 1)))
    BY ONLY <2>1, RowJobOK(job), t \in Tables, FoundFacts
  <2>5. held[t] \in Nat
    <3> DEFINE ids == 0..(job.n - 1)
               these == InKeys(job, t, lo..(lo + w - 1))
    <3>1. job.n - 1 \in Int
      BY DEF RowJobOK
    <3>2. IsFiniteSet(ids)
      BY <3>1, FS_Interval
    <3>3. these \subseteq ids
      BY DEF InKeys
    <3> HIDE DEF ids, these
    <3>4. IsFiniteSet(these)
      BY ONLY <3>2, <3>3, FS_Subset
    <3>5. Cardinality(these) \in Nat
      BY ONLY <3>4, FS_CardinalityType
    <3> QED
      BY <2>3, <3>5 DEF these
  <2> QED
    BY ONLY <2>2, <2>3, <2>4, <2>5
<1>4. RangeCount(job, q, lev) = SumTo(raw, L)
  BY DEF RangeCount
<1>5. Enough(job, q, lev) <=> SumTo(held, L) >= 4 * job.k
  BY DEF Enough
<1> HIDE DEF raw, held
<1>6. SumTo(held, L) = SumTo(raw, L)
  <2>1. L \in Nat /\ \A i \in 1..L : held[i] \in Int /\ held[i] = raw[i]
    BY <1>3, HashTypes DEF Tables
  <2>2. L \in Nat /\ L \in 0..L
    BY HashTypes
  <2>3. \A i \in 0..L : SumTo(held, i) = SumTo(raw, i)
    BY ONLY <2>1, SumsSame
  <2> QED
    BY <2>2, <2>3
<1> QED
  BY <1>1, <1>2, <1>4, <1>5, <1>6

\* The short rows widened in step each stop at their own first level.
LEMMA LevelsFacts ==
    ASSUME NEW job, RowJobOK(job), NEW m \in Nat, NEW queries \in [1..m -> DOMAIN job.own]
    PROVE  Levels(job, queries) = [r \in 1..m |-> FirstLevel(job, queries[r], K - 1)]
<1> DEFINE level == CHOOSE level : level = [lev \in 0..(K - 1) |->
               [r \in DOMAIN queries |->
                   IF lev = 0 THEN K
                   ELSE IF level[lev - 1][r] = K /\ RangeCount(job, queries[r], lev) >= 4 * job.k
                        THEN lev ELSE level[lev - 1][r]]]
           first == [lev \in 0..(K - 1) |-> [r \in 1..m |-> FirstLevel(job, queries[r], lev)]]
<1>1. Levels(job, queries) = level[K - 1]
  BY DEF Levels
<1>2. K \in Nat /\ K >= 1 /\ DOMAIN queries = 1..m
  BY HashTypes
<1>3. \A r \in 1..m : \A lev \in 1..(K - 1) :
         RangeCount(job, queries[r], lev) >= 4 * job.k <=> Enough(job, queries[r], lev)
  <2> SUFFICES ASSUME NEW r \in 1..m, NEW lev \in 1..(K - 1)
               PROVE  RangeCount(job, queries[r], lev) >= 4 * job.k <=> Enough(job, queries[r], lev)
    OBVIOUS
  <2> DEFINE q == queries[r]
  <2>1. q \in DOMAIN job.own /\ lev \in 0..K
    BY <1>2
  <2> HIDE DEF q
  <2>2. RangeCount(job, q, lev) >= 4 * job.k <=> Enough(job, q, lev)
    BY ONLY <2>1, RowJobOK(job), RawFacts
  <2> QED
    BY <2>2 DEF q
<1>4. ASSUME NEW r \in 1..m
      PROVE  /\ FirstLevel(job, queries[r], 0) = K
             /\ \A lev \in 1..(K - 1) : FirstLevel(job, queries[r], lev) =
                   (IF FirstLevel(job, queries[r], lev - 1) = K /\ RangeCount(job, queries[r], lev) >= 4 * job.k
                    THEN lev ELSE FirstLevel(job, queries[r], lev - 1))
  <2> DEFINE q == queries[r]
  <2>1. \A lev \in 1..(K - 1) : RangeCount(job, q, lev) >= 4 * job.k <=> Enough(job, q, lev)
    BY <1>3
  <2> HIDE DEF q
  <2>2. FirstLevel(job, q, 0) = K
    BY FirstLevelGrows
  <2>3. \A lev \in 1..(K - 1) : FirstLevel(job, q, lev) =
           (IF FirstLevel(job, q, lev - 1) = K /\ Enough(job, q, lev) THEN lev ELSE FirstLevel(job, q, lev - 1))
    BY FirstLevelGrows
  <2> QED
    BY <2>1, <2>2, <2>3 DEF q
<1>5. /\ \A lev \in 0..(K - 1) : \A r \in 1..m : first[lev][r] = FirstLevel(job, queries[r], lev)
      /\ \A lev \in 1..(K - 1) : lev - 1 \in 0..(K - 1) /\ lev \in 0..(K - 1)
  BY <1>2
<1>6. first = [lev \in 0..(K - 1) |->
               [r \in DOMAIN queries |->
                   IF lev = 0 THEN K
                   ELSE IF first[lev - 1][r] = K /\ RangeCount(job, queries[r], lev) >= 4 * job.k
                        THEN lev ELSE first[lev - 1][r]]]
  <2>1. first = [lev \in 0..(K - 1) |-> [r \in DOMAIN queries |-> first[lev][r]]]
    BY <1>2
  <2> HIDE DEF first
  <2>2. \A lev \in 0..(K - 1) : \A r \in DOMAIN queries :
           first[lev][r] = IF lev = 0 THEN K
                   ELSE IF first[lev - 1][r] = K /\ RangeCount(job, queries[r], lev) >= 4 * job.k
                        THEN lev ELSE first[lev - 1][r]
    <3> SUFFICES ASSUME NEW lev \in 0..(K - 1), NEW r \in 1..m
                 PROVE  first[lev][r] = IF lev = 0 THEN K
                           ELSE IF first[lev - 1][r] = K /\ RangeCount(job, queries[r], lev) >= 4 * job.k
                                THEN lev ELSE first[lev - 1][r]
      BY <1>2
    <3>1. CASE lev = 0
      BY <1>4, <1>5, <3>1
    <3>2. CASE lev # 0
      <4>1. lev \in 1..(K - 1) /\ lev - 1 \in 0..(K - 1)
        BY <1>2, <3>2
      <4>2. first[lev][r] = FirstLevel(job, queries[r], lev) /\ first[lev - 1][r] = FirstLevel(job, queries[r], lev - 1)
        BY <1>5, <4>1
      <4>3. FirstLevel(job, queries[r], lev) =
                   (IF FirstLevel(job, queries[r], lev - 1) = K /\ RangeCount(job, queries[r], lev) >= 4 * job.k
                    THEN lev ELSE FirstLevel(job, queries[r], lev - 1))
        BY <1>4, <4>1
      <4> QED
        BY ONLY <3>2, <4>2, <4>3
    <3> QED
      BY <3>1, <3>2
  <2> QED
    BY ONLY <2>1, <2>2
<1>7. level = [lev \in 0..(K - 1) |->
               [r \in DOMAIN queries |->
                   IF lev = 0 THEN K
                   ELSE IF level[lev - 1][r] = K /\ RangeCount(job, queries[r], lev) >= 4 * job.k
                        THEN lev ELSE level[lev - 1][r]]]
  <2> HIDE DEF first
  <2> QED
    BY ONLY <1>6
<1> HIDE DEF level, first
<1>8. \A lev \in 0..(K - 1) : level[lev] =
         [r \in 1..m |-> IF lev = 0 THEN K
                         ELSE IF level[lev - 1][r] = K /\ RangeCount(job, queries[r], lev) >= 4 * job.k
                              THEN lev ELSE level[lev - 1][r]]
  BY <1>2, <1>7
<1> DEFINE Bad == {lev \in 0..(K - 1) : \E r \in 1..m : level[lev][r] # FirstLevel(job, queries[r], lev)}
<1>9. Bad = {}
  <2> SUFFICES ASSUME Bad # {} PROVE FALSE
    OBVIOUS
  <2>1. PICK lev \in Bad : \A x \in Bad : lev <= x
    <3>1. Bad \in SUBSET Nat
      OBVIOUS
    <3> HIDE DEF Bad
    <3> QED
      BY <3>1, LeastNatural
  <2>2. lev \in 0..(K - 1) /\ \E r \in 1..m : level[lev][r] # FirstLevel(job, queries[r], lev)
    OBVIOUS
  <2>3. PICK r \in 1..m : level[lev][r] # FirstLevel(job, queries[r], lev)
    BY <2>2
  <2>4. level[lev][r] = IF lev = 0 THEN K
                         ELSE IF level[lev - 1][r] = K /\ RangeCount(job, queries[r], lev) >= 4 * job.k
                              THEN lev ELSE level[lev - 1][r]
    BY <1>8, <2>2
  <2>5. CASE lev = 0
    BY <1>4, <2>3, <2>4, <2>5
  <2>6. CASE lev # 0
    <3>1. lev \in 1..(K - 1) /\ lev - 1 \in 0..(K - 1) /\ ~(lev <= lev - 1)
      BY <1>2, <2>2, <2>6
    <3>2. level[lev - 1][r] = FirstLevel(job, queries[r], lev - 1)
      BY <2>1, <3>1
    <3>3. FirstLevel(job, queries[r], lev) =
                   (IF FirstLevel(job, queries[r], lev - 1) = K /\ RangeCount(job, queries[r], lev) >= 4 * job.k
                    THEN lev ELSE FirstLevel(job, queries[r], lev - 1))
      BY <1>4, <3>1
    <3> QED
      BY ONLY <2>3, <2>4, <2>6, <3>2, <3>3
  <2> QED
    BY <2>5, <2>6
<1>10. level[K - 1] = [r \in 1..m |-> FirstLevel(job, queries[r], K - 1)]
  <2>1. K - 1 \in 0..(K - 1)
    BY <1>2
  <2>2. \A r \in 1..m : level[K - 1][r] = FirstLevel(job, queries[r], K - 1)
    BY <1>9, <2>1
  <2>3. level[K - 1] = [r \in 1..m |-> level[K - 1][r]]
    BY <1>8, <2>1
  <2> QED
    BY ONLY <2>2, <2>3
<1> QED
  BY <1>1, <1>10

\* What one pass brings in: the rows of its level, each with its own range.
Wide(lev) == 1..(IF lev < K THEN L ELSE 1)
Brings(job, pass, queries, lev, m) ==
    /\ pass \in Seq(Nat)
    /\ \A x : x \in Range(pass) <=>
          \E t \in Wide(lev) : \E r \in 1..m : \E y \in Prefix(job, queries[r], t, lev) :
             FirstLevel(job, queries[r], K - 1) = lev /\ x = PairOf(job, r - 1, y)

\* Each short row is gathered in the pass of its level, in every table.
LEMMA PassFacts ==
    ASSUME NEW job, RowJobOK(job), NEW m \in Nat, NEW queries \in [1..m -> DOMAIN job.own], NEW lev \in 1..K
    PROVE  Brings(job, Pass(job, queries, lev), queries, lev, m)
<1> DEFINE first == [r \in 1..m |-> FirstLevel(job, queries[r], K - 1)]
           these == {r \in 1..m : first[r] = lev}
           group == Ascending(these)
           size == Cardinality(these)
           rows == [i \in DOMAIN group |-> group[i] - 1]
           from(t) == [i \in DOMAIN group |-> Floored(job, queries[group[i]], t, lev)]
           parts == [t \in Wide(lev) |-> Chunks(job, t, rows, from(t), Pw[lev])]
           wide == IF lev < K THEN L ELSE 1
<1>1. Pass(job, queries, lev) = FlattenSeq(parts)
  <2>1. Levels(job, queries) = first
    BY LevelsFacts
  <2>2. DOMAIN queries = 1..m
    OBVIOUS
  <2> HIDE DEF first
  <2> QED
    BY <2>1, <2>2 DEF Pass, Wide
<1>2. \A r \in 1..m : first[r] = FirstLevel(job, queries[r], K - 1)
  OBVIOUS
<1> HIDE DEF first
<1>3. wide \in Nat /\ Wide(lev) = 1..wide /\ Wide(lev) \subseteq Tables /\ lev \in 0..K
  BY HashTypes DEF Wide, Tables
<1>4. size \in Nat /\ Lists(group, these, size) /\ DOMAIN group = 1..size
  <2>1. IsFiniteSet(1..m)
    BY FS_Interval
  <2>2. these \subseteq 1..m /\ \A x \in these : x \in Int
    OBVIOUS
  <2> HIDE DEF these
  <2>3. IsFiniteSet(these)
    BY ONLY <2>1, <2>2, FS_Subset
  <2>4. /\ Cardinality(these) \in Nat
        /\ Lists(Ordered(these, Below), these, Cardinality(these))
        /\ DOMAIN Ordered(these, Below) = 1..Cardinality(these)
    BY ONLY <2>2, <2>3, AscendingFacts
  <2> QED
    BY <2>4 DEF Ascending
<1>5. group \in [1..size -> these] /\ \A r \in these : \E i \in 1..size : group[i] = r
  BY <1>4 DEF Lists
<1>6. \A r : r \in these <=> r \in 1..m /\ first[r] = lev
  OBVIOUS
<1> HIDE DEF these, group, size, wide
<1>7. \A i \in 1..size : group[i] \in 1..m /\ first[group[i]] = lev
  BY <1>5, <1>6
<1>8. rows \in [1..size -> Nat] /\ \A i \in 1..size : rows[i] = group[i] - 1
  BY <1>4, <1>7
<1>9. ASSUME NEW t \in Wide(lev)
      PROVE  from(t) \in [1..size -> Int] /\ \A i \in 1..size : from(t)[i] = Floored(job, queries[group[i]], t, lev)
  <2>1. t \in Tables
    BY <1>3
  <2>2. \A q \in DOMAIN job.own : Floored(job, q, t, lev) \in Int
    BY <1>3, <2>1, RawFacts
  <2>3. \A i \in 1..size : queries[group[i]] \in DOMAIN job.own
    BY <1>7
  <2> QED
    BY <1>4, <2>2, <2>3
<1> HIDE DEF rows, from
<1>10. ASSUME NEW t \in Wide(lev)
       PROVE  /\ parts[t] \in Seq(Nat)
              /\ \A x : x \in Range(parts[t]) <=>
                    \E r \in 1..m : \E y \in Prefix(job, queries[r], t, lev) : first[r] = lev /\ x = PairOf(job, r - 1, y)
  <2> DEFINE ff == from(t)
             w == Pw[lev]
             part == parts[t]
  <2>1. part = Chunks(job, t, rows, ff, w)
    OBVIOUS
  <2>2. ff \in [1..size -> Int] /\ \A i \in 1..size : ff[i] = Floored(job, queries[group[i]], t, lev)
    BY <1>9
  <2>3. w \in Nat /\ t \in Tables
    BY <1>3, PowerFacts
  <2>4. \A i \in 1..size : InKeys(job, t, ff[i]..(ff[i] + w - 1)) = Prefix(job, queries[group[i]], t, lev)
    BY <2>2 DEF Prefix
  <2> HIDE DEF ff, w, part
  <2>5. ChunkHas(job, t, Chunks(job, t, rows, ff, w), rows, ff, w, size)
    <3>1. ff \in [1..size -> Int] /\ rows \in [1..size -> Nat]
      BY <1>8, <2>2
    <3>2. size \in Nat
      BY <1>4
    <3> QED
      BY ONLY <3>1, <3>2, <2>3, RowJobOK(job), ChunksFacts
  <2>6. /\ part \in Seq(Nat)
        /\ \A x : x \in Range(part) <=>
              \E i \in 1..size : \E y \in InKeys(job, t, ff[i]..(ff[i] + w - 1)) : x = PairOf(job, rows[i], y)
    BY ONLY <2>1, <2>5 DEF ChunkHas
  <2>7. ASSUME NEW x, x \in Range(part)
        PROVE  \E r \in 1..m : \E y \in Prefix(job, queries[r], t, lev) : first[r] = lev /\ x = PairOf(job, r - 1, y)
    <3>1. PICK i \in 1..size : \E y \in InKeys(job, t, ff[i]..(ff[i] + w - 1)) : x = PairOf(job, rows[i], y)
      BY ONLY <2>6, <2>7
    <3>2. PICK y \in Prefix(job, queries[group[i]], t, lev) : x = PairOf(job, rows[i], y)
      BY ONLY <2>4, <3>1, i \in 1..size
    <3>3. group[i] \in 1..m /\ first[group[i]] = lev /\ rows[i] = group[i] - 1
      BY <1>7, <1>8
    <3> DEFINE r == group[i]
    <3>4. r \in 1..m /\ first[r] = lev /\ y \in Prefix(job, queries[r], t, lev) /\ x = PairOf(job, r - 1, y)
      BY <3>2, <3>3
    <3> HIDE DEF r
    <3> QED
      BY ONLY <3>4
  <2>8. ASSUME NEW r \in 1..m, NEW y \in Prefix(job, queries[r], t, lev), NEW x,
               first[r] = lev, x = PairOf(job, r - 1, y)
        PROVE  x \in Range(part)
    <3>1. PICK i \in 1..size : group[i] = r
      BY <1>5, <1>6, <2>8
    <3>2. y \in InKeys(job, t, ff[i]..(ff[i] + w - 1)) /\ x = PairOf(job, rows[i], y)
      BY <1>8, <2>4, <2>8, <3>1
    <3> QED
      BY ONLY <2>6, <3>2
  <2>9. part \in Seq(Nat) /\ \A x : x \in Range(part) <=>
           \E r \in 1..m : \E y \in Prefix(job, queries[r], t, lev) : first[r] = lev /\ x = PairOf(job, r - 1, y)
    BY ONLY <2>6, <2>7, <2>8
  <2> QED
    BY <2>9 DEF part
<1>11. parts \in [1..wide -> Seq(Nat)]
  <2>1. parts = [t \in 1..wide |-> parts[t]]
    BY <1>3
  <2> HIDE DEF parts
  <2> QED
    BY <1>3, <1>10, <2>1
<1> HIDE DEF parts
<1>12. FlattenSeq(parts) \in Seq(Nat)
  <2>1. Laid(FlattenSeq(parts), parts, wide, Nat)
    BY <1>3, <1>11, FlatFacts
  <2> QED
    BY <2>1 DEF Laid
<1>13. \A x : x \in Range(FlattenSeq(parts)) <=> \E t \in Wide(lev) : x \in Range(parts[t])
  <2>1. \A x : x \in Range(FlattenSeq(parts)) <=> \E t \in 1..wide : x \in Range(parts[t])
    <3>1. wide \in Nat
      BY <1>3
    <3> QED
      BY ONLY <1>11, <3>1, FlatRange
  <2> QED
    BY <1>3, <2>1
<1>14. ASSUME NEW x
       PROVE  x \in Range(FlattenSeq(parts)) <=>
                 \E t \in Wide(lev) : \E r \in 1..m : \E y \in Prefix(job, queries[r], t, lev) :
                    FirstLevel(job, queries[r], K - 1) = lev /\ x = PairOf(job, r - 1, y)
  <2>1. \A t \in Wide(lev) : x \in Range(parts[t]) <=>
           \E r \in 1..m : \E y \in Prefix(job, queries[r], t, lev) :
              FirstLevel(job, queries[r], K - 1) = lev /\ x = PairOf(job, r - 1, y)
    <3> SUFFICES ASSUME NEW t \in Wide(lev)
                 PROVE  x \in Range(parts[t]) <=>
                           \E r \in 1..m : \E y \in Prefix(job, queries[r], t, lev) :
                              FirstLevel(job, queries[r], K - 1) = lev /\ x = PairOf(job, r - 1, y)
      OBVIOUS
    <3>1. x \in Range(parts[t]) <=>
             \E r \in 1..m : \E y \in Prefix(job, queries[r], t, lev) : first[r] = lev /\ x = PairOf(job, r - 1, y)
      BY <1>10
    <3> QED
      BY ONLY <1>2, <3>1
  <2>2. x \in Range(FlattenSeq(parts)) <=> \E t \in Wide(lev) : x \in Range(parts[t])
    BY <1>13
  <2> QED
    BY ONLY <2>1, <2>2, Zenon
<1>15. Brings(job, FlattenSeq(parts), queries, lev, m)
  BY ONLY <1>12, <1>14 DEF Brings
<1> QED
  BY ONLY <1>1, <1>15 DEF parts

\* The widened candidates of one query, by its level.
LEMMA Widened1Facts ==
    ASSUME NEW job, NEW q
    PROVE  /\ FirstLevel(job, q, K - 1) \in 1..K
           /\ \A y : y \in Widened1(job, q) <=>
                 \E t \in Wide(FirstLevel(job, q, K - 1)) : y \in Prefix(job, q, t, FirstLevel(job, q, K - 1))
           /\ Widened1(job, q) \in SUBSET (0..(job.n - 1))
<1> DEFINE lev == FirstLevel(job, q, K - 1)
           wide == IF lev < K THEN Tables ELSE {1}
<1>1. lev \in 1..K
  <2>1. K - 1 \in 0..(K - 1)
    BY HashTypes
  <2> QED
    BY <2>1, FirstLevelGrows
<1>2. Widened1(job, q) = UNION {Prefix(job, q, t, lev) : t \in wide}
  BY DEF Widened1, FirstLevel
<1>3. wide = Wide(lev)
  <2>1. 1..1 = {1} /\ Tables = 1..L
    BY DEF Tables
  <2>2. Wide(lev) = 1..(IF lev < K THEN L ELSE 1)
    BY DEF Wide
  <2> HIDE DEF lev
  <2>3. CASE lev < K
    BY <2>1, <2>2, <2>3
  <2>4. CASE ~(lev < K)
    BY <2>1, <2>2, <2>4
  <2> QED
    BY <2>3, <2>4
<1> HIDE DEF lev, wide
<1>4. \A y : y \in Widened1(job, q) <=> \E t \in Wide(lev) : y \in Prefix(job, q, t, lev)
  BY ONLY <1>2, <1>3
<1>5. Widened1(job, q) \in SUBSET (0..(job.n - 1))
  <2>1. \A t : Prefix(job, q, t, lev) \subseteq 0..(job.n - 1)
    BY DEF Prefix, InKeys
  <2> QED
    BY <1>4, <2>1
<1> QED
  BY <1>1, <1>4, <1>5 DEF lev

\* _relaxed_query: each short row gets what it would get alone.
LEMMA RelaxedFacts ==
    ASSUME NEW job, RowJobOK(job), NEW m \in Nat, NEW queries \in [1..m -> DOMAIN job.own]
    PROVE  RelaxedRows(job, queries, ExcludesOf(job, queries))
              = [r \in 1..m |-> Padded1(Nearest1(job, queries[r], Widened1(job, queries[r])), job.k)]
<1> DEFINE chunks == [lev \in Digits |-> Pass(job, queries, lev)]
           cand == [r \in 1..m |-> Widened1(job, queries[r])]
           first(r) == FirstLevel(job, queries[r], K - 1)
<1>1. K \in Nat /\ Digits = 1..K /\ job.n \in Nat \ {0}
  BY HashTypes DEF Digits, RowJobOK
<1>2. ASSUME NEW lev \in 1..K
      PROVE  /\ chunks[lev] \in Seq(Nat)
             /\ \A x : x \in Range(chunks[lev]) <=>
                   \E t \in Wide(lev) : \E r \in 1..m : \E y \in Prefix(job, queries[r], t, lev) :
                      first(r) = lev /\ x = PairOf(job, r - 1, y)
  <2>1. chunks[lev] = Pass(job, queries, lev)
    BY <1>1
  <2>2. Brings(job, Pass(job, queries, lev), queries, lev, m)
    BY PassFacts
  <2> HIDE DEF chunks
  <2> QED
    BY ONLY <2>1, <2>2 DEF Brings
<1>3. chunks \in [1..K -> Seq(Nat)]
  <2>1. chunks = [lev \in 1..K |-> chunks[lev]]
    BY <1>1
  <2> HIDE DEF chunks, first
  <2> QED
    BY <1>2, <2>1
<1>4. RelaxedRows(job, queries, ExcludesOf(job, queries))
        = FinishTopk(job, queries, ExcludesOf(job, queries), Decoded(job, chunks))
  BY DEF RelaxedRows
<1> HIDE DEF chunks
<1>5. \A r \in 1..m : /\ first(r) \in 1..K
                      /\ \A y : y \in cand[r] <=> \E t \in Wide(first(r)) : y \in Prefix(job, queries[r], t, first(r))
                      /\ cand[r] \in SUBSET (0..(job.n - 1))
  BY Widened1Facts
<1>6. cand \in [1..m -> SUBSET (0..(job.n - 1))] /\ \A r \in 1..m : cand[r] = Widened1(job, queries[r])
  BY <1>5
<1> HIDE DEF cand, first
<1>7. ASSUME NEW x
      PROVE  (\E lev \in 1..K : x \in Range(chunks[lev])) <=> \E r \in 1..m : \E y \in cand[r] : x = PairOf(job, r - 1, y)
  <2>1. ASSUME NEW lev \in 1..K, x \in Range(chunks[lev])
        PROVE  \E r \in 1..m : \E y \in cand[r] : x = PairOf(job, r - 1, y)
    <3>1. \E t \in Wide(lev) : \E r \in 1..m : \E y \in Prefix(job, queries[r], t, lev) :
             first(r) = lev /\ x = PairOf(job, r - 1, y)
      BY ONLY <1>2, <2>1
    <3>2. PICK t \in Wide(lev) : \E r \in 1..m : \E y \in Prefix(job, queries[r], t, lev) :
             first(r) = lev /\ x = PairOf(job, r - 1, y)
      BY ONLY <3>1
    <3>3. PICK r \in 1..m : \E y \in Prefix(job, queries[r], t, lev) : first(r) = lev /\ x = PairOf(job, r - 1, y)
      BY ONLY <3>2
    <3>4. PICK y \in Prefix(job, queries[r], t, lev) : first(r) = lev /\ x = PairOf(job, r - 1, y)
      BY ONLY <3>3
    <3>5. t \in Wide(first(r)) /\ y \in Prefix(job, queries[r], t, first(r))
      BY ONLY <3>4, t \in Wide(lev), y \in Prefix(job, queries[r], t, lev)
    <3>6. y \in cand[r]
      BY ONLY <1>5, <3>5, r \in 1..m
    <3> QED
      BY ONLY <3>4, <3>6, r \in 1..m
  <2>2. ASSUME NEW r \in 1..m, NEW y \in cand[r], x = PairOf(job, r - 1, y)
        PROVE  \E lev \in 1..K : x \in Range(chunks[lev])
    <3>1. PICK t \in Wide(first(r)) : y \in Prefix(job, queries[r], t, first(r))
      BY ONLY <1>5, r \in 1..m, y \in cand[r]
    <3> DEFINE lev == first(r)
    <3>2. lev \in 1..K /\ t \in Wide(lev) /\ y \in Prefix(job, queries[r], t, lev) /\ first(r) = lev
      BY <1>5, <3>1
    <3> HIDE DEF lev
    <3>3. \E t2 \in Wide(lev) : \E r2 \in 1..m : \E y2 \in Prefix(job, queries[r2], t2, lev) :
             first(r2) = lev /\ x = PairOf(job, r2 - 1, y2)
      BY ONLY <2>2, <3>2, r \in 1..m
    <3>4. x \in Range(chunks[lev])
      BY ONLY <1>2, <3>2, <3>3
    <3> QED
      BY ONLY <3>2, <3>4
  <2> QED
    BY ONLY <2>1, <2>2
<1>8. Pairs(job, Decoded(job, chunks), m, cand)
  BY ONLY <1>1, <1>3, <1>6, <1>7, m \in Nat, DecodedFacts
<1>9. FinishTopk(job, queries, ExcludesOf(job, queries), Decoded(job, chunks))
        = [r \in 1..m |-> Padded1(Nearest1(job, queries[r], cand[r]), job.k)]
  <2>1. Shortlists(job, cand, m)
    BY <1>6 DEF Shortlists
  <2> DEFINE pairs == Decoded(job, chunks)
  <2>2. Pairs(job, pairs, m, cand)
    BY <1>8
  <2> HIDE DEF pairs
  <2>3. FinishTopk(job, queries, ExcludesOf(job, queries), pairs)
          = [r \in 1..m |-> Padded1(Nearest1(job, queries[r], cand[r]), job.k)]
    BY ONLY <2>1, <2>2, RowJobOK(job), m \in Nat, queries \in [1..m -> DOMAIN job.own], FinishFacts
  <2> QED
    BY <2>3 DEF pairs
<1>10. \A r \in 1..m : Padded1(Nearest1(job, queries[r], cand[r]), job.k)
                        = Padded1(Nearest1(job, queries[r], Widened1(job, queries[r])), job.k)
  BY <1>6
<1> QED
  BY ONLY <1>4, <1>9, <1>10

\* The queries of a block.
LEMMA BlockQueries ==
    ASSUME NEW job, RowJobOK(job), NEW d \in 1..Blocks(job)
    PROVE  /\ BlockLen(job, d) \in Nat
           /\ QueriesOf(job, d) \in [1..BlockLen(job, d) -> DOMAIN job.own]
           /\ \A r \in 1..BlockLen(job, d) : QueriesOf(job, d)[r] = StartOf(job, d) + r
           /\ DOMAIN job.own = 1..Len(job.own)
<1>1. DOMAIN job.own = 1..Len(job.own) /\ Len(job.own) \in Nat
  BY DEF RowJobOK
<1>2. StartOf(job, d) \in Nat /\ BlockLen(job, d) \in Nat /\ StartOf(job, d) + BlockLen(job, d) <= Len(job.own)
  BY BlocksTile DEF Blocked
<1>3. \A r \in 1..BlockLen(job, d) : StartOf(job, d) + r \in DOMAIN job.own
  BY <1>1, <1>2
<1>4. QueriesOf(job, d) = [r \in 1..BlockLen(job, d) |-> StartOf(job, d) + r]
  BY DEF QueriesOf
<1> QED
  BY ONLY <1>1, <1>2, <1>3, <1>4

\* The candidates of a block's queries.
ProbedBy(job, queries, m) == [r \in 1..m |-> Probed1(job, queries[r])]

\* They are ids of the index.
LEMMA ProbedCandidates ==
    ASSUME NEW job, NEW queries, NEW m PROVE Shortlists(job, ProbedBy(job, queries, m), m)
<1>1. \A q : Probed1(job, q) \subseteq 0..(job.n - 1)
  <2>1. \A q : \A y : y \in Probed1(job, q) <=> \E t \in Tables : y \in InKeys(job, t, Range(job.probed[q][t]))
    BY DEF Probed1
  <2> QED
    BY ONLY <2>1 DEF InKeys
<1> QED
  BY <1>1 DEF Shortlists, ProbedBy

\* The rows of a batch before any is widened.
FirstRow(job, q) == Padded1(Nearest1(job, q, Probed1(job, q)), job.k)

\* The blocks' rows, end to end, are the rows each query gets alone.
LEMMA BlockRowsFacts ==
    ASSUME NEW job, RowJobOK(job)
    PROVE  FlattenSeq([d \in 1..Blocks(job) |-> BlockRows(job, d)]) = [q \in 1..Len(job.own) |-> FirstRow(job, q)]
<1> DEFINE N == Len(job.own)
           f == [q \in 1..N |-> FirstRow(job, q)]
           T == {f[q] : q \in 1..N}
           rows == [d \in 1..Blocks(job) |-> BlockRows(job, d)]
<1>1. Blocked(job)
  BY BlocksTile
<1>2. \A d \in 1..Blocks(job) : /\ StartOf(job, d) \in Nat /\ BlockLen(job, d) \in Nat
                                /\ StartOf(job, d) + BlockLen(job, d) <= N
  BY <1>1 DEF Blocked
<1>3. N \in Nat
  BY <1>1 DEF Blocked
<1>4. f \in [1..N -> T] /\ \A q \in 1..N : f[q] = FirstRow(job, q)
  OBVIOUS
<1> HIDE DEF f, T
<1>5. ASSUME NEW d \in 1..Blocks(job)
      PROVE  /\ rows[d] = [r \in 1..BlockLen(job, d) |-> f[StartOf(job, d) + r]]
             /\ \A r \in 1..BlockLen(job, d) : f[StartOf(job, d) + r] \in T
  <2> DEFINE m == BlockLen(job, d)
             queries == QueriesOf(job, d)
             cand == ProbedBy(job, queries, m)
             pairs == GatherPairs(job, queries)
  <2>1. m \in Nat /\ queries \in [1..m -> DOMAIN job.own] /\ \A r \in 1..m : queries[r] = StartOf(job, d) + r
    BY BlockQueries
  <2>2. rows[d] = FinishTopk(job, queries, ExcludesOf(job, queries), pairs)
    BY DEF BlockRows
  <2>3. pairs = GatherPairs(job, queries)
    OBVIOUS
  <2> HIDE DEF m, queries, pairs, rows
  <2>4. cand = [r \in 1..m |-> Probed1(job, queries[r])]
    BY DEF ProbedBy
  <2>5. Shortlists(job, cand, m)
    BY ProbedCandidates
  <2> HIDE DEF cand
  <2>6. Pairs(job, pairs, m, cand)
    BY ONLY <2>1, <2>3, <2>4, RowJobOK(job), GatherFacts
  <2>7. FinishTopk(job, queries, ExcludesOf(job, queries), pairs)
          = [r \in 1..m |-> Padded1(Nearest1(job, queries[r], cand[r]), job.k)]
    <3>1. m \in Nat /\ queries \in [1..m -> DOMAIN job.own]
      BY <2>1
    <3> QED
      BY ONLY <3>1, <2>5, <2>6, RowJobOK(job), FinishFacts
  <2>8. \A r \in 1..m : StartOf(job, d) + r \in 1..N
    BY <1>2, <1>3, <2>1 DEF m
  <2>9. \A r \in 1..m : /\ Padded1(Nearest1(job, queries[r], cand[r]), job.k) = f[StartOf(job, d) + r]
                        /\ f[StartOf(job, d) + r] \in T
    <3> SUFFICES ASSUME NEW r \in 1..m
                 PROVE  /\ Padded1(Nearest1(job, queries[r], cand[r]), job.k) = f[StartOf(job, d) + r]
                        /\ f[StartOf(job, d) + r] \in T
      OBVIOUS
    <3>1. f[StartOf(job, d) + r] = FirstRow(job, StartOf(job, d) + r) /\ f[StartOf(job, d) + r] \in T
      BY <1>4, <2>8
    <3>2. queries[r] = StartOf(job, d) + r /\ cand[r] = Probed1(job, queries[r])
      BY <2>1, <2>4
    <3> QED
      BY ONLY <3>1, <3>2 DEF FirstRow
  <2> QED
    BY ONLY <2>2, <2>7, <2>9 DEF m
<1> DEFINE many == Blocks(job)
<1>6. rows = [d \in 1..many |-> rows[d]]
  OBVIOUS
<1> HIDE DEF rows
<1>7. \A d \in 1..Blocks(job) : rows[d] \in Seq(T)
  <2> SUFFICES ASSUME NEW d \in 1..Blocks(job) PROVE rows[d] \in Seq(T)
    OBVIOUS
  <2> DEFINE len == BlockLen(job, d)
             part == [r \in 1..len |-> f[StartOf(job, d) + r]]
  <2>1. len \in Nat /\ \A r \in 1..len : f[StartOf(job, d) + r] \in T
    BY <1>2, <1>5
  <2> HIDE DEF len
  <2>2. part \in [1..len -> T]
    BY ONLY <2>1
  <2>3. part \in Seq(T)
    BY ONLY <2>1, <2>2
  <2> QED
    BY <1>5, <2>3 DEF len
<1>8. rows \in [1..Blocks(job) -> Seq(T)]
  BY ONLY <1>6, <1>7 DEF many
<1>9. CutInto(job, rows, f)
  <2>1. ASSUME NEW d \in 1..Blocks(job)
        PROVE  Len(rows[d]) = BlockLen(job, d) /\ \A r \in 1..BlockLen(job, d) : rows[d][r] = f[StartOf(job, d) + r]
    <3> DEFINE len == BlockLen(job, d)
               part == [r \in 1..len |-> f[StartOf(job, d) + r]]
    <3>1. rows[d] = part /\ len \in Nat
      BY <1>2, <1>5
    <3> HIDE DEF len
    <3>2. Len(part) = len /\ \A r \in 1..len : part[r] = f[StartOf(job, d) + r]
      BY ONLY <3>1
    <3> QED
      BY ONLY <3>1, <3>2 DEF len
  <2> QED
    BY <2>1 DEF CutInto
<1>10. FlattenSeq(rows) = f
  <2>1. f \in [1..Len(job.own) -> T]
    BY <1>4
  <2> QED
    BY ONLY <1>1, <1>8, <1>9, <2>1, BlocksJoin
<1> QED
  BY <1>10 DEF rows, f

\* query_knn in batches and query by query.
LEMMA KnnRows ==
    ASSUME NEW job, RowJobOK(job), NEW q \in DOMAIN job.own
    PROVE  QueryKnn(job)[q] = KnnAlone(job, q)
<1> DEFINE N == Len(job.own)
           rows == FlattenSeq([d \in 1..Blocks(job) |-> BlockRows(job, d)])
           kk == Min({job.k, Reachable1(job)})
           left == {p \in DOMAIN rows : kk > 0 /\ rows[p][kk] = -1}
           short == Ascending(left)
           size == Cardinality(left)
           again == RelaxedRows(job, short, ExcludesOf(job, short))
<1>0. QueryKnn(job) = [p \in DOMAIN rows |->
                          IF p \in Range(short) THEN again[CHOOSE i \in DOMAIN short : short[i] = p] ELSE rows[p]]
  BY DEF QueryKnn
<1>1. rows = [p \in 1..N |-> FirstRow(job, p)]
  BY BlockRowsFacts
<1>2. DOMAIN job.own = 1..N /\ N \in Nat
  BY DEF RowJobOK
<1> HIDE DEF rows
<1>3. \A p \in 1..N : rows[p] = FirstRow(job, p)
  BY <1>1
<1>4. DOMAIN rows = 1..N
  BY <1>1
<1>6. \A p : p \in left <=> p \in 1..N /\ kk > 0 /\ rows[p][kk] = -1
  BY <1>4
<1> HIDE DEF left, kk, N, short, again
<1>5. QueryKnn(job) = [p \in 1..N |-> IF p \in Range(short) THEN again[CHOOSE i \in DOMAIN short : short[i] = p] ELSE rows[p]]
  BY ONLY <1>0, <1>4
<1>7. size \in Nat /\ Lists(short, left, size) /\ DOMAIN short = 1..size
  <2>1. IsFiniteSet(1..N)
    <3>1. 1 \in Int /\ N \in Int
      BY <1>2
    <3> QED
      BY ONLY <3>1, FS_Interval
  <2>2. left \subseteq 1..N /\ \A x \in left : x \in Int
    BY <1>6
  <2>3. IsFiniteSet(left)
    BY ONLY <2>1, <2>2, FS_Subset
  <2>4. /\ Cardinality(left) \in Nat
        /\ Lists(Ordered(left, Below), left, Cardinality(left))
        /\ DOMAIN Ordered(left, Below) = 1..Cardinality(left)
    BY ONLY <2>2, <2>3, AscendingFacts
  <2> QED
    BY <2>4 DEF Ascending, short
<1>8. short \in [1..size -> left] /\ \A p \in left : \E i \in 1..size : short[i] = p
  BY <1>7 DEF Lists
<1> HIDE DEF size
<1>9. short \in [1..size -> DOMAIN job.own]
  BY <1>2, <1>6, <1>8
<1>10. again = [r \in 1..size |-> Padded1(Nearest1(job, short[r], Widened1(job, short[r])), job.k)]
  BY ONLY <1>7, <1>9, RowJobOK(job), RelaxedFacts DEF again
<1>11. q \in 1..N
  BY <1>2
<1>12. CASE q \in left
  <2>1. \E i \in 1..size : short[i] = q
    BY <1>8, <1>12
  <2>2. q \in Range(short)
    BY <1>7, <2>1 DEF Range
  <2> DEFINE spot == CHOOSE i \in 1..size : short[i] = q
  <2>3. spot \in 1..size /\ short[spot] = q
    BY <2>1
  <2>4. QueryKnn(job)[q] = again[CHOOSE i \in 1..size : short[i] = q]
    BY <1>5, <1>7, <1>11, <2>2
  <2> HIDE DEF spot
  <2>5. again[spot] = Padded1(Nearest1(job, q, Widened1(job, q)), job.k)
    BY ONLY <1>10, <2>3
  <2>6. kk > 0 /\ FirstRow(job, q)[kk] = -1
    BY <1>3, <1>6, <1>12
  <2>7. KnnAlone(job, q) = Padded1(Nearest1(job, q, Widened1(job, q)), job.k)
    BY <2>6 DEF KnnAlone, FirstRow, kk
  <2> QED
    BY <2>4, <2>5, <2>7 DEF spot
<1>13. CASE q \notin left
  <2>1. q \notin Range(short)
    <3> SUFFICES ASSUME q \in Range(short) PROVE FALSE
      OBVIOUS
    <3>1. PICK i \in 1..size : short[i] = q
      BY <1>7 DEF Range
    <3> QED
      BY <1>8, <1>13, <3>1
  <2>2. QueryKnn(job)[q] = FirstRow(job, q)
    BY <1>3, <1>5, <1>11, <2>1
  <2>3. ~(kk > 0 /\ FirstRow(job, q)[kk] = -1)
    BY <1>3, <1>6, <1>11, <1>13
  <2>4. KnnAlone(job, q) = FirstRow(job, q)
    BY <2>3 DEF KnnAlone, FirstRow, kk
  <2> QED
    BY <2>2, <2>4
<1> QED
  BY <1>12, <1>13

\* What a query finds within the radius, and the lists of a block's queries.
Within(job, q) == {i \in Probed1(job, q) : job.gap[q][i + 1] <= job.radius}
AloneIn(job, d) == [r \in 1..BlockLen(job, d) |-> RadiusAlone(job, StartOf(job, d) + r)]
HitRows(job, d, near, hits) ==
    /\ near = AloneIn(job, d)
    /\ near \in [1..BlockLen(job, d) -> Seq(0..(job.n - 1))]
    /\ hits = FlattenSeq(RowsOf(near))

\* The hits of a block, ranked, are its queries' lists end to end.
LEMMA HitsFacts ==
    ASSUME NEW job, RowJobOK(job), NEW d \in 1..Blocks(job)
    PROVE  HitRows(job, d, AloneIn(job, d), HitsOf(job, d))
<1> DEFINE m == BlockLen(job, d)
           queries == QueriesOf(job, d)
           probed == ProbedBy(job, queries, m)
           cand == [r \in 1..m |-> Within(job, queries[r])]
           all == Lefts(job, queries, probed, m)
           left == Lefts(job, queries, cand, m)
           near == AloneIn(job, d)
           pairs == Kept1(ExcludesOf(job, queries), GatherPairs(job, queries))
           places == {i \in DOMAIN pairs : job.gap[queries[pairs[i].row + 1]][pairs[i].id + 1] <= job.radius}
<1>0. HitsOf(job, d) = InRankOrder(job, queries, Picked(pairs, places))
  BY DEF HitsOf
<1>1. m \in Nat /\ queries \in [1..m -> DOMAIN job.own] /\ \A r \in 1..m : queries[r] = StartOf(job, d) + r
  BY BlockQueries
<1>2. near = [r \in 1..m |-> RadiusAlone(job, StartOf(job, d) + r)]
  BY DEF AloneIn
<1> HIDE DEF m, queries, near
<1>3. probed = [r \in 1..m |-> Probed1(job, queries[r])] /\ Shortlists(job, probed, m)
  BY ProbedCandidates DEF ProbedBy
<1>4. \A r \in 1..m : probed[r] = Probed1(job, queries[r]) /\ probed[r] \in SUBSET (0..(job.n - 1))
  BY <1>3 DEF Shortlists
<1> HIDE DEF probed
<1>5. Pairs(job, pairs, m, all)
  <2> DEFINE got == GatherPairs(job, queries)
  <2>1. Pairs(job, got, m, probed)
    BY ONLY <1>1, <1>3, RowJobOK(job), GatherFacts
  <2> HIDE DEF got
  <2>2. Pairs(job, Kept1(ExcludesOf(job, queries), got), m, Lefts(job, queries, probed, m))
    <3>1. m \in Nat /\ queries \in [1..m -> DOMAIN job.own] /\ Shortlists(job, probed, m)
      BY <1>1, <1>3
    <3> QED
      BY ONLY <2>1, <3>1, RowJobOK(job), KeptPairs
  <2> QED
    BY <2>2 DEF got
<1> HIDE DEF pairs
<1>6. /\ DOMAIN pairs = 1..Len(pairs)
      /\ \A i \in 1..Len(pairs) : pairs[i].row + 1 \in 1..m /\ pairs[i].id \in all[pairs[i].row + 1]
  <2> DEFINE X == PairType(job)
  <2>1. pairs \in Seq(X)
    BY <1>5 DEF Pairs
  <2> HIDE DEF X
  <2>2. DOMAIN pairs = 1..Len(pairs)
    BY ONLY <2>1
  <2> QED
    BY <1>5, <2>2 DEF Pairs
<1>7. \A r \in 1..m : \A y : y \in left[r] <=> y \in all[r] /\ job.gap[queries[r]][y + 1] <= job.radius
  <2>1. \A r \in 1..m : \A y : y \in all[r] <=> y \in Probed1(job, queries[r]) /\ y # Excluded1(job, queries[r])
    BY <1>4 DEF Lefts, Rivals
  <2>2. \A r \in 1..m : \A y : y \in left[r] <=> y \in Within(job, queries[r]) /\ y # Excluded1(job, queries[r])
    BY DEF Lefts, Rivals
  <2> QED
    BY ONLY <2>1, <2>2 DEF Within
<1>8. Shortlists(job, cand, m) /\ \A r \in 1..m : cand[r] = Within(job, queries[r])
  <2>1. \A r \in 1..m : Within(job, queries[r]) \in SUBSET (0..(job.n - 1))
    BY <1>4 DEF Within
  <2> QED
    BY <2>1 DEF Shortlists
<1> HIDE DEF all, cand
<1>9. Ordering(job, near, m, queries, left)
  <2>1. near = [r \in 1..m |-> Nearest1(job, queries[r], cand[r])]
    <3>1. \A r \in 1..m : RadiusAlone(job, StartOf(job, d) + r) = Nearest1(job, queries[r], cand[r])
      <4> SUFFICES ASSUME NEW r \in 1..m
                   PROVE  RadiusAlone(job, StartOf(job, d) + r) = Nearest1(job, queries[r], cand[r])
        OBVIOUS
      <4>1. queries[r] = StartOf(job, d) + r /\ cand[r] = Within(job, queries[r])
        BY <1>1, <1>8
      <4> DEFINE q == queries[r]
      <4> HIDE DEF q
      <4>2. RadiusAlone(job, q) = Nearest1(job, q, Within(job, q))
        BY DEF RadiusAlone, Within
      <4> QED
        BY ONLY <4>1, <4>2 DEF q
    <3> QED
      BY ONLY <1>2, <3>1
  <2>2. m \in Nat /\ queries \in [1..m -> DOMAIN job.own] /\ Shortlists(job, cand, m)
    BY <1>1, <1>8
  <2> QED
    BY ONLY <2>1, <2>2, RowJobOK(job), RowLists DEF left
<1> HIDE DEF left
<1>10. Pairs(job, Picked(pairs, places), m, left)
  <2>1. places = {i \in 1..Len(pairs) : pairs[i].id \in left[pairs[i].row + 1]}
    <3>1. \A i \in 1..Len(pairs) :
             job.gap[queries[pairs[i].row + 1]][pairs[i].id + 1] <= job.radius <=> pairs[i].id \in left[pairs[i].row + 1]
      BY <1>6, <1>7
    <3> QED
      BY <1>6, <3>1
  <2>2. \A r \in 1..m : left[r] \subseteq all[r]
    BY <1>7
  <2>3. m \in Nat
    BY <1>1
  <2> HIDE DEF places
  <2> QED
    BY ONLY <1>5, <2>1, <2>2, <2>3, PickedPairs
<1>11. InRankOrder(job, queries, Picked(pairs, places)) = FlattenSeq(RowsOf(near))
  <2> DEFINE some == Picked(pairs, places)
  <2>1. Pairs(job, some, m, left)
    BY <1>10
  <2> HIDE DEF some
  <2>2. m \in Nat /\ queries \in [1..m -> DOMAIN job.own]
    BY <1>1
  <2>3. InRankOrder(job, queries, some) = FlattenSeq(RowsOf(near))
    BY ONLY <1>9, <2>1, <2>2, RowJobOK(job), RankedAreRows
  <2> QED
    BY <2>3 DEF some
<1>12. near \in [1..m -> Seq(0..(job.n - 1))]
  BY <1>9 DEF Ordering
<1>13. HitsOf(job, d) = FlattenSeq(RowsOf(near))
  BY ONLY <1>0, <1>11
<1> QED
  BY ONLY <1>12, <1>13 DEF HitRows, near, m

-----------------------------------------------------------------------------
\* Sums of a part, from where it starts.
LEMMA SumsFrom ==
    ASSUME NEW s \in Nat, NEW len \in Nat, NEW f, \A i \in 1..(s + len) : f[i] \in Int,
           NEW g, \A j \in 1..len : g[j] = f[s + j]
    PROVE  \A r \in 0..len : SumTo(f, s + r) = SumTo(f, s) + SumTo(g, r)
<1> DEFINE N == s + len
<1>1. N \in Nat /\ s \in 0..N /\ \A r \in 0..len : s + r \in 0..N
  OBVIOUS
<1>2. \A i \in 1..N : f[i] \in Int
  OBVIOUS
<1>3. \A j \in 1..len : g[j] \in Int /\ g[j] = f[s + j]
  <2>1. \A j \in 1..len : s + j \in 1..N
    OBVIOUS
  <2> QED
    BY <1>2, <2>1
<1> HIDE DEF N
<1>4. /\ \A i \in 0..N : SumTo(f, i) \in Int
      /\ \A i \in 1..N : SumTo(f, i) = SumTo(f, i - 1) + f[i]
  BY ONLY <1>1, <1>2, SumAt
<1>5. /\ SumTo(g, 0) = 0
      /\ \A i \in 0..len : SumTo(g, i) \in Int
      /\ \A i \in 1..len : SumTo(g, i) = SumTo(g, i - 1) + g[i]
  <2>1. len \in Nat /\ \A i \in 1..len : g[i] \in Int
    BY <1>3
  <2> QED
    BY ONLY <2>1, SumAt
<1> DEFINE Bad == {r \in 0..len : SumTo(f, s + r) # SumTo(f, s) + SumTo(g, r)}
<1>6. Bad = {}
  <2> SUFFICES ASSUME Bad # {} PROVE FALSE
    OBVIOUS
  <2>1. PICK r \in Bad : \A x \in Bad : r <= x
    <3>1. Bad \in SUBSET Nat
      OBVIOUS
    <3> HIDE DEF Bad
    <3> QED
      BY <3>1, LeastNatural
  <2>2. r \in 0..len /\ SumTo(f, s + r) # SumTo(f, s) + SumTo(g, r)
    OBVIOUS
  <2>3. CASE r = 0
    <3>1. s + r = s
      BY <2>3
    <3>2. SumTo(f, s) \in Int
      BY <1>1, <1>4
    <3> QED
      BY <1>5, <2>2, <2>3, <3>1, <3>2
  <2>4. CASE r # 0
    <3> DEFINE a1 == r - 1
               p == s + r
    <3>1. a1 \in 0..len /\ ~(r <= a1) /\ r \in 1..len /\ p \in 1..N /\ p - 1 = s + a1
      BY <2>2, <2>4 DEF N
    <3>2. SumTo(f, s + a1) = SumTo(f, s) + SumTo(g, a1)
      <4> HIDE DEF a1
      <4> QED
        BY <2>1, <3>1
    <3>3. SumTo(f, p) = SumTo(f, p - 1) + f[p]
      BY <1>4, <3>1
    <3>4. SumTo(g, r) = SumTo(g, r - 1) + g[r] /\ g[r] = f[s + r] /\ g[r] \in Int
      BY <1>3, <1>5, <3>1
    <3>5. SumTo(f, s) \in Int /\ SumTo(g, a1) \in Int
      BY <1>1, <1>4, <1>5, <3>1
    <3>6. SumTo(f, p - 1) = SumTo(f, s) + SumTo(g, a1)
      BY ONLY <3>1, <3>2
    <3>7. SumTo(f, s + r) = SumTo(f, s + r - 1) + f[s + r] /\ SumTo(f, s + r - 1) = SumTo(f, s) + SumTo(g, r - 1)
      BY ONLY <3>3, <3>6 DEF p, a1
    <3> QED
      BY ONLY <2>2, <3>4, <3>5, <3>7 DEF a1
  <2> QED
    BY <2>3, <2>4
<1> QED
  BY <1>6

\* The batch's lists, and where each begins among those of all blocks.
Lists1(job) == [q \in 1..Len(job.own) |-> RadiusAlone(job, q)]

\* They are lists of ids, and a block's lists are a stretch of them.
LEMMA ListsType ==
    ASSUME NEW job, RowJobOK(job)
    PROVE  /\ Lists1(job) \in [1..Len(job.own) -> Seq(0..(job.n - 1))]
           /\ Len(job.own) \in Nat
           /\ \A q \in 1..Len(job.own) : Lists1(job)[q] = RadiusAlone(job, q)
           /\ \A d \in 1..Blocks(job) : \A r \in 1..BlockLen(job, d) :
                 StartOf(job, d) + r \in 1..Len(job.own) /\ AloneIn(job, d)[r] = Lists1(job)[StartOf(job, d) + r]
<1> DEFINE N == Len(job.own)
           X == Seq(0..(job.n - 1))
<1>1. /\ N \in Nat
      /\ \A d \in 1..Blocks(job) : /\ StartOf(job, d) \in Nat /\ BlockLen(job, d) \in Nat
                                   /\ StartOf(job, d) + BlockLen(job, d) <= N
  BY BlocksTile DEF Blocked
<1>2. \A d \in 1..Blocks(job) : \A r \in 1..BlockLen(job, d) :
         StartOf(job, d) + r \in 1..N /\ AloneIn(job, d)[r] = RadiusAlone(job, StartOf(job, d) + r)
  BY <1>1 DEF AloneIn
<1>3. ASSUME NEW q \in 1..N PROVE RadiusAlone(job, q) \in X
  <2>1. PICK d \in 1..Blocks(job) : \E r \in 1..BlockLen(job, d) : q = StartOf(job, d) + r
    BY BlocksTile, InSomeBlock
  <2>2. PICK r \in 1..BlockLen(job, d) : q = StartOf(job, d) + r
    BY <2>1
  <2>3. AloneIn(job, d) \in [1..BlockLen(job, d) -> X]
    BY HitsFacts DEF HitRows
  <2>4. AloneIn(job, d)[r] = RadiusAlone(job, q)
    BY <1>2, <2>2
  <2> HIDE DEF X
  <2> QED
    BY <2>3, <2>4
<1> HIDE DEF N, X
<1>4. Lists1(job) \in [1..N -> X] /\ \A q \in 1..N : Lists1(job)[q] = RadiusAlone(job, q)
  BY <1>3 DEF Lists1, N
<1> QED
  BY <1>1, <1>2, <1>4 DEF N, X

\* The hits of one block among its queries' lists.
BlockHits(job, d, near, hits, m) ==
    /\ hits \in Seq(PairType(job)) /\ near \in [1..m -> Seq(0..(job.n - 1))]
    /\ Len(hits) = SumTo(Lens(near), m)
    /\ Placed(hits, near, m)
    /\ \A r \in 1..m : Len(near[r]) \in Nat
    /\ \A r \in 0..m : SumTo(Lens(near), r) \in Nat

\* The hits of a block, end to end, are its queries' lists.
LEMMA BlockHitsFacts ==
    ASSUME NEW job, RowJobOK(job), NEW d \in 1..Blocks(job)
    PROVE  BlockHits(job, d, AloneIn(job, d), HitsOf(job, d), BlockLen(job, d))
<1> DEFINE m == BlockLen(job, d)
           near == AloneIn(job, d)
           hits == HitsOf(job, d)
           rows == RowsOf(near)
<1>1. near \in [1..m -> Seq(0..(job.n - 1))] /\ hits = FlattenSeq(rows)
  BY HitsFacts DEF HitRows
<1>2. m \in Nat
  BY BlockQueries
<1> HIDE DEF m, near, hits
<1>3. RowsAre(job, RowsOf(near), near, m)
  BY ONLY <1>1, <1>2, RowsOfFacts
<1>4. Placed(FlattenSeq(RowsOf(near)), near, m)
  BY ONLY <1>1, <1>2, PlacedRows
<1> HIDE DEF rows
<1>5. /\ rows \in [1..m -> Seq(PairType(job))]
      /\ \A i \in 0..m : SumTo(Lens(rows), i) = SumTo(Lens(near), i)
  BY <1>3 DEF RowsAre, rows
<1>6. Laid(hits, rows, m, PairType(job))
  BY ONLY <1>1, <1>2, <1>5, FlatFacts
<1>7. m \in 0..m
  BY <1>2
<1>8. hits \in Seq(PairType(job)) /\ Len(hits) = SumTo(Lens(near), m)
  BY ONLY <1>5, <1>6, <1>7 DEF Laid
<1>9. /\ \A r \in 1..m : Len(near[r]) \in Nat
      /\ \A r \in 0..m : SumTo(Lens(near), r) \in Nat
  <2> DEFINE X == 0..(job.n - 1)
  <2>1. near \in [1..m -> Seq(X)]
    BY <1>1
  <2> HIDE DEF X
  <2>2. \A r \in 1..m : Len(near[r]) \in Nat
    BY ONLY <2>1
  <2>3. \A r \in 0..m : SumTo(Lens(near), r) \in Nat
    BY ONLY <1>2, <2>1, LensFacts
  <2> QED
    BY ONLY <2>2, <2>3
<1>10. Placed(hits, near, m)
  BY ONLY <1>1, <1>4 DEF rows
<1> QED
  BY ONLY <1>1, <1>8, <1>9, <1>10 DEF BlockHits, m, near, hits

\* The hits of the blocks and the lists of the queries are as long, up to every block.
HitsBy(job) == [d \in 1..Blocks(job) |-> HitsOf(job, d)]
SumsAgree(job) ==
    /\ HitsBy(job) \in [1..Blocks(job) -> Seq(PairType(job))]
    /\ \A d \in 1..Blocks(job) : SumTo(Lens(HitsBy(job)), d - 1) = SumTo(Lens(Lists1(job)), StartOf(job, d))
    /\ \A d \in 1..Blocks(job) : \A r \in 0..BlockLen(job, d) :
          SumTo(Lens(Lists1(job)), StartOf(job, d) + r)
             = SumTo(Lens(Lists1(job)), StartOf(job, d)) + SumTo(Lens(AloneIn(job, d)), r)
    /\ SumTo(Lens(HitsBy(job)), Blocks(job)) = SumTo(Lens(Lists1(job)), Len(job.own))

\* They are: every block adds to both what its queries found.
LEMMA SumsAgreeFacts ==
    ASSUME NEW job, RowJobOK(job)
    PROVE  SumsAgree(job)
<1> DEFINE many == Blocks(job)
           hits == HitsBy(job)
           lists == Lists1(job)
           N == Len(job.own)
           f == Lens(hits)
           g == Lens(lists)
<1>1. /\ many \in Nat /\ N \in Nat /\ StartOf(job, 1) = 0
      /\ many = 0 => N = 0
      /\ \A d \in 1..many :
            /\ StartOf(job, d) \in Nat /\ BlockLen(job, d) \in Nat
            /\ StartOf(job, d) + BlockLen(job, d) <= N
            /\ d < many => StartOf(job, d + 1) = StartOf(job, d) + BlockLen(job, d)
            /\ d = many => N = StartOf(job, d) + BlockLen(job, d)
  BY BlocksTile DEF Blocked
<1>2. /\ lists \in [1..N -> Seq(0..(job.n - 1))]
      /\ \A d \in 1..many : \A r \in 1..BlockLen(job, d) :
            StartOf(job, d) + r \in 1..N /\ AloneIn(job, d)[r] = lists[StartOf(job, d) + r]
  BY ListsType
<1>3. \A d \in 1..many : BlockHits(job, d, AloneIn(job, d), HitsOf(job, d), BlockLen(job, d))
  BY BlockHitsFacts
<1>4. hits \in [1..many -> Seq(PairType(job))] /\ \A d \in 1..many : hits[d] = HitsOf(job, d)
  <2>1. hits = [d \in 1..many |-> HitsOf(job, d)]
    BY DEF HitsBy
  <2>2. \A d \in 1..many : HitsOf(job, d) \in Seq(PairType(job))
    BY <1>3 DEF BlockHits
  <2> HIDE DEF hits, many
  <2> QED
    BY ONLY <2>1, <2>2
<1> HIDE DEF many, hits, lists, N
<1>5. \A d \in 1..many : f[d] = SumTo(Lens(AloneIn(job, d)), BlockLen(job, d)) /\ f[d] \in Int
  <2> SUFFICES ASSUME NEW d \in 1..many
               PROVE  f[d] = SumTo(Lens(AloneIn(job, d)), BlockLen(job, d)) /\ f[d] \in Int
    OBVIOUS
  <2>1. f[d] = Len(HitsOf(job, d))
    BY <1>4 DEF Lens
  <2>2. BlockLen(job, d) \in 0..BlockLen(job, d)
    BY <1>1
  <2>3. Len(HitsOf(job, d)) = SumTo(Lens(AloneIn(job, d)), BlockLen(job, d))
        /\ SumTo(Lens(AloneIn(job, d)), BlockLen(job, d)) \in Nat
    BY <1>3, <2>2 DEF BlockHits
  <2> HIDE DEF f
  <2> QED
    BY <2>1, <2>3
<1>6. \A q \in 1..N : g[q] = Len(lists[q]) /\ g[q] \in Int
  <2> DEFINE X == 0..(job.n - 1)
  <2>1. lists \in [1..N -> Seq(X)]
    BY <1>2
  <2> HIDE DEF X
  <2>2. \A q \in 1..N : g[q] = Len(lists[q]) /\ Len(lists[q]) \in Nat
    BY ONLY <2>1 DEF Lens
  <2> QED
    BY <2>2
<1> HIDE DEF f, g
<1>7. ASSUME NEW d \in 1..many
      PROVE  \A r \in 0..BlockLen(job, d) :
                SumTo(g, StartOf(job, d) + r) = SumTo(g, StartOf(job, d)) + SumTo(Lens(AloneIn(job, d)), r)
  <2> DEFINE s == StartOf(job, d)
             len == BlockLen(job, d)
             h1 == Lens(AloneIn(job, d))
  <2>1. s \in Nat /\ len \in Nat /\ s + len <= N
    BY <1>1
  <2>2. \A i \in 1..(s + len) : g[i] \in Int
    <3>1. \A i \in 1..(s + len) : i \in 1..N
      BY <1>1, <2>1
    <3> QED
      BY <1>6, <3>1
  <2>3. \A j \in 1..len : h1[j] = g[s + j]
    <3> SUFFICES ASSUME NEW j \in 1..len PROVE h1[j] = g[s + j]
      OBVIOUS
    <3>1. s + j \in 1..N /\ AloneIn(job, d)[j] = lists[s + j]
      BY <1>2
    <3>2. h1[j] = Len(AloneIn(job, d)[j])
      <4>1. DOMAIN AloneIn(job, d) = 1..len
        BY DEF AloneIn
      <4> HIDE DEF len
      <4> QED
        BY <4>1 DEF Lens
    <3>3. g[s + j] = Len(lists[s + j])
      BY <1>6, <3>1
    <3> QED
      BY ONLY <3>1, <3>2, <3>3
  <2> HIDE DEF s, len, h1
  <2>4. \A r \in 0..len : SumTo(g, s + r) = SumTo(g, s) + SumTo(h1, r)
    <3>1. s \in Nat
      BY <2>1
    <3>2. len \in Nat
      BY <2>1
    <3> QED
      BY ONLY <3>1, <3>2, <2>2, <2>3, SumsFrom
  <2> QED
    BY <2>4 DEF s, len, h1
<1>8. /\ SumTo(f, 0) = 0
      /\ \A d \in 1..many : SumTo(f, d) = SumTo(f, d - 1) + f[d]
  <2>1. \A d \in 1..many : f[d] \in Int
    BY <1>5
  <2> QED
    BY ONLY <1>1, <2>1, SumAt
<1>9. SumTo(g, 0) = 0
  <2>1. \A q \in 1..N : g[q] \in Int
    BY <1>6
  <2> QED
    BY ONLY <1>1, <2>1, SumAt
<1>10. \A d \in 1..many : SumTo(g, StartOf(job, d) + BlockLen(job, d)) = SumTo(g, StartOf(job, d)) + f[d]
  <2> SUFFICES ASSUME NEW d \in 1..many
               PROVE  SumTo(g, StartOf(job, d) + BlockLen(job, d)) = SumTo(g, StartOf(job, d)) + f[d]
    OBVIOUS
  <2>1. BlockLen(job, d) \in 0..BlockLen(job, d)
    BY <1>1
  <2>2. SumTo(g, StartOf(job, d) + BlockLen(job, d))
          = SumTo(g, StartOf(job, d)) + SumTo(Lens(AloneIn(job, d)), BlockLen(job, d))
    BY <1>7, <2>1
  <2>3. f[d] = SumTo(Lens(AloneIn(job, d)), BlockLen(job, d))
    BY <1>5
  <2> QED
    BY ONLY <2>2, <2>3
<1> DEFINE Bad == {d \in 1..many : SumTo(f, d - 1) # SumTo(g, StartOf(job, d))}
<1>11. Bad = {}
  <2> SUFFICES ASSUME Bad # {} PROVE FALSE
    OBVIOUS
  <2>1. PICK d \in Bad : \A x \in Bad : d <= x
    <3>1. Bad \in SUBSET Nat
      OBVIOUS
    <3> HIDE DEF Bad
    <3> QED
      BY <3>1, LeastNatural
  <2>2. d \in 1..many /\ SumTo(f, d - 1) # SumTo(g, StartOf(job, d))
    OBVIOUS
  <2>3. CASE d = 1
    BY <1>1, <1>8, <1>9, <2>2, <2>3
  <2>4. CASE d # 1
    <3> DEFINE a1 == d - 1
    <3>1. a1 \in 1..many /\ ~(d <= a1) /\ a1 < many /\ d = a1 + 1
      BY <1>1, <2>2, <2>4
    <3> HIDE DEF a1
    <3>2. SumTo(f, a1 - 1) = SumTo(g, StartOf(job, a1))
      BY <2>1, <3>1
    <3>3. SumTo(f, a1) = SumTo(f, a1 - 1) + f[a1]
      BY <1>8, <3>1
    <3>4. SumTo(g, StartOf(job, a1 + 1)) = SumTo(g, StartOf(job, a1)) + f[a1]
      <4>1. StartOf(job, a1 + 1) = StartOf(job, a1) + BlockLen(job, a1)
        BY <1>1, <3>1
      <4> QED
        BY <1>10, <3>1, <4>1
    <3>5. SumTo(f, d - 1) = SumTo(f, a1)
      BY DEF a1
    <3> QED
      BY ONLY <2>2, <3>1, <3>2, <3>3, <3>4, <3>5
  <2> QED
    BY <2>3, <2>4
<1>12. SumTo(f, many) = SumTo(g, N)
  <2>1. CASE many = 0
    BY <1>1, <1>8, <1>9, <2>1
  <2>2. CASE many # 0
    <3>1. many \in 1..many
      BY <1>1, <2>2
    <3>2. SumTo(f, many - 1) = SumTo(g, StartOf(job, many))
      BY <1>11, <3>1
    <3>3. SumTo(f, many) = SumTo(f, many - 1) + f[many]
      BY <1>8, <3>1
    <3>4. SumTo(g, N) = SumTo(g, StartOf(job, many)) + f[many]
      BY <1>1, <1>10, <3>1
    <3> QED
      BY ONLY <3>2, <3>3, <3>4
  <2> QED
    BY <2>1, <2>2
<1>13. \A d \in 1..many : SumTo(f, d - 1) = SumTo(g, StartOf(job, d))
  BY <1>11
<1> QED
  BY ONLY <1>4, <1>7, <1>12, <1>13 DEF SumsAgree, many, hits, lists, N, f, g

\* The ids of the ragged answer are the queries' lists, one behind another.
IdsFound(job) == LET found == FlattenSeq(HitsBy(job)) IN [i \in DOMAIN found |-> found[i].id]

\* They are, the blocks between them having left no trace.
LEMMA IdsFacts ==
    ASSUME NEW job, RowJobOK(job)
    PROVE  Laid(IdsFound(job), Lists1(job), Len(job.own), 0..(job.n - 1))
<1> DEFINE many == Blocks(job)
           hits == HitsBy(job)
           lists == Lists1(job)
           N == Len(job.own)
           found == FlattenSeq(hits)
           X == 0..(job.n - 1)
           ids == [i \in DOMAIN found |-> found[i].id]
<1>1. /\ hits \in [1..many -> Seq(PairType(job))]
      /\ \A d \in 1..many : SumTo(Lens(hits), d - 1) = SumTo(Lens(lists), StartOf(job, d))
      /\ \A d \in 1..many : \A r \in 0..BlockLen(job, d) :
            SumTo(Lens(lists), StartOf(job, d) + r) = SumTo(Lens(lists), StartOf(job, d)) + SumTo(Lens(AloneIn(job, d)), r)
      /\ SumTo(Lens(hits), many) = SumTo(Lens(lists), N)
  BY SumsAgreeFacts DEF SumsAgree
<1>2. /\ lists \in [1..N -> Seq(X)] /\ N \in Nat
      /\ \A d \in 1..many : \A r \in 1..BlockLen(job, d) :
            StartOf(job, d) + r \in 1..N /\ AloneIn(job, d)[r] = lists[StartOf(job, d) + r]
  BY ListsType
<1>3. \A d \in 1..many : /\ Placed(HitsOf(job, d), AloneIn(job, d), BlockLen(job, d))
                         /\ \A r \in 0..BlockLen(job, d) : SumTo(Lens(AloneIn(job, d)), r) \in Nat
                         /\ \A r \in 1..BlockLen(job, d) : Len(AloneIn(job, d)[r]) \in Nat
  BY BlockHitsFacts DEF BlockHits
<1>4. \A d \in 1..many : hits[d] = HitsOf(job, d)
  BY DEF HitsBy
<1>5. /\ many \in Nat
      /\ \A d \in 1..many : StartOf(job, d) \in Nat /\ BlockLen(job, d) \in Nat
      /\ \A q \in 1..N : \E d \in 1..many : \E r \in 1..BlockLen(job, d) : q = StartOf(job, d) + r
  <2>1. Blocked(job)
    BY BlocksTile
  <2> QED
    BY <2>1, InSomeBlock DEF Blocked
<1> HIDE DEF many, hits, lists, N
<1>6. Laid(found, hits, many, PairType(job))
  BY ONLY <1>1, <1>5, FlatFacts
<1> HIDE DEF found
<1>7. /\ found \in Seq(PairType(job)) /\ Len(found) = SumTo(Lens(lists), N) /\ Len(found) \in Nat /\ DOMAIN found = 1..Len(found)
      /\ \A p \in 1..Len(found) : found[p].id \in X
  <2> DEFINE Y == PairType(job)
  <2>1. found \in Seq(Y) /\ Len(found) = SumTo(Lens(lists), N)
    BY <1>1, <1>6 DEF Laid
  <2>2. \A x \in Y : x.id \in X
    BY DEF PairType
  <2> HIDE DEF Y, X
  <2>3. Len(found) \in Nat /\ DOMAIN found = 1..Len(found) /\ \A p \in 1..Len(found) : found[p] \in Y
    BY ONLY <2>1
  <2> QED
    BY <2>1, <2>2, <2>3 DEF Y
<1> HIDE DEF X
<1>8. ids \in Seq(X) /\ Len(ids) = Len(found) /\ \A p \in 1..Len(found) : ids[p] = found[p].id
  BY ONLY <1>7
<1> HIDE DEF ids
<1>9. ASSUME NEW d \in 1..many, NEW r \in 1..BlockLen(job, d), NEW c \in 1..Len(AloneIn(job, d)[r])
      PROVE  /\ Begin(lists, StartOf(job, d) + r) + c = Begin(hits, d) + (Begin(AloneIn(job, d), r) + c)
             /\ Begin(lists, StartOf(job, d) + r) + c \in 1..Len(found)
             /\ ids[Begin(lists, StartOf(job, d) + r) + c] = lists[StartOf(job, d) + r][c]
  <2> DEFINE s == StartOf(job, d)
             near == AloneIn(job, d)
             j == Begin(near, r) + c
             r1 == r - 1
  <2>1. /\ s \in Nat /\ r \in Nat /\ r1 \in 0..BlockLen(job, d) /\ r = r1 + 1 /\ c \in Nat
    <3>1. s \in Nat /\ BlockLen(job, d) \in Nat /\ Len(near[r]) \in Nat
      BY <1>3, <1>5
    <3> QED
      BY <3>1
  <2>2. SumTo(Lens(lists), s + r1) = SumTo(Lens(hits), d - 1) + SumTo(Lens(near), r1) /\ SumTo(Lens(near), r1) \in Nat
    BY <1>1, <1>3, <2>1
  <2>3. Begin(lists, s + r) = SumTo(Lens(lists), s + r1)
    <3> DEFINE q == s + r
               p1 == q - 1
               p2 == s + r1
    <3>1. p1 = p2
      BY <2>1
    <3> HIDE DEF p2
    <3>2. Begin(lists, q) = SumTo(Lens(lists), p1)
      BY DEF Begin
    <3> HIDE DEF p1, q
    <3>3. Begin(lists, q) = SumTo(Lens(lists), p2)
      BY ONLY <3>1, <3>2
    <3> QED
      BY ONLY <3>3 DEF q, p2
  <2>4. Begin(near, r) = SumTo(Lens(near), r1) /\ Begin(hits, d) = SumTo(Lens(hits), d - 1)
    BY DEF Begin
  <2>5. j \in DOMAIN HitsOf(job, d) /\ HitsOf(job, d)[j] = [row |-> r - 1, id |-> near[r][c]]
    BY <1>3 DEF Placed
  <2>6. j \in 1..Len(hits[d]) /\ hits[d][j].id = near[r][c]
    <3>1. DOMAIN hits[d] = 1..Len(hits[d])
      BY <1>3, <1>4 DEF Placed
    <3> HIDE DEF j
    <3> QED
      BY <1>4, <2>5, <3>1
  <2>7. Begin(hits, d) + j \in 1..Len(found) /\ found[Begin(hits, d) + j] = hits[d][j]
    BY <1>6, <2>6 DEF Laid
  <2>8. near[r] = lists[s + r]
    BY <1>2
  <2>9. SumTo(Lens(hits), d - 1) \in Int
    <3>1. \A i \in 0..many : SumTo(Lens(hits), i) \in Nat
      BY <1>1, <1>5, LensFacts
    <3>2. d - 1 \in 0..many
      BY <1>5
    <3> QED
      BY <3>1, <3>2
  <2> HIDE DEF s, near, r1
  <2>10. Begin(lists, s + r) + c = Begin(hits, d) + j
    BY ONLY <2>1, <2>2, <2>3, <2>4, <2>9 DEF j
  <2> HIDE DEF j
  <2>11. ids[Begin(hits, d) + j] = near[r][c]
    BY <1>8, <2>6, <2>7
  <2> QED
    BY ONLY <2>7, <2>8, <2>10, <2>11 DEF s, near, j
<1>10. ASSUME NEW q \in 1..N, NEW c \in 1..Len(lists[q])
       PROVE  Begin(lists, q) + c \in 1..Len(ids) /\ ids[Begin(lists, q) + c] = lists[q][c]
  <2>1. PICK d \in 1..many : \E r \in 1..BlockLen(job, d) : q = StartOf(job, d) + r
    BY <1>5
  <2>2. PICK r \in 1..BlockLen(job, d) : q = StartOf(job, d) + r
    BY <2>1
  <2>3. c \in 1..Len(AloneIn(job, d)[r])
    BY <1>2, <2>2
  <2> QED
    BY <1>8, <1>9, <2>2, <2>3
<1>11. ASSUME NEW p \in 1..Len(ids)
       PROVE  \E q \in 1..N : \E c \in 1..Len(lists[q]) : p = Begin(lists, q) + c
  <2>1. PICK d \in 1..many : \E j \in 1..Len(hits[d]) : p = Begin(hits, d) + j
    BY <1>6, <1>8 DEF Laid
  <2>2. PICK j \in 1..Len(hits[d]) : p = Begin(hits, d) + j
    BY <2>1
  <2>3. j \in DOMAIN HitsOf(job, d)
    BY <1>3, <1>4 DEF Placed
  <2>4. PICK r \in 1..BlockLen(job, d) : \E c \in 1..Len(AloneIn(job, d)[r]) : j = Begin(AloneIn(job, d), r) + c
    BY <1>3, <2>3 DEF Placed
  <2>5. PICK c \in 1..Len(AloneIn(job, d)[r]) : j = Begin(AloneIn(job, d), r) + c
    BY <2>4
  <2>6. StartOf(job, d) + r \in 1..N /\ AloneIn(job, d)[r] = lists[StartOf(job, d) + r]
    BY <1>2
  <2>7. p = Begin(lists, StartOf(job, d) + r) + c
    BY <1>9, <2>2, <2>5
  <2> DEFINE q == StartOf(job, d) + r
  <2>8. q \in 1..N /\ c \in 1..Len(lists[q]) /\ p = Begin(lists, q) + c
    BY <2>6, <2>7
  <2> HIDE DEF q
  <2> QED
    BY ONLY <2>8
<1>12. Laid(ids, lists, N, X)
  BY ONLY <1>7, <1>8, <1>10, <1>11 DEF Laid
<1>13. IdsFound(job) = ids
  BY DEF IdsFound, ids, found, hits
<1> QED
  BY ONLY <1>12, <1>13 DEF lists, N, X

\* A ragged answer: where each row starts, and the rows one behind another.
Ragged(csr, lists, N, X) ==
    /\ lists \in [1..N -> Seq(X)]
    /\ Len(csr.indptr) = N + 1
    /\ \A q \in 1..(N + 1) : csr.indptr[q] = SumTo(Lens(lists), q - 1)
    /\ Laid(csr.ids, lists, N, X)

\* query_radius counts the hits of the blocks into one indptr.
LEMMA RaggedFacts ==
    ASSUME NEW job, RowJobOK(job)
    PROVE  Ragged(QueryRadius(job), Lists1(job), Len(job.own), 0..(job.n - 1))
<1> DEFINE many == Blocks(job)
           N == Len(job.own)
           lists == Lists1(job)
           rows == [d \in 1..many |-> [r \in 1..BlockLen(job, d) |-> InRow(HitsOf(job, d), r - 1)]]
           f == Lens(lists)
           counts == FlattenSeq(rows)
           indptr == <<0>> \o Sums(counts)
           X == 0..(job.n - 1)
<1>1. QueryRadius(job) = [indptr |-> indptr, ids |-> IdsFound(job)]
  BY DEF QueryRadius, IdsFound, HitsBy
<1>2. Laid(IdsFound(job), lists, N, X)
  BY IdsFacts
<1>3. /\ lists \in [1..N -> Seq(X)] /\ N \in Nat
      /\ \A d \in 1..many : \A r \in 1..BlockLen(job, d) :
            StartOf(job, d) + r \in 1..N /\ AloneIn(job, d)[r] = lists[StartOf(job, d) + r]
  BY ListsType
<1>4. Blocked(job) /\ \A d \in 1..many : BlockLen(job, d) \in Nat
  BY BlocksTile DEF Blocked
<1>5. \A d \in 1..many : \A r \in 1..BlockLen(job, d) : InRow(HitsOf(job, d), r - 1) = Len(AloneIn(job, d)[r])
  BY BlockHitsFacts DEF BlockHits, Placed
<1> HIDE DEF X
<1>6. f \in [1..N -> Nat] /\ \A q \in 1..N : f[q] = Len(lists[q])
  <2>1. \A q \in 1..N : Len(lists[q]) \in Nat
    BY ONLY <1>3
  <2> HIDE DEF lists
  <2>2. f = [q \in 1..N |-> Len(lists[q])]
    BY ONLY <1>3 DEF Lens
  <2> QED
    BY ONLY <2>1, <2>2
<1> HIDE DEF f, lists
<1>7. ASSUME NEW d \in 1..many
      PROVE  /\ rows[d] \in Seq(Nat) /\ Len(rows[d]) = BlockLen(job, d)
             /\ \A r \in 1..BlockLen(job, d) : rows[d][r] = f[StartOf(job, d) + r]
  <2> DEFINE len == BlockLen(job, d)
             part == [r \in 1..len |-> InRow(HitsOf(job, d), r - 1)]
  <2>1. rows[d] = part /\ len \in Nat
    BY <1>4
  <2>2. \A r \in 1..len : part[r] = InRow(HitsOf(job, d), r - 1)
    OBVIOUS
  <2>3. \A r \in 1..len : part[r] = f[StartOf(job, d) + r] /\ part[r] \in Nat
    <3> SUFFICES ASSUME NEW r \in 1..len PROVE part[r] = f[StartOf(job, d) + r] /\ part[r] \in Nat
      OBVIOUS
    <3>1. InRow(HitsOf(job, d), r - 1) = Len(AloneIn(job, d)[r])
      BY <1>5
    <3>2. StartOf(job, d) + r \in 1..N /\ AloneIn(job, d)[r] = lists[StartOf(job, d) + r]
      BY <1>3
    <3>3. f[StartOf(job, d) + r] = Len(lists[StartOf(job, d) + r]) /\ f[StartOf(job, d) + r] \in Nat
      BY <1>6, <3>2
    <3>4. part[r] = InRow(HitsOf(job, d), r - 1)
      BY <2>2
    <3> HIDE DEF part
    <3> QED
      BY ONLY <3>1, <3>2, <3>3, <3>4
  <2>4. part = [r \in 1..len |-> part[r]]
    OBVIOUS
  <2> HIDE DEF len, part
  <2>5. part \in [1..len -> Nat]
    BY ONLY <2>3, <2>4
  <2>6. part \in Seq(Nat) /\ Len(part) = len
    BY ONLY <2>1, <2>5
  <2> HIDE DEF rows
  <2> QED
    BY ONLY <2>1, <2>3, <2>6 DEF len
<1>8. rows \in [1..many -> Seq(Nat)]
  <2>1. rows = [d \in 1..many |-> rows[d]]
    OBVIOUS
  <2> HIDE DEF rows
  <2> QED
    BY <1>7, <2>1
<1>9. counts = f
  <2> HIDE DEF rows
  <2>1. CutInto(job, rows, f)
    BY <1>7 DEF CutInto
  <2>2. f \in [1..Len(job.own) -> Nat] /\ rows \in [1..Blocks(job) -> Seq(Nat)]
    BY <1>6, <1>8
  <2> QED
    BY ONLY <1>4, <2>1, <2>2, BlocksJoin
<1> HIDE DEF counts
<1>10. /\ Sums(counts) = [q \in 1..N |-> SumTo(f, q)]
       /\ \A q \in 0..N : SumTo(f, q) \in Nat
       /\ SumTo(f, 0) = 0
  <2>1. DOMAIN f = 1..N /\ \A q \in 1..N : f[q] \in Nat /\ f[q] \in Int
    BY <1>6
  <2>2. \A q \in 0..N : SumTo(f, q) \in Nat
    BY <1>3, <2>1, SumsRise
  <2>3. SumTo(f, 0) = 0
    BY <1>3, <2>1, SumAt
  <2> QED
    BY <1>9, <2>1, <2>2, <2>3 DEF Sums
<1>11. Len(indptr) = N + 1 /\ \A q \in 1..(N + 1) : indptr[q] = SumTo(f, q - 1)
  <2> DEFINE sums == Sums(counts)
  <2>1. \A q \in 1..N : q \in 0..N
    BY <1>3
  <2>2. sums \in Seq(Nat) /\ Len(sums) = N /\ \A q \in 1..N : sums[q] = SumTo(f, q)
    BY <1>3, <1>10, <2>1
  <2> HIDE DEF sums
  <2>3. <<0>> \in Seq(Nat) /\ Len(<<0>>) = 1 /\ <<0>>[1] = 0
    OBVIOUS
  <2> DEFINE one == <<0>>
  <2>4. one \in Seq(Nat) /\ Len(one) = 1 /\ one[1] = 0
    BY <2>3
  <2> HIDE DEF one
  <2> DEFINE longer == one \o sums
  <2>5. /\ longer \in Seq(Nat)
        /\ Len(longer) = Len(one) + Len(sums)
        /\ \A i \in 1..(Len(one) + Len(sums)) : longer[i] = IF i <= Len(one) THEN one[i] ELSE sums[i - Len(one)]
    <3>1. one \in Seq(Nat) /\ sums \in Seq(Nat)
      BY ONLY <2>2, <2>4
    <3> QED
      BY ONLY <3>1, ConcatProperties DEF longer
  <2> HIDE DEF longer
  <2>6. indptr = longer
    BY DEF longer, one, sums
  <2> HIDE DEF indptr
  <2>7. Len(indptr) = N + 1
    BY ONLY <1>3, <2>2, <2>4, <2>5, <2>6
  <2>8. ASSUME NEW q \in 1..(N + 1) PROVE indptr[q] = SumTo(f, q - 1)
    <3>1. q \in 1..(Len(one) + Len(sums))
      BY <1>3, <2>2, <2>4
    <3>2. indptr[q] = IF q <= Len(one) THEN one[q] ELSE sums[q - Len(one)]
      BY <2>5, <2>6, <3>1
    <3>3. CASE q = 1
      BY <1>10, <2>4, <3>2, <3>3
    <3>4. CASE q # 1
      <4> DEFINE x == q - 1
      <4>1. x \in 1..N /\ ~(q <= 1)
        BY <1>3, <3>4
      <4>2. indptr[q] = sums[x]
        BY <2>4, <3>2, <4>1
      <4>3. sums[x] = SumTo(f, x)
        BY <2>2, <4>1
      <4> QED
        BY <4>2, <4>3
    <3> QED
      BY <3>3, <3>4
  <2> QED
    BY <2>7, <2>8
<1> HIDE DEF indptr
<1>12. Ragged(QueryRadius(job), lists, N, X)
  <2> DEFINE csr == QueryRadius(job)
  <2>1. csr.indptr = indptr /\ csr.ids = IdsFound(job)
    BY <1>1
  <2> HIDE DEF csr
  <2>2. Ragged(csr, lists, N, X)
    BY ONLY <1>2, <1>3, <1>11, <2>1 DEF Ragged, f
  <2> QED
    BY <2>2 DEF csr
<1> QED
  BY <1>12 DEF lists, X

\* What a ragged answer holds of one row.
RowAt(csr, lists, q) ==
    /\ Len(lists[q]) \in Nat /\ Begin(lists, q) \in Nat
    /\ csr.indptr[q] = Begin(lists, q) /\ csr.indptr[q + 1] = Begin(lists, q) + Len(lists[q])
    /\ Begin(lists, q) + Len(lists[q]) <= Len(csr.ids)

\* It holds every row's bounds.
LEMMA RowAtFacts ==
    ASSUME NEW N \in Nat, NEW X, NEW lists, NEW csr, Ragged(csr, lists, N, X), NEW q \in 1..N
    PROVE  RowAt(csr, lists, q)
<1>1. /\ lists \in [1..N -> Seq(X)]
      /\ \A i \in 1..(N + 1) : csr.indptr[i] = SumTo(Lens(lists), i - 1)
      /\ Len(csr.ids) = SumTo(Lens(lists), N)
  BY DEF Ragged, Laid
<1>2. /\ \A i \in 1..N : Len(lists[i]) \in Nat
      /\ \A i \in 0..N : SumTo(Lens(lists), i) \in Nat
      /\ \A i \in 1..N : SumTo(Lens(lists), i) = SumTo(Lens(lists), i - 1) + Len(lists[i])
      /\ \A i, j \in 0..N : i <= j => SumTo(Lens(lists), i) <= SumTo(Lens(lists), j)
  BY <1>1, LensFacts
<1>3. q \in 1..(N + 1) /\ q + 1 \in 1..(N + 1) /\ q - 1 \in 0..N /\ q \in 0..N /\ N \in 0..N /\ q <= N /\ (q + 1) - 1 = q
  OBVIOUS
<1>4. csr.indptr[q] = SumTo(Lens(lists), q - 1)
  BY <1>1, <1>3
<1>5. csr.indptr[q + 1] = SumTo(Lens(lists), q)
  <2> DEFINE p == q + 1
  <2>1. p \in 1..(N + 1) /\ p - 1 = q
    BY <1>3
  <2> HIDE DEF p
  <2>2. csr.indptr[p] = SumTo(Lens(lists), p - 1)
    BY <1>1, <2>1
  <2> QED
    BY <2>1, <2>2 DEF p
<1>6. SumTo(Lens(lists), q) <= SumTo(Lens(lists), N)
  BY <1>2, <1>3
<1>7. Begin(lists, q) = SumTo(Lens(lists), q - 1)
  BY DEF Begin
<1> QED
  BY <1>1, <1>2, <1>3, <1>4, <1>5, <1>6, <1>7 DEF RowAt

\* Between two entries of indptr lies the row.
LEMMA RowSlice ==
    ASSUME NEW N \in Nat, NEW X, NEW lists, NEW csr, Ragged(csr, lists, N, X), NEW q \in 1..N
    PROVE  SubSeq(csr.ids, csr.indptr[q] + 1, csr.indptr[q + 1]) = lists[q]
<1> DEFINE ids == csr.ids
           base == Begin(lists, q)
           list == lists[q]
           len == Len(list)
           lo == csr.indptr[q] + 1
           hi == csr.indptr[q + 1]
<1>1. len \in Nat /\ base \in Nat /\ lo = base + 1 /\ hi = base + len /\ base + len <= Len(ids)
  BY RowAtFacts DEF RowAt
<1>2. /\ ids \in Seq(X) /\ list \in Seq(X)
      /\ \A c \in 1..len : base + c \in 1..Len(ids) /\ ids[base + c] = list[c]
  BY DEF Ragged, Laid
<1> HIDE DEF ids, base, lo, hi, list
<1>3. ids \in Seq(X) /\ Len(ids) \in Nat /\ lo \in 1..(Len(ids) + 1) /\ hi \in (lo - 1)..Len(ids)
  BY <1>1, <1>2
<1>4. /\ SubSeq(ids, lo, hi) \in Seq(X)
      /\ Len(SubSeq(ids, lo, hi)) = IF lo <= hi THEN hi - lo + 1 ELSE 0
      /\ \A i \in 1..(hi - lo + 1) : SubSeq(ids, lo, hi)[i] = ids[lo + i - 1]
  BY ONLY <1>3, SubSeqProperties
<1>5. Len(SubSeq(ids, lo, hi)) = len
  BY <1>1, <1>4
<1>6. \A c \in 1..len : SubSeq(ids, lo, hi)[c] = list[c]
  <2> SUFFICES ASSUME NEW c \in 1..len PROVE SubSeq(ids, lo, hi)[c] = list[c]
    OBVIOUS
  <2>1. c \in 1..(hi - lo + 1) /\ lo + c - 1 = base + c
    BY <1>1
  <2>2. SubSeq(ids, lo, hi)[c] = ids[lo + c - 1]
    BY <1>4, <2>1
  <2> QED
    BY <1>2, <2>1, <2>2
<1> DEFINE part == SubSeq(ids, lo, hi)
<1>7. part \in Seq(X) /\ Len(part) = Len(list) /\ \A c \in 1..Len(list) : part[c] = list[c]
  BY <1>4, <1>5, <1>6
<1> HIDE DEF part, len
<1>8. part = list
  BY ONLY <1>2, <1>7
<1> QED
  BY <1>8 DEF part, ids, lo, hi, list

\* The largest of a bounded set of numbers.
LEMMA MaxIsMost ==
    ASSUME NEW A \in SUBSET Nat, A # {}, NEW bound \in Nat, \A x \in A : x <= bound
    PROVE  Max(A) \in A /\ \A x \in A : x <= Max(A)
<1> DEFINE Over == {u \in Nat : \A x \in A : x <= u}
<1>1. PICK u \in Over : \A v \in Over : u <= v
  <2>1. Over \in SUBSET Nat /\ Over # {}
    OBVIOUS
  <2> HIDE DEF Over
  <2> QED
    BY ONLY <2>1, LeastNatural
<1>2. u \in Nat /\ \A x \in A : x <= u
  OBVIOUS
<1>3. u \in A
  <2> SUFFICES ASSUME u \notin A PROVE FALSE
    OBVIOUS
  <2>1. PICK x \in A : TRUE
    OBVIOUS
  <2>2. x \in Nat /\ x <= u /\ x # u
    BY <1>2
  <2>3. u - 1 \in Nat /\ ~(u <= u - 1)
    BY <1>2, <2>2
  <2>4. \A z \in A : z <= u - 1
    BY <1>2
  <2>5. u - 1 \in Over
    BY <2>3, <2>4
  <2> QED
    BY <1>1, <2>3, <2>5
<1>4. Max(A) = CHOOSE x \in A : \A y \in A : x >= y
  BY DEF Max
<1>5. \E x \in A : \A y \in A : x >= y
  BY <1>2, <1>3
<1>6. Max(A) \in A /\ \A y \in A : Max(A) >= y
  BY ONLY <1>4, <1>5
<1> QED
  BY <1>6

\* csr_to_padded of m rows.
PaddedTo(csr, m) ==
    LET counts == [q \in 1..m |-> csr.indptr[q + 1] - csr.indptr[q]]
        width == Max({1} \cup Range(counts))
        begin == Repeated([q \in 1..m |-> csr.indptr[q]], counts)
        of == Repeated([q \in 1..m |-> q], counts)
        spots(q, c) == {i \in DOMAIN csr.ids : of[i] = q /\ i - 1 - begin[i] = c - 1}
    IN  [q \in 1..m |-> [c \in 1..width |->
            IF spots(q, c) = {} THEN -1 ELSE csr.ids[CHOOSE i \in spots(q, c) : TRUE]]]

\* csr_to_padded gives every row its list, wide enough for the longest.
PadsTo(padded, q, list) ==
    /\ Len(padded[q]) \in Nat
    /\ padded[q] = Padded1(list, Len(padded[q]))
    /\ Len(list) <= Len(padded[q])

\* It does: every entry falls into the row and the column it belongs to.
LEMMA PaddedFacts ==
    ASSUME NEW N \in Nat, NEW X, NEW lists, NEW csr, Ragged(csr, lists, N, X), NEW q \in 1..N
    PROVE  PadsTo(CsrToPadded(csr), q, lists[q])
<1> DEFINE counts == [p \in 1..N |-> csr.indptr[p + 1] - csr.indptr[p]]
           width == Max({1} \cup Range(counts))
           begin == Repeated([p \in 1..N |-> csr.indptr[p]], counts)
           of == Repeated([p \in 1..N |-> p], counts)
           ids == csr.ids
           spot(p, c) == {i \in DOMAIN ids : of[i] = p /\ i - 1 - begin[i] = c - 1}
<1>1. CsrToPadded(csr) = [p \in 1..N |-> [c \in 1..width |-> IF spot(p, c) = {} THEN -1 ELSE ids[CHOOSE i \in spot(p, c) : TRUE]]]
  <2>1. Len(csr.indptr) - 1 = N
    BY DEF Ragged
  <2>2. CsrToPadded(csr) = PaddedTo(csr, Len(csr.indptr) - 1)
    BY DEF CsrToPadded, PaddedTo
  <2>3. CsrToPadded(csr) = PaddedTo(csr, N)
    BY ONLY <2>1, <2>2
  <2> QED
    BY ONLY <2>3 DEF PaddedTo
<1>2. /\ lists \in [1..N -> Seq(X)] /\ ids \in Seq(X)
      /\ Len(ids) = SumTo(Lens(lists), N)
      /\ \A p \in 1..N : \A c \in 1..Len(lists[p]) :
            Begin(lists, p) + c \in 1..Len(ids) /\ ids[Begin(lists, p) + c] = lists[p][c]
      /\ \A i \in 1..Len(ids) : \E p \in 1..N : \E c \in 1..Len(lists[p]) : i = Begin(lists, p) + c
  BY DEF Ragged, Laid
<1>3. \A p \in 1..N : RowAt(csr, lists, p)
  BY RowAtFacts
<1>4. \A p \in 1..N : /\ Len(lists[p]) \in Nat /\ Begin(lists, p) \in Nat
                      /\ csr.indptr[p] = Begin(lists, p)
                      /\ counts[p] = Len(lists[p])
                      /\ Begin(lists, p) + Len(lists[p]) <= Len(ids)
  <2> SUFFICES ASSUME NEW p \in 1..N
               PROVE  /\ Len(lists[p]) \in Nat /\ Begin(lists, p) \in Nat
                      /\ csr.indptr[p] = Begin(lists, p)
                      /\ counts[p] = Len(lists[p])
                      /\ Begin(lists, p) + Len(lists[p]) <= Len(ids)
    OBVIOUS
  <2>1. /\ Len(lists[p]) \in Nat /\ Begin(lists, p) \in Nat
        /\ csr.indptr[p] = Begin(lists, p) /\ csr.indptr[p + 1] = Begin(lists, p) + Len(lists[p])
        /\ Begin(lists, p) + Len(lists[p]) <= Len(ids)
    BY <1>3 DEF RowAt
  <2>2. counts[p] = csr.indptr[p + 1] - csr.indptr[p]
    OBVIOUS
  <2> HIDE DEF counts
  <2>3. counts[p] = Len(lists[p])
    BY ONLY <2>1, <2>2
  <2> QED
    BY ONLY <2>1, <2>3
<1>5. counts = [p \in 1..N |-> counts[p]]
  OBVIOUS
<1> HIDE DEF counts, ids
<1>6. /\ counts \in [1..N -> Nat]
      /\ counts = Lens(lists)
  <2>1. Lens(lists) = [p \in 1..N |-> Len(lists[p])]
    BY ONLY <1>2 DEF Lens
  <2> QED
    BY ONLY <1>4, <1>5, <2>1
<1>7. Len(ids) \in Nat /\ DOMAIN ids = 1..Len(ids)
  BY ONLY <1>2
<1>8. /\ width \in Nat
      /\ \A p \in 1..N : Len(lists[p]) <= width
  <2> DEFINE A == {1} \cup Range(counts)
             bound == Len(ids) + 1
  <2>1. \A x : x \in A <=> x = 1 \/ \E p \in 1..N : x = Len(lists[p])
    <3>1. \A x : x \in Range(counts) <=> \E p \in 1..N : x = counts[p]
      BY <1>5 DEF Range
    <3> QED
      BY <1>4, <3>1
  <2> HIDE DEF A
  <2>2. A \in SUBSET Nat /\ A # {} /\ bound \in Nat
    BY <1>4, <1>7, <2>1
  <2>3. \A x \in A : x <= bound
    <3>1. \A p \in 1..N : Len(lists[p]) <= bound
      BY <1>4, <1>7
    <3>2. 1 <= bound
      BY <1>7
    <3> HIDE DEF bound
    <3> QED
      BY ONLY <2>1, <3>1, <3>2
  <2> HIDE DEF bound
  <2>4. Max(A) \in A /\ \A x \in A : x <= Max(A)
    BY ONLY <2>2, <2>3, MaxIsMost
  <2>5. width = Max(A)
    BY DEF A
  <2> HIDE DEF width
  <2> QED
    BY <2>1, <2>2, <2>4, <2>5
<1> HIDE DEF width
<1>9. \A p \in 1..N : \A c \in 1..Len(lists[p]) :
         begin[Begin(lists, p) + c] = Begin(lists, p) /\ of[Begin(lists, p) + c] = p
  <2> DEFINE starts == [p \in 1..N |-> csr.indptr[p]]
             names == [p \in 1..N |-> p]
  <2>1. starts \in [1..N -> Nat] /\ \A p \in 1..N : starts[p] = Begin(lists, p)
    BY <1>4
  <2>2. names \in [1..N -> Nat] /\ \A p \in 1..N : names[p] = p
    OBVIOUS
  <2> HIDE DEF starts, names
  <2>a. starts \in [1..N -> Nat] /\ names \in [1..N -> Nat] /\ counts \in [1..N -> Nat] /\ N \in Nat
    BY ONLY <1>6, <2>1, <2>2, N \in Nat
  <2>3. \A p \in 1..N : \A j \in 1..counts[p] : Repeated(starts, counts)[SumTo(counts, p - 1) + j] = starts[p]
    BY ONLY <2>a, RepeatedFacts
  <2>4. \A p \in 1..N : \A j \in 1..counts[p] : Repeated(names, counts)[SumTo(counts, p - 1) + j] = names[p]
    BY ONLY <2>a, RepeatedFacts
  <2>5. begin = Repeated(starts, counts) /\ of = Repeated(names, counts)
    BY DEF starts, names
  <2> HIDE DEF begin, of
  <2>6. \A p \in 1..N : SumTo(counts, p - 1) = Begin(lists, p)
    BY <1>6 DEF Begin
  <2>7. ASSUME NEW p \in 1..N, NEW c \in 1..Len(lists[p])
        PROVE  begin[Begin(lists, p) + c] = Begin(lists, p) /\ of[Begin(lists, p) + c] = p
    <3>1. c \in 1..counts[p] /\ SumTo(counts, p - 1) = Begin(lists, p)
      BY ONLY <1>4, <2>6, p \in 1..N, c \in 1..Len(lists[p])
    <3>2. begin[SumTo(counts, p - 1) + c] = starts[p] /\ of[SumTo(counts, p - 1) + c] = names[p]
      BY ONLY <2>3, <2>4, <2>5, <3>1, p \in 1..N
    <3>3. starts[p] = Begin(lists, p) /\ names[p] = p
      BY ONLY <2>1, <2>2, p \in 1..N
    <3> QED
      BY ONLY <3>1, <3>2, <3>3
  <2> QED
    BY ONLY <2>7
<1> HIDE DEF begin, of
<1>10. ASSUME NEW c \in 1..width
       PROVE  (IF spot(q, c) = {} THEN -1 ELSE ids[CHOOSE i \in spot(q, c) : TRUE])
                = (IF c <= Len(lists[q]) THEN lists[q][c] ELSE -1)
  <2>1. c \in Int /\ c >= 1
    BY <1>8
  <2>2. ASSUME NEW i \in spot(q, c) PROVE c \in 1..Len(lists[q]) /\ i = Begin(lists, q) + c
    <3>1. PICK p \in 1..N : \E e \in 1..Len(lists[p]) : i = Begin(lists, p) + e
      BY <1>2, <1>7
    <3>2. PICK e \in 1..Len(lists[p]) : i = Begin(lists, p) + e
      BY <3>1
    <3>3. of[i] = p /\ begin[i] = Begin(lists, p)
      BY <1>9, <3>2
    <3>4. of[i] = q /\ i - 1 - begin[i] = c - 1
      OBVIOUS
    <3>5. p = q
      BY <3>3, <3>4
    <3>6. e = c
      BY <1>4, <2>1, <3>2, <3>3, <3>4
    <3> QED
      BY <3>2, <3>5, <3>6
  <2>3. CASE c <= Len(lists[q])
    <3> DEFINE p == Begin(lists, q) + c
    <3>1. c \in 1..Len(lists[q])
      BY <1>4, <2>1, <2>3
    <3>2. p \in 1..Len(ids) /\ ids[p] = lists[q][c] /\ of[p] = q /\ begin[p] = Begin(lists, q)
      BY <1>2, <1>9, <3>1
    <3>3. p - 1 - begin[p] = c - 1
      <4>1. Begin(lists, q) \in Nat
        BY <1>4
      <4> QED
        BY <2>1, <3>2, <4>1
    <3>4. p \in spot(q, c)
      BY <1>7, <3>2, <3>3
    <3> DEFINE these == spot(q, c)
    <3>5. these # {} /\ \A i \in these : i = p
      BY <2>2, <3>4
    <3> HIDE DEF these, p
    <3>6. (CHOOSE i \in these : TRUE) = p
      BY ONLY <3>5
    <3>7. ids[CHOOSE i \in spot(q, c) : TRUE] = lists[q][c] /\ spot(q, c) # {}
      BY <3>2, <3>5, <3>6 DEF these
    <3> HIDE DEF spot
    <3> QED
      BY <2>3, <3>7
  <2>4. CASE ~(c <= Len(lists[q]))
    <3>1. spot(q, c) = {}
      BY <1>4, <2>1, <2>2, <2>4
    <3> HIDE DEF spot
    <3> QED
      BY <2>4, <3>1
  <2> QED
    BY <2>3, <2>4
<1> HIDE DEF spot
<1>11. CsrToPadded(csr)[q] = Padded1(lists[q], width)
  BY <1>1, <1>10 DEF Padded1
<1>12. Len(CsrToPadded(csr)[q]) = width
  <2>1. Len(Padded1(lists[q], width)) = width
    BY <1>8 DEF Padded1
  <2> QED
    BY <1>11, <2>1
<1> QED
  BY ONLY <1>8, <1>11, <1>12, q \in 1..N DEF PadsTo

-----------------------------------------------------------------------------
\* Batching keeps every row: the blocks and the flat arrays in between change no
\* answer, of query_knn with its widened rows, of query_radius, of the padded form.
THEOREM BatchesKeepRows ==
    ASSUME NEW job, RowJobOK(job)
    PROVE  RowsSurviveBatching(job)
<1> DEFINE csr == QueryRadius(job)
           N == Len(job.own)
           lists == Lists1(job)
           X == 0..(job.n - 1)
           padded == CsrToPadded(csr)
<1>1. DOMAIN job.own = 1..N /\ N \in Nat
  BY DEF RowJobOK
<1>2. Ragged(csr, lists, N, X)
  BY RaggedFacts
<1>3. \A q \in 1..N : lists[q] = RadiusAlone(job, q)
  BY ListsType
<1> HIDE DEF csr, lists, N, X
<1>4. ASSUME NEW q \in 1..N
      PROVE  /\ QueryKnn(job)[q] = KnnAlone(job, q)
             /\ SubSeq(csr.ids, csr.indptr[q] + 1, csr.indptr[q + 1]) = RadiusAlone(job, q)
             /\ padded[q] = Padded1(RadiusAlone(job, q), Len(padded[q]))
             /\ Len(RadiusAlone(job, q)) <= Len(padded[q])
  <2>1. QueryKnn(job)[q] = KnnAlone(job, q)
    BY <1>1, KnnRows
  <2>2. SubSeq(csr.ids, csr.indptr[q] + 1, csr.indptr[q + 1]) = lists[q]
    BY ONLY <1>1, <1>2, q \in 1..N, RowSlice
  <2>3. PadsTo(CsrToPadded(csr), q, lists[q])
    BY ONLY <1>1, <1>2, q \in 1..N, PaddedFacts
  <2>4. lists[q] = RadiusAlone(job, q)
    BY <1>3
  <2> QED
    BY ONLY <2>1, <2>2, <2>3, <2>4 DEF PadsTo
<1>5. RowsSurviveBatching(job) <=>
         \A q \in 1..N : /\ QueryKnn(job)[q] = KnnAlone(job, q)
             /\ SubSeq(csr.ids, csr.indptr[q] + 1, csr.indptr[q + 1]) = RadiusAlone(job, q)
             /\ padded[q] = Padded1(RadiusAlone(job, q), Len(padded[q]))
             /\ Len(RadiusAlone(job, q)) <= Len(padded[q])
  BY ONLY <1>1 DEF RowsSurviveBatching, csr
<1> QED
  BY ONLY <1>4, <1>5
=============================================================================
