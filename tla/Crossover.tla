------------------------------ MODULE Crossover ------------------------------
(***************************************************************************)
(* Which code serves a call: the compiled module or NumPy (torann.rust,    *)
(* _lsh_class, _resolve, available_backends), the tables or the exact scan *)
(* (_threshold), and how tune_thresholds turns measured sizes into the     *)
(* thresholds that decide it.                                              *)
(*                                                                         *)
(* A machine is [x86, probe, wheel]: its architecture, what the CPU probe  *)
(* said, and whether the compiled module can be imported.                  *)
(***************************************************************************)
EXTENDS Ranking, Sequences, FiniteSetsExt, Functions

CONSTANTS Smallest,     \* the 256 points tune_thresholds stops at
          BrutePython,  \* _BRUTE_PYTHON
          Bands,        \* _CROSSOVER: Bands[mode][lp] as <<largest d, n>> pairs
          Unset         \* a threshold argument that was not given

ASSUME CrossoverAssumption ==
    {Smallest, BrutePython} \subseteq Nat \ {0} /\ Unset \notin Int

Modes == {"knn", "radius"}

\* _cpu_supports_avx2: whatever cannot be determined counts as supported.
SupportsAvx2(machine) == ~machine.x86 \/ machine.probe # "no avx2"

\* The five names torann.rust binds are bound together.
Native(machine) == SupportsAvx2(machine) /\ machine.wheel
Scan(machine) == IF Native(machine) THEN "brute_knn" ELSE "exact_knn"

AutoOrder == <<"rust", "python">>

\* _lsh_class.
LshClass(machine, name) ==
    CASE name = "python" -> "PythonLshIndex"
      [] name = "rust" -> IF Native(machine) THEN "RustLshIndex" ELSE "ImportError"
      [] OTHER -> "ValueError"

\* available_backends.
Available(machine) ==
    Picked(AutoOrder, {i \in DOMAIN AutoOrder : LshClass(machine, AutoOrder[i]) # "ImportError"})

\* _resolve.
Resolve(machine, name) == IF name = "auto" THEN Available(machine)[1] ELSE name

\* _threshold of an object whose constructor was given nn.
Threshold(machine, nn, mode) ==
    IF nn[mode] # Unset THEN nn[mode]
    ELSE IF nn.both # Unset THEN nn.both
    ELSE IF LshClass(machine, Resolve(machine, nn.backend)) = "PythonLshIndex" THEN BrutePython
    ELSE LET rows == Bands[mode][nn.lp] IN rows[Min({i \in DOMAIN rows : nn.d <= rows[i][1]})][2]

\* is_approximate_knn / is_approximate_radius with n points.
Approximate(machine, nn, mode, n) == n > Threshold(machine, nn, mode)

-----------------------------------------------------------------------------
\* n halved again and again, and the sizes measured of it, largest first.
Halved(n) == LET half[i \in 0..n] == IF i = 0 THEN n ELSE half[i - 1] \div 2 IN half
Sizes(n) ==
    LET half == Halved(n)
    IN  [i \in 1..(1 + Cardinality({j \in 1..n : half[j] >= Smallest})) |-> half[i - 1]]

\* Mutant: every size decides for itself.
FirstLost_EachSize(n, lshWins) ==
    LET sizes == Sizes(n)
        best[i \in 0..Len(sizes)] ==
            IF i = 0 THEN 0 ELSE IF sizes[i] \in lshWins THEN best[i - 1] ELSE sizes[i]
    IN  best[Len(sizes)]

\* The loop of tune_thresholds over the sizes where the tables were faster and good
\* enough: the first size lost, 0 when there is none.
Measured(st, size, lshWins) ==
    LET wins == st.wins /\ size \in lshWins
    IN  [wins |-> wins, best |-> IF ~wins /\ st.best = 0 THEN size ELSE st.best]
FirstLost(n, lshWins) ==
    LET sizes == Sizes(n)
        loop[i \in 0..Len(sizes)] == IF i = 0 THEN [wins |-> TRUE, best |-> 0]
                                     ELSE Measured(loop[i - 1], sizes[i], lshWins)
    IN  loop[Len(sizes)].best

\* The object `build` measures with, and the one the caller makes of the result.
Built(nn, threshold) == [nn EXCEPT !.both = threshold, !.knn = Unset, !.radius = Unset]
Splatted(nn, n, wins) ==
    [nn EXCEPT !.knn = FirstLost(n, wins["knn"]), !.radius = FirstLost(n, wins["radius"])]

-----------------------------------------------------------------------------
\* What was measured is what then serves: the two objects a size compares are one
\* exact and one on tables in either mode; an object given the thresholds answers a
\* measured size from tables exactly when tables won it and every larger size,
\* whatever else its constructor was given and whichever backend it runs on; and
\* the crossover used by default is the one of the class _make_lsh instantiates.
RoutedAsMeasured(machine, nn, n, wins) ==
    LET sizes == Range(Sizes(n))
        won(mode, s) == \A larger \in {x \in sizes : x >= s} : larger \in wins[mode]
    IN  /\ \A mode \in Modes, s \in sizes :
              /\ ~Approximate(machine, Built(nn, s + 1), mode, s)
              /\ Approximate(machine, Built(nn, 0), mode, s)
              /\ Approximate(machine, Splatted(nn, n, wins), mode, s) <=> won(mode, s)
        /\ nn.backend = "auto" =>
              Scan(machine) = "brute_knn" <=>
                  LshClass(machine, Resolve(machine, "auto")) = "RustLshIndex"
        /\ LET plain == [nn EXCEPT !.both = Unset, !.knn = Unset, !.radius = Unset]
           IN  LshClass(machine, Resolve(machine, nn.backend)) = "PythonLshIndex" =>
                  \A mode \in Modes : Threshold(machine, plain, mode) = BrutePython
=============================================================================
