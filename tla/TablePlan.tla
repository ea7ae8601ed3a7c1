------------------------------ MODULE TablePlan ------------------------------
(***************************************************************************)
(* _reach and _plan_tables of wrapper.py: how many tables, of how many     *)
(* digits, with how many probes, for a recall goal.  What one table finds  *)
(* (see HitModel) is an input here, in Parts-ths; the recall of several    *)
(* tables is kept exactly, in Parts^MaxTables-ths.                         *)
(*                                                                         *)
(* A job is what the constructor and the sample fix: depth, the K of the   *)
(* bucket load; pinned, whether dims_per_table was given; probes, the      *)
(* number given or AutoProbes; anyRecall, whether recall is "auto"; goal;  *)
(* and hit[k][m], what one table of k digits finds with m probes.          *)
(***************************************************************************)
EXTENDS Integers, Sequences, FiniteSetsExt

CONSTANTS MaxTables,      \* _MAX_TABLES
          DefaultProbes,  \* _DEFAULT_PROBES
          DeepProbes,     \* _DEEP_PROBES
          AutoTables,     \* the 4 tables recall="auto" starts from
          Depths,         \* the 4 depths tried, the full one included
          Waste,          \* the 0.01 of recall fewer probes may cost
          Parts,
          AutoProbes      \* probes="auto"

ASSUME PlanAssumption ==
    /\ {MaxTables, DefaultProbes, AutoTables, Depths, Parts} \subseteq Nat \ {0}
    /\ DeepProbes \in Nat /\ DeepProbes > DefaultProbes
    /\ AutoTables <= MaxTables
    /\ Waste \in Nat
    /\ AutoProbes \notin Int

\* The powers of x that MaxTables tables need.
Powers(x) == LET power[n \in 0..MaxTables] == IF n = 0 THEN 1 ELSE power[n - 1] * x IN power

\* Chance that one of `tables` tables finds the pair.
Predicted(hit, tables) ==
    Powers(Parts)[MaxTables] - Powers(Parts - hit)[tables] * Powers(Parts)[MaxTables - tables]

\* _reach: the fewest tables that reach the goal, between the floor and the cap.
Planned(job, k, m) ==
    LET hit == job.hit[k][m]
        enough == {n \in 1..MaxTables : Predicted(hit, n) >= job.goal}
        floor == IF job.anyRecall THEN AutoTables ELSE 1
        tables == IF enough = {} THEN MaxTables ELSE Max({Min(enough), floor})
    IN  [depth |-> k, probes |-> m, tables |-> tables, recall |-> Predicted(hit, tables)]

\* The plans in the order they are tried: deepest hash first, few probes first.
Plans(job) ==
    LET depths == IF job.pinned THEN 1 ELSE Min({Depths, job.depth})
        probes == IF job.probes = AutoProbes THEN <<DefaultProbes, DeepProbes>> ELSE <<job.probes>>
        several == Len(probes)
    IN  [i \in 1..(depths * several) |->
            Planned(job, job.depth - ((i - 1) \div several), probes[((i - 1) % several) + 1])]

\* The first plan that reaches the goal, or else the first of those that come nearest.
FirstGood(job) ==
    LET plans == Plans(job)
        good == {i \in DOMAIN plans : plans[i].recall >= job.goal}
        best == {i \in DOMAIN plans : \A j \in DOMAIN plans : plans[j].recall <= plans[i].recall}
    IN  plans[Min(IF good # {} THEN good ELSE best)]

\* Mutant: fewer probes are taken at the price of more tables.
Trimmed_AnyTables(job, plan) ==
    LET fewer == {m \in 0..(DefaultProbes - 1) :
                     Planned(job, job.depth, m).recall >= plan.recall - Waste}
    IN  IF /\ job.probes = AutoProbes
           /\ plan.depth = job.depth /\ plan.probes = DefaultProbes
           /\ fewer # {}
        THEN Planned(job, job.depth, Min(fewer)) ELSE plan

\* Probes the plan does not need, dropped if no table is added for them.
Trimmed(job, plan) ==
    LET fewer == {m \in 0..(DefaultProbes - 1) :
                     LET less == Planned(job, job.depth, m)
                     IN  less.tables <= plan.tables /\ less.recall >= plan.recall - Waste}
    IN  IF /\ job.probes = AutoProbes
           /\ plan.depth = job.depth /\ plan.probes = DefaultProbes
           /\ fewer # {}
        THEN Planned(job, job.depth, Min(fewer)) ELSE plan

\* _plan_tables: the hash depth and tables to build, the probes and the recall kept.
PlanTables(job) == Trimmed(job, FirstGood(job))

-----------------------------------------------------------------------------
\* What no plan can beat: the whole choice _plan_tables has.
InReach(job) == \E i \in DOMAIN Plans(job) : Plans(job)[i].recall >= job.goal

\* The chosen tables are worth their number: expected_recall is what the chosen
\* depth, probes and tables predict; one table fewer would miss the goal, unless
\* the floor of recall="auto" holds it; a goal in reach is met, but for the hundredth
\* that dropped probes may cost and then only at the table cap; the hash is made
\* shallower only when the full depth cannot meet the goal; and dropping probes
\* never buys a table.
PlanSound(job) ==
    LET plan == PlanTables(job)
        floor == IF job.anyRecall THEN AutoTables ELSE 1
        hit == job.hit[plan.depth][plan.probes]
    IN  /\ plan.recall = Predicted(hit, plan.tables)
        /\ plan.tables \in floor..MaxTables
        /\ plan.tables > floor => Predicted(hit, plan.tables - 1) < job.goal
        /\ InReach(job) =>
              \/ plan.recall >= job.goal
              \/ /\ plan.recall >= job.goal - Waste
                 /\ plan.tables = MaxTables /\ plan.probes < DefaultProbes
        /\ plan.depth < job.depth => \A i \in DOMAIN Plans(job) :
              Plans(job)[i].depth > plan.depth => Plans(job)[i].recall < job.goal
        /\ plan.tables <= FirstGood(job).tables
        /\ job.probes # AutoProbes => plan.probes = job.probes
=============================================================================
