----------------------------- MODULE Workloads -----------------------------
(***************************************************************************)
(* The benchmark drivers as clients of the index.  Each is a program of    *)
(* fits, queries, moves and promotions, run against the systems the        *)
(* scripts compare: the facade and its selective update, a new facade per  *)
(* update, a re-sort of the candidate tier behind the facade's back, and   *)
(* FlatSim, rebuilt on every change.  A position is its history: the draw  *)
(* it was born in and the draws that moved it, so two systems that hold    *)
(* equal positions also used the random stream alike.                      *)
(*                                                                         *)
(* A job is [driver, system, a, b, epochs, batches]: a anchors, batches of *)
(* b candidates.                                                           *)
(***************************************************************************)
EXTENDS Naturals, SequencesExt

Systems == {"facade", "refit", "tier-sort", "flat"}

\* Scripts whose driver keeps coordinates of its own, or a view of the arena.
OwnCopies == {"dynamic", "auto", "lifecycle_case", "replay"}
Views == {"mimic"}

Born(draw, n) == [i \in 1..n |-> [born |-> draw, row |-> i, mirrored |-> FALSE, moves |-> <<>>]]
\* case_dynamic moves a fraction of the rows, the other scripts all of them.
Steps(driver, row, draw) == driver = "dynamic" => (row.row + draw) % 2 = 0
Stepped(driver, rows, draw) ==
    [i \in DOMAIN rows |-> IF Steps(driver, rows[i], draw)
                           THEN [rows[i] EXCEPT !.moves = Append(@, draw)] ELSE rows[i]]
Opposite(rows) == [i \in DOMAIN rows |-> [rows[i] EXCEPT !.mirrored = TRUE]]

Anchors(nn) == SubSeq(nn.arena, 1, nn.nStatic)
From(rows, nStatic) == SubSeq(rows, nStatic + 1, Len(rows))

-----------------------------------------------------------------------------
\* The systems: arena and nStatic are the facade's (or FlatSim's), pts the rows the
\* index ranks by and keys the rows its tables were filed by.
Fit(A, C) == [arena |-> A \o C, nStatic |-> Len(A), pts |-> A \o C, keys |-> A \o C]

\* The selective update files anew what the new keys say moved.
Refiled(nn, rows) ==
    [i \in DOMAIN rows |-> IF nn.keys[i] = rows[i] THEN nn.keys[i] ELSE rows[i]]
\* Mutant: it files anew what differs from the arena.
Updated_ByArena(nn, new) ==
    LET rows == Anchors(nn) \o new
    IN  [nn EXCEPT !.arena = rows, !.pts = rows,
                   !.keys = [i \in DOMAIN rows |-> IF nn.arena[i] = rows[i] THEN @[i] ELSE rows[i]]]
Updated(nn, new) ==
    LET rows == Anchors(nn) \o new
    IN  [nn EXCEPT !.arena = rows, !.pts = rows, !.keys = Refiled(nn, rows)]

\* bench_lifecycle "refit" and "tier-sort": the arena's tail, the index's _pts and
\* _pts32, then _build_candidates.
Refitted(nn, new) == Fit(Anchors(nn), new)
Resorted(nn, new) ==
    LET moved == [nn EXCEPT !.arena = Anchors(nn) \o new,
                            !.pts = SubSeq(nn.pts, 1, nn.nStatic) \o new]
    IN  [moved EXCEPT !.keys = SubSeq(@, 1, nn.nStatic) \o From(moved.pts, nn.nStatic)]

\* FlatSim.update and _rebuild.
Rebuilt(nn, rows, nStatic) == [nn EXCEPT !.arena = rows, !.nStatic = nStatic, !.pts = rows, !.keys = rows]

Update(system, nn, new) ==
    CASE system = "facade"    -> Updated(nn, new)
      [] system = "refit"     -> Refitted(nn, new)
      [] system = "tier-sort" -> Resorted(nn, new)
      [] system = "flat"      -> Rebuilt(nn, Anchors(nn) \o new, nn.nStatic)

Promote(system, nn, new) ==
    IF system = "flat" THEN Rebuilt(nn, nn.arena \o new, Len(nn.arena))
    ELSE [arena |-> nn.arena \o new, nStatic |-> Len(nn.arena), pts |-> nn.pts \o new, keys |-> nn.keys \o new]

-----------------------------------------------------------------------------
\* A driver's state: draws made, the system, the picture it has of all positions
\* (own copy), the anchors and the batch of its next fit, the batch to promote, the
\* answer it holds, what it asked.
Start == [draws |-> 0, nn |-> Fit(<<>>, <<>>), cur |-> <<>>, acc |-> <<>>, batch |-> <<>>,
          next |-> <<>>, answer |-> <<>>, log |-> <<>>]

Believed(job, st) == IF job.driver \in OwnCopies THEN st.cur ELSE st.nn.arena

Asked(job, st) ==
    LET entry == [kind |-> "query", believed |-> Believed(job, st), first |-> st.nn.nStatic,
                  pts |-> st.nn.pts, keys |-> st.nn.keys]
    IN  [st EXCEPT !.answer = st.nn.pts, !.log = Append(@, entry)]

\* A recall check ranks the arena as it is now and scores the answer held.
Checked(job, st) ==
    LET entry == [kind |-> "check", believed |-> Believed(job, st), first |-> st.nn.nStatic,
                  pts |-> st.answer, keys |-> st.answer]
    IN  [st EXCEPT !.log = Append(@, entry)]

\* The view moves the arena's rows in place before update is called with them.
Moved(job, st) ==
    LET draw == st.draws + 1
        rows == Believed(job, st)
        new == Stepped(job.driver, From(rows, st.nn.nStatic), draw)
        slid == IF job.driver \in Views THEN [st.nn EXCEPT !.arena = Anchors(st.nn) \o new] ELSE st.nn
    IN  [st EXCEPT !.draws = draw, !.nn = Update(job.system, slid, new),
                   !.cur = SubSeq(rows, 1, st.nn.nStatic) \o new]

\* update called again with the rows of the last time.
Resent(job, st) == [st EXCEPT !.nn = Update(job.system, st.nn, From(st.cur, st.nn.nStatic))]

Do(job, st, step) ==
    LET draw == st.draws + 1
        new == From(st.cur, st.nn.nStatic)
    IN  CASE step.op = "anchors" -> [st EXCEPT !.draws = draw, !.acc = Born(draw, step.n)]
          [] step.op = "batch"   -> [st EXCEPT !.draws = draw, !.batch = Born(draw, step.n)]
          [] step.op = "next"    -> [st EXCEPT !.draws = draw, !.next = Born(draw, step.n)]
          [] step.op = "draw"    -> [st EXCEPT !.draws = draw]
          [] step.op = "fit"     -> [st EXCEPT !.nn = Fit(st.acc, st.batch), !.cur = st.acc \o st.batch]
          [] step.op = "query"   -> Asked(job, st)
          [] step.op = "check"   -> Checked(job, st)
          [] step.op = "move"    -> Moved(job, st)
          [] step.op = "again"   -> Resent(job, st)
          [] step.op = "promote" -> [st EXCEPT !.nn = Promote(job.system, st.nn, st.next), !.cur = @ \o st.next]
          [] step.op = "native"  -> Asked(job, [st EXCEPT !.nn = Fit(Anchors(st.nn), From(st.nn.arena, st.nn.nStatic))])
          [] step.op = "keep"    -> [st EXCEPT !.acc = Believed(job, st)]
          [] step.op = "oppose"  -> [st EXCEPT !.acc = @ \o new \o Opposite(new)]

Op(name) == <<[op |-> name]>>
OpN(name, n) == <<[op |-> name, n |-> n]>>
Times(n, steps) == FlattenSeq([i \in 1..n |-> steps])

-----------------------------------------------------------------------------
\* The programs, one per script.
Draw(job) == OpN("anchors", job.a) \o OpN("batch", job.b)
Setup(job) == Draw(job) \o Op("fit")
Promotion(n) == OpN("next", n) \o Op("promote")
Epoch == Op("query") \o Op("move")

\* ess_sim.main: spot check in the first epoch, nothing promoted after the last batch.
SimMain(job) ==
    Setup(job) \o FlattenSeq([i \in 1..job.batches |->
        Op("query") \o Op("check") \o Op("move") \o Times(job.epochs - 1, Epoch)
        \o Promotion(IF i < job.batches THEN job.b ELSE 0)])

\* sample_recall asks again before it checks, and draws its sample.
SampleRecall == Op("query") \o Op("draw") \o Op("check")
LifecycleRun(job) ==
    Setup(job) \o Times(job.batches, Times(job.epochs, Epoch) \o SampleRecall \o Promotion(job.b))

\* lifecycle_backends.run, the same loop for the installed backends.
BackendsRun(job) == LifecycleRun(job)

\* bench_backends.run_scenario: the last answer is scored after the last update.
Scenario(job) ==
    Setup(job) \o Times(job.epochs, Epoch) \o Op("draw") \o Op("check") \o Promotion(job.b)

\* bench_ess_loop.run: all steps are drawn before the fit.
LoopRun(job) == Draw(job) \o Op("draw") \o Op("fit") \o Times(job.epochs, Epoch)

DynamicCase(job) == Setup(job) \o Times(job.epochs, Epoch) \o SampleRecall
AutoCase(job) == Setup(job) \o Times(job.epochs, Epoch) \o Op("query") \o Op("check")

\* case_lifecycle: fits, updates and queries, each timed call preceded by one to warm
\* up and all on the same rows, then promotions on fits of their own.
LifecycleCase(job) ==
    Draw(job) \o Times(4, Op("fit")) \o Op("move") \o Times(job.epochs, Op("again")) \o Times(4, Op("query"))
    \o OpN("next", job.b) \o Times(3, Op("fit") \o Op("promote"))

\* _lsh_index and case_lsh: cases that share a fixture each build an index of its rows.
LshCases(job) == Setup(job) \o Times(job.epochs, Op("native"))

\* case_python: the reference backend, asked again and again.
PythonCase(job) == Setup(job) \o Times(job.epochs + 1, Op("query"))

\* compare_faiss: the truth is ranked before the fit, from the rows that are then fitted.
FaissRun(job) == Draw(job) \o Op("draw") \o Op("fit") \o Op("query") \o Op("check")

\* benchmark.run without ess, then benchmark.recall on the index as it was left.
Mimic(job) == Setup(job) \o Times(job.epochs, Epoch) \o Op("query") \o Op("check")

\* esa_call and run of profile_workload: fit on the anchors alone, place the batch
\* by a query, promote it, move it; its rows and their opposites become anchors.
EsaCall(job) ==
    Op("draw") \o Op("fit") \o Op("draw") \o Op("query") \o Promotion(job.b)
    \o Times(job.epochs, Epoch) \o Op("oppose")
Replay(job) == OpN("anchors", job.a) \o Times(job.batches, EsaCall(job))

\* ess.esa, which is not in the repository: fit, then query and update per epoch.
Esa(job) == OpN("batch", job.b) \o Op("fit") \o Times(job.epochs, Epoch)
\* case_ess: one call and a recall on the index as it was left; so do the suite and
\* run_ess of bench_ess_quality.
EssRun(job) == OpN("anchors", job.a) \o Esa(job) \o Op("query") \o Op("check")
SuiteRun(job) == EssRun(job)
QualityRun(job) == EssRun(job)

\* run of bench_recall_ablation: the corrupting index scores each of its answers.
AblationRun(job) ==
    Draw(job) \o Op("fit") \o Times(job.epochs, Op("query") \o Op("check") \o Op("move"))

\* one_round and run_iterative: the result of a round is the next one's anchors.
Rounds(job) == Times(job.batches, Esa(job) \o Op("keep"))

ProgramOf(job) ==
    CASE job.driver = "sim" -> SimMain(job)            [] job.driver = "lifecycle" -> LifecycleRun(job)
      [] job.driver = "backends" -> BackendsRun(job)   [] job.driver = "scenario" -> Scenario(job)
      [] job.driver = "loop" -> LoopRun(job)           [] job.driver = "dynamic" -> DynamicCase(job)
      [] job.driver = "auto" -> AutoCase(job)          [] job.driver = "lifecycle_case" -> LifecycleCase(job)
      [] job.driver = "lsh" -> LshCases(job)           [] job.driver = "mimic" -> Mimic(job)
      [] job.driver = "replay" -> Replay(job)          [] job.driver = "ess" -> EssRun(job)
      [] job.driver = "rounds" -> Rounds(job)          [] job.driver = "suite" -> SuiteRun(job)
      [] job.driver = "quality" -> QualityRun(job)     [] job.driver = "ablation" -> AblationRun(job)
      [] job.driver = "python" -> PythonCase(job)      [] job.driver = "faiss" -> FaissRun(job)

\* The systems each script runs: only two scripts compare others than the facade.
SystemsOf(driver) == CASE driver = "sim" -> {"facade", "flat"}
                       [] driver = "lifecycle" -> {"facade", "refit", "tier-sort"}
                       [] OTHER -> {"facade"}
Drivers == {"sim", "lifecycle", "backends", "scenario", "loop", "dynamic", "auto", "lifecycle_case",
            "lsh", "mimic", "replay", "ess", "rounds", "suite", "quality", "ablation", "python", "faiss"}

Ran(job) == FoldLeft(LAMBDA st, step : Do(job, st, step), Start, ProgramOf(job))

-----------------------------------------------------------------------------
\* Whenever a driver asks, the index ranks by and is filed by the very positions
\* the driver takes the ids for, whether it reads them from the facade, keeps its
\* own, or moves the facade's rows under it; the rows of one batch have moved
\* together; and a script's systems see the same positions from the same draws, so
\* what they are compared on is the same work.  A recall check scores an answer
\* about the positions it ranks, but for run_scenario of bench_backends.py, which
\* scores an answer that is one update old.
DriversMeetTheIndex(job) ==
    LET log == Ran(job).log
        behind(row) == [row EXCEPT !.moves = Front(@)]
    IN  /\ \A i \in DOMAIN log :
              LET entry == log[i]
                  rows == entry.believed
              IN  /\ IF job.driver = "scenario" /\ entry.kind = "check"
                     THEN entry.pts = [r \in DOMAIN rows |->
                                        IF r <= entry.first THEN rows[r] ELSE behind(rows[r])]
                     ELSE entry.pts = rows /\ entry.keys = rows
                  /\ IsInjective(rows)
                  /\ job.driver # "dynamic" => \A r, s \in DOMAIN rows :
                        rows[r].born = rows[s].born => rows[r].moves = rows[s].moves
        /\ job.system # "facade" => log = Ran([job EXCEPT !.system = "facade"]).log
=============================================================================
