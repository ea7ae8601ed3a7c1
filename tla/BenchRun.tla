------------------------------ MODULE BenchRun ------------------------------
(***************************************************************************)
(* The A/B harness (examples/bench_ab.py): arms are installed builds in    *)
(* directories of their own; a job runs both arms of every case of its     *)
(* shard, pair after pair, one worker process per arm and batch, and       *)
(* rewrites its result file after each pair.  Jobs run on several machines *)
(* that share the disk, workers die, cases raise, jobs are killed and      *)
(* started again over the same file, and an arm may be rebuilt meanwhile.  *)
(***************************************************************************)
EXTENDS Ranking, SequencesExt, FiniteSetsExt, Functions

CONSTANTS CaseIds,     \* the selected case ids, sorted
          GroupOf,     \* case id -> the fixture it shares a process for, or NoGroup
          NoGroup,
          Jobs,        \* the commands a user may start: [k, n, arms]
          Hosts,
          NoHost,      \* what a row without a host answers
          Pairs,       \* pairs per job
          Rebuilt,     \* the arm that is rebuilt, from sources that changed
          MaxLaunches, \* bound: jobs started
          MaxUpsets    \* bound: cases that raise, workers that die and rebuilds

ASSUME BenchAssumption == Pairs \in Nat \ {0} /\ NoHost \notin Hosts
\* --shard is checked; a comparison is of two arms, an A/A run's being two copies of
\* one build (cluster/README.md).
ASSUME JobsAssumption ==
    /\ IsFiniteSet(Jobs)
    /\ \A j \in Jobs : /\ j.n \in Nat /\ j.k \in 0..(j.n - 1)
                       /\ j.arms = <<j.arms[1], j.arms[2]>> /\ j.arms[1] # j.arms[2]
\* The cases are the keys of a dictionary.
ASSUME CasesAssumption ==
    CaseIds \in Seq(ToSet(CaseIds)) /\ \A i, k \in DOMAIN CaseIds : CaseIds[i] = CaseIds[k] => i = k
ASSUME RebuiltAssumption == \E j \in Jobs : Rebuilt \in ToSet(j.arms)

VARIABLES arm,      \* arm -> what its directory holds: the extension and arm.json, 0 is absent
          proc,     \* job -> its process
          file,     \* job -> its result file
          launches, upsets

benchVars == <<arm, proc, file, launches, upsets>>

ArmNames == UNION {ToSet(j.arms) : j \in Jobs}
NewBuild == 2
Off == [pc |-> "off"]
NoFile == [st |-> "none"]

BenchInit ==
    /\ arm = [a \in ArmNames |-> [so |-> 1, meta |-> 1]]
    /\ proc = [j \in Jobs |-> Off]
    /\ file = [j \in Jobs |-> NoFile]
    /\ launches = 0 /\ upsets = 0

-----------------------------------------------------------------------------
\* Lone cases first, then one batch per shared fixture, in order of first sight.
Alone == {i \in DOMAIN CaseIds : GroupOf[CaseIds[i]] = NoGroup}
Fellows(i) == {k \in DOMAIN CaseIds : GroupOf[CaseIds[k]] = GroupOf[CaseIds[i]]}
Leads == {i \in DOMAIN CaseIds \ Alone : \A k \in Fellows(i) : i <= k}
Batches ==
    LET lone == Picked(CaseIds, Alone)
        lead == Ordered(Leads, Below)
    IN  [i \in DOMAIN lone |-> <<lone[i]>>] \o [i \in DOMAIN lead |-> Picked(CaseIds, Fellows(lead[i]))]

\* Batch i (from 0) goes to shard i % n; its slot is its place in the shard.
Mine(j) == Picked(Batches, {i \in DOMAIN Batches : (i - 1) % j.n = j.k})
CasesOf(j) == UNION {ToSet(Mine(j)[s]) : s \in DOMAIN Mine(j)}

\* seq is what is left of the shuffled batches, as slots from 1.
Parity_Shuffled(p, j, seq) == (p + Len(Mine(j)) - Len(seq)) % 2
Parity(p, j, seq) == (p + seq[1] - 1) % 2
Order(p, j, seq) == IF Parity(p, j, seq) = 0 THEN j.arms ELSE Reverse(j.arms)

\* The worker refuses an arm without arm.json or whose extension is another's.
Checked(a) == a.meta # 0 /\ a.so = a.meta

\* The rows a worker prints for its first n cases; bad are the cases that raise.
Printed(name, pr, batch, n, bad) ==
    [i \in 1..n |-> [case |-> batch[i], arm |-> name, pair |-> pr.pair, launch |-> pr.launch,
                     host |-> pr.host, so |-> arm[name].meta, error |-> batch[i] \in bad]]

\* The rows the parent adds for the cases a dead worker did not get to.
Missing_FromTheFront(batch, n) == SubSeq(batch, 1, Len(batch) - n)
Missing(batch, n) == SubSeq(batch, n + 1, Len(batch))
Fillers(name, pr, batch, n) ==
    LET left == Missing(batch, n)
    IN  [i \in DOMAIN left |-> [case |-> left[i], arm |-> name, pair |-> pr.pair, launch |-> pr.launch,
                                host |-> NoHost, so |-> 0, error |-> TRUE]]

-----------------------------------------------------------------------------
\* run: the shuffle depends on the pair alone, so every order is considered.
Shuffled(j) == Bijection(DOMAIN Mine(j), DOMAIN Mine(j))

\* After the last batch of a pair the file is written, and only then; a shard
\* without batches is written at once.
SaveDue_EachArm(seq, second) == TRUE
SaveDue(seq, second) == seq = <<>>
Stage(seq, second) == IF SaveDue(seq, second) THEN "open" ELSE "batch"

Launch(j, h) ==
    /\ proc[j].pc = "off"
    /\ launches < MaxLaunches
    /\ launches' = launches + 1
    /\ \E seq \in Shuffled(j) :
          proc' = [proc EXCEPT ![j] = [pc |-> Stage(seq, FALSE), host |-> h, launch |-> launches + 1,
                                       pair |-> 0, seq |-> seq, second |-> FALSE, rows |-> <<>>]]
    /\ UNCHANGED <<arm, file, upsets>>

\* One worker: the next arm of the next batch.
RunArm(j) ==
    LET pr == proc[j]
        batch == Mine(j)[pr.seq[1]]
        name == Order(pr.pair, j, pr.seq)[IF pr.second THEN 2 ELSE 1]
        runs == Checked(arm[name])
        seq == IF pr.second THEN Tail(pr.seq) ELSE pr.seq
    IN  /\ pr.pc = "batch" /\ pr.seq # <<>>
        /\ \E n \in 0..Len(batch) : \E bad \in SUBSET ToSet(SubSeq(batch, 1, n)) :
              LET cost == Cardinality(bad) + (IF runs /\ n < Len(batch) THEN 1 ELSE 0)
                  got == Printed(name, pr, batch, n, bad) \o Fillers(name, pr, batch, n)
              IN  /\ ~runs => n = 0
                  /\ upsets + cost <= MaxUpsets
                  /\ upsets' = upsets + cost
                  /\ proc' = [proc EXCEPT ![j] = [pr EXCEPT !.pc = Stage(seq, ~pr.second),
                                                           !.seq = seq, !.second = ~pr.second,
                                                           !.rows = pr.rows \o got]]
        /\ UNCHANGED <<arm, file, launches>>

\* open(out, "w") empties the file before json.dump fills it.
OpenFile(j) ==
    /\ proc[j].pc = "open"
    /\ file' = [file EXCEPT ![j] = [st |-> "torn"]]
    /\ proc' = [proc EXCEPT ![j].pc = "write"]
    /\ UNCHANGED <<arm, launches, upsets>>

\* The rest of the loop: the next pair's shuffle, or the end of the job.
WriteFile(j) ==
    LET pr == proc[j]
        next == pr.pair + 1
    IN  /\ pr.pc = "write"
        /\ file' = [file EXCEPT ![j] = [st |-> "whole", host |-> pr.host, arms |-> j.arms,
                                        pairs |-> Pairs, rows |-> pr.rows]]
        /\ IF pr.seq # <<>> THEN proc' = [proc EXCEPT ![j].pc = "batch"]
           ELSE IF next = Pairs THEN proc' = [proc EXCEPT ![j] = Off]
           ELSE \E seq \in Shuffled(j) :
                   proc' = [proc EXCEPT ![j] = [pr EXCEPT !.pc = Stage(seq, FALSE),
                                                             !.pair = next, !.seq = seq]]
        /\ UNCHANGED <<arm, launches, upsets>>

\* A batch system's time limit, a reboot, ^C: rows that were not saved are gone.
Kill(j) ==
    /\ proc[j].pc # "off"
    /\ proc' = [proc EXCEPT ![j] = Off]
    /\ UNCHANGED <<arm, file, launches, upsets>>

-----------------------------------------------------------------------------
\* build_arm: empty the directory, unpack the wheel, describe it in arm.json.
\* It may stop after any of them; rmtree ignores what it could not remove, and
\* makedirs then raises.
Clear(a) ==
    /\ upsets < MaxUpsets
    /\ upsets' = upsets + 1
    /\ \E so \in {0, arm[a].so}, meta \in {0, arm[a].meta} :
          arm' = [arm EXCEPT ![a] = [so |-> so, meta |-> meta]]
    /\ UNCHANGED <<proc, file, launches>>

Unpack(a) ==
    /\ arm[a].so = 0 /\ arm[a].meta = 0
    /\ arm' = [arm EXCEPT ![a].so = NewBuild]
    /\ UNCHANGED <<proc, file, launches, upsets>>

Describe(a) ==
    /\ arm[a] = [so |-> NewBuild, meta |-> 0]
    /\ arm' = [arm EXCEPT ![a].meta = NewBuild]
    /\ UNCHANGED <<proc, file, launches, upsets>>

BenchNext ==
    \/ \E j \in Jobs : (\E h \in Hosts : Launch(j, h))
                       \/ RunArm(j) \/ OpenFile(j) \/ WriteFile(j) \/ Kill(j)
    \/ Clear(Rebuilt) \/ Unpack(Rebuilt) \/ Describe(Rebuilt)

BenchSpec == BenchInit /\ [][BenchNext]_benchVars
=============================================================================
