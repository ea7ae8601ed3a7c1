---------------------------- MODULE BenchReport ----------------------------
(***************************************************************************)
(* What is made of the harness's result files: merge joins those of        *)
(* several shards, and the report compares the arms pair by pair.          *)
(***************************************************************************)
EXTENDS BenchRun

CONSTANT ResultOf   \* build -> what its cases compute, their fingerprint

ASSUME ResultAssumption == {1, NewBuild} \subseteq DOMAIN ResultOf

Readable == {j \in Jobs : file[j].st = "whole"}

\* The orders in which the readable files can be named on merge's command line.
Paths == UNION {Bijection(1..Cardinality(S), S) : S \in (SUBSET Readable) \ {{}}}

MergedRows(paths) ==
    LET joined[i \in 0..Len(paths)] == IF i = 0 THEN <<>> ELSE joined[i - 1] \o file[paths[i]].rows
    IN  joined[Len(paths)]

Agreed(paths) == \A i \in DOMAIN paths : file[paths[i]].arms = file[paths[1]].arms

\* The machines a case was measured on; a row without a host names one too.
Seen(paths, c) == {r.host : r \in {q \in ToSet(MergedRows(paths)) : q.case = c}}

Accepted(paths) == Agreed(paths) /\ \A c \in ToSet(CaseIds) : Cardinality(Seen(paths, c)) <= 1

-----------------------------------------------------------------------------
\* _paired: a case's rows of an arm by pair; of several for one pair the last.
Kept(rows, c, a, p) == {i \in DOMAIN rows : rows[i].case = c /\ rows[i].arm = a /\ rows[i].pair = p}
LastRow(rows, c, a, p) == rows[Max(Kept(rows, c, a, p))]

\* okp: the pairs in which neither arm's row is an error.
Comparable(rows, arms, c) ==
    {p \in {rows[i].pair : i \in DOMAIN rows} :
        \A i \in {1, 2} : Kept(rows, c, arms[i], p) # {} /\ ~LastRow(rows, c, arms[i], p).error}

Prints(rows, c, a, pairs) == {ResultOf[LastRow(rows, c, a, p).so] : p \in pairs}

\* The report's word on whether both arms computed the same.
Fingerprint(rows, arms, c) ==
    LET okp == Comparable(rows, arms, c)
        fa == Prints(rows, c, arms[1], okp)
        fb == Prints(rows, c, arms[2], okp)
    IN  IF fa = fb /\ Cardinality(fa) = 1 THEN "identical"
        ELSE IF Cardinality(fa) > 1 \/ Cardinality(fb) > 1 THEN "nondeterministic"
        ELSE "DIFFERENT"

\* Every table the report can be given: a job's own file or an accepted merge.
Reported == {paths \in Paths : Len(paths) = 1 \/ Accepted(paths)}

-----------------------------------------------------------------------------
\* After an even number of pairs each arm has gone first in half of a case's
\* pairs, whatever the shuffles, the sharding and the faults were.
ArmsRunFirstEqually ==
    \A j \in Readable :
        LET rows == file[j].rows
            done == {rows[i].pair : i \in DOMAIN rows}
            first(c, p) == rows[Min({i \in DOMAIN rows : rows[i].case = c /\ rows[i].pair = p})].arm
        IN  Cardinality(done) % 2 = 0 =>
              \A c \in CasesOf(j) : 2 * Cardinality({p \in done : first(c, p) = j.arms[1]})
                                       = Cardinality(done)

\* A readable result file holds, for every pair it has, exactly one row of each
\* case of its shard and each arm, and an error-free row names the build that
\* its arm's directory was described to hold.  A failed worker drops nothing.
RowsComplete ==
    \A j \in Readable :
        LET rows == file[j].rows
            done == {rows[i].pair : i \in DOMAIN rows}
        IN  /\ \A c \in CasesOf(j), a \in ToSet(j.arms), p \in done : Cardinality(Kept(rows, c, a, p)) = 1
            /\ Len(rows) = Cardinality(CasesOf(j)) * 2 * Cardinality(done)
            /\ \A i \in DOMAIN rows : ~rows[i].error => rows[i].so \in DOMAIN ResultOf /\ rows[i].host \in Hosts

\* What the report compares belongs together: the two rows of a pair come from
\* one run of the harness on one machine, and "identical" is said only when all
\* compared rows, of every pair, ran builds that compute the same.
ReportsCompareLike ==
    \A paths \in Reported :
        LET rows == MergedRows(paths)
            arms == file[paths[1]].arms
        IN  \A c \in {rows[i].case : i \in DOMAIN rows} :
              /\ \A p \in Comparable(rows, arms, c) :
                    LET x == LastRow(rows, c, arms[1], p)
                        y == LastRow(rows, c, arms[2], p)
                    IN  x.launch = y.launch /\ x.host = y.host /\ x.host # NoHost
              /\ Fingerprint(rows, arms, c) = "identical" =>
                    \A p, q \in Comparable(rows, arms, c) : \A i, k \in {1, 2} :
                        ResultOf[LastRow(rows, c, arms[i], p).so] = ResultOf[LastRow(rows, c, arms[k], q).so]
=============================================================================
