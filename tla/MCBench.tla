------------------------------ MODULE MCBench ------------------------------
(* A lone case and a batch of two; one job runs all of them, two jobs      *)
(* halve them between machines, one names the arms the other way round.  A *)
(* third shard of three has no batch.                                      *)
EXTENDS BenchReport, TLC

MCCaseIds == <<"A", "C", "D">>
MCGroupOf == [c \in {"A", "C", "D"} |-> IF c = "A" THEN "none" ELSE "d8"]
MCJobs == {[k |-> 0, n |-> 1, arms |-> <<"a", "b">>], [k |-> 1, n |-> 2, arms |-> <<"a", "b">>],
           [k |-> 0, n |-> 2, arms |-> <<"b", "a">>], [k |-> 2, n |-> 3, arms |-> <<"a", "b">>]}
HostsAlike == Permutations(Hosts)
MCResultOf == [b \in {1, 2} |-> b]
=============================================================================
