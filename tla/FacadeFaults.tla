---------------------------- MODULE FacadeFaults ----------------------------
(***************************************************************************)
(* ToroidalNN when calls overlap or do not run to their end.               *)
(*                                                                         *)
(* The compiled core releases the interpreter lock while it works: in the  *)
(* scan inside _tune, in build, in update, in promote and in queries.  A   *)
(* call is therefore cut into steps at those places, and other threads run *)
(* in between.  All but the first hold the index object borrowed, so that  *)
(* PyO3 refuses other calls on that object; nothing keeps another thread   *)
(* from the facade's own attributes, or from installing another index.     *)
(*                                                                         *)
(* A call may also raise: a hint that does not convert, a build that fails *)
(* (no memory, an interrupt, a backend that is not installed, a negative k *)
(* that only the tuner's scan refuses), or an index that is borrowed.  The *)
(* facade has no rollback: what was done before stays done.                *)
(***************************************************************************)
EXTENDS MCFacade, TLC

CONSTANT Threads

\* One facade that retunes and one whose tables are pinned, thresholds crossed.
FaultyConfigs ==
    {[knn |-> 0, radius |-> 1, canRetune |-> TRUE, planned |-> FALSE],
     [knn |-> 1, radius |-> 0, canRetune |-> FALSE, planned |-> FALSE]}

\* The threads are interchangeable.
ThreadsAlike == Permutations(Threads)

VARIABLES fault,   \* what failures and overtaken calls have left, see Levels
          inside,  \* each thread's call in progress, or NULL
          before   \* history: the facade as the orderly call in progress found it

\* A call where it has released the lock: batch is what promote was called with and
\* wasLsh the mode it found, size the points _tune counted; live while the served index
\* is the one it borrows, crossed once another call has changed the facade; found the
\* level the call began at, or lost once it is crossed.
Calls == [op : {"query", "update", "promote", "tune", "build"},
          batch : Batches, wasLsh : BOOLEAN, size : Nat,
          found : {"none", "untuned", "stale", "lost"}, live : BOOLEAN, crossed : BOOLEAN]

ASSUME NullIsNoCall == NULL \notin Calls

\* none: nothing; untuned: the points agree, mode, tuning or snapshot may not;
\* stale: the index may hold other candidate rows; lost: anything.  A call that is
\* under way counts with what it has not done yet.
Levels == <<"none", "untuned", "stale", "lost">>
Rank(level) == CHOOSE i \in 1..4 : Levels[i] = level
Worse(a, b) == Levels[Max({Rank(a), Rank(b)})]

-----------------------------------------------------------------------------
At(t, op) == inside[t] # NULL /\ inside[t].op = op

Call(op) == [op |-> op, batch |-> <<>>, wasLsh |-> FALSE, size |-> 0, found |-> "none",
             live |-> TRUE, crossed |-> FALSE]

\* _build_lsh up to the scan in _tune, which works on copies and borrows no index.
Tuning(n, level) == [Call("tune") EXCEPT !.size = n, !.found = level, !.live = FALSE]

\* t goes on as call.
Goes(t, call) == inside' = [inside EXCEPT ![t] = call]

\* t changes the facade and goes on as call; every other call in progress is crossed.
Crosses(t, call) ==
    inside' = [s \in Threads |->
                  IF s = t THEN call
                  ELSE IF inside[s] = NULL THEN NULL
                  ELSE [inside[s] EXCEPT !.crossed = TRUE, !.found = "lost"]]

\* t also replaces the index: other calls go on inside the old one, which no longer serves.
Replaces(t, call) ==
    inside' = [s \in Threads |->
                  IF s = t THEN call
                  ELSE IF inside[s] = NULL THEN NULL
                  ELSE [inside[s] EXCEPT !.crossed = TRUE, !.found = "lost", !.live = FALSE]]

\* Whether a compiled index is in the middle of a call.
Borrowed ==
    impl.kind \in {"lsh", "unbuilt"} /\ \E t \in Threads : inside[t] # NULL /\ inside[t].live

-----------------------------------------------------------------------------
\* fit up to int(k) or float(radius), which raise.
RejectFit(t, P, ns) ==
    /\ inside[t] = NULL
    /\ ns \in 0..Len(P)
    /\ arena' = P
    /\ nStatic' = ns
    /\ fault' = "lost"
    /\ Crosses(t, NULL)
    /\ UNCHANGED <<config, radiusHint, index>>

\* A fit that stays exact, over whatever it finds.
FitExact(t, P, ns, hint) ==
    /\ inside[t] = NULL
    /\ Len(P) <= FitThreshold(hint)
    /\ Fit(P, ns, hint)
    /\ fault' = "none"
    /\ Replaces(t, NULL)

FitTunes(t, P, ns, hint) ==
    /\ inside[t] = NULL
    /\ ns \in 0..Len(P)
    /\ Len(P) > FitThreshold(hint)
    /\ arena' = P
    /\ nStatic' = ns
    /\ radiusHint' = hint
    /\ useLsh' = TRUE
    /\ fault' = "lost"
    /\ Crosses(t, Tuning(Len(P), fault))
    /\ UNCHANGED <<config, impl, candRef, driftLimit, tunedN, expectedRecall>>

-----------------------------------------------------------------------------
\* The rest of _tune, and _make_lsh up to where build releases the lock: the new
\* index has copied what the facade holds by then, and is borrowed.
Installs(t) ==
    /\ At(t, "tune")
    /\ tunedN' = inside[t].size
    /\ driftLimit' \in DriftLimits
    /\ expectedRecall' = IF config.planned THEN "predicted" ELSE expectedRecall
    /\ impl' = Impl("lsh", arena, nStatic)
    /\ fault' = "untuned"
    /\ Replaces(t, [Call("build") EXCEPT !.found = inside[t].found,
                                             !.crossed = inside[t].crossed])
    /\ UNCHANGED <<config, arena, nStatic, radiusHint, useLsh, candRef>>

\* build is done: the last statement of _build_lsh.
Snapshots(t) ==
    /\ At(t, "build")
    /\ candRef' = Snapshot(arena, nStatic)
    /\ fault' = IF inside[t].crossed THEN Worse(fault, "untuned") ELSE "none"
    /\ Crosses(t, NULL)
    /\ UNCHANGED <<config, arena, nStatic, radiusHint, useLsh, impl, driftLimit, tunedN,
                   expectedRecall>>

\* The scan in _tune raises.
FailTune(t) ==
    /\ At(t, "tune")
    /\ Goes(t, NULL)
    /\ UNCHANGED <<vars, fault>>

\* _tune is done; _resolve or the constructor raises.
FailMake(t) ==
    /\ At(t, "tune")
    /\ tunedN' = inside[t].size
    /\ driftLimit' \in DriftLimits
    /\ expectedRecall' = IF config.planned THEN "predicted" ELSE expectedRecall
    /\ fault' = Worse(fault, "untuned")
    /\ Crosses(t, NULL)
    /\ UNCHANGED <<config, arena, nStatic, radiusHint, useLsh, impl, candRef>>

\* build raises, with _impl already the new index.
FailBuild(t) ==
    /\ At(t, "build")
    /\ IF inside[t].live THEN impl' = Impl("unbuilt", <<>>, 0) /\ fault' = "lost"
                         ELSE UNCHANGED <<impl, fault>>
    /\ Crosses(t, NULL)
    /\ UNCHANGED <<config, arena, nStatic, radiusHint, useLsh, candRef, driftLimit, tunedN,
                   expectedRecall>>

-----------------------------------------------------------------------------
\* NumPy's broadcast of one row over n, and its refusal of other lengths.
Broadcasts(s, n) == Len(s) \in {1, n}
Stretched(s, n) == IF Len(s) = 1 THEN [i \in 1..n |-> s[1]] ELSE s

\* update measures drift on new[:len(_cand_ref)], which has as many rows as the
\* snapshot unless the snapshot is of another tier.
Measured(new) == useLsh /\ config.canRetune /\ candRef # NULL
Comparable(new) ==
    LET part == Min({Len(new), Len(candRef)})
    IN  part = Len(candRef) \/ part = 1 \/ Len(candRef) = 1
Drifts(new) ==
    /\ Measured(new) /\ Comparable(new) /\ new # <<>>
    /\ Drifted(Stretched(new, Len(candRef)), candRef, driftLimit)
Raises(new) == Measured(new) /\ ~Comparable(new)

\* Whether the index object takes coords: none that is borrowed does, and none
\* another number of rows.
Takes(new) ==
    /\ ~Borrowed
    /\ CASE impl.kind = "lsh" -> Len(new) = Len(impl.pts) - impl.nStatic
         [] impl.kind = "brute" -> Broadcasts(new, Len(impl.pts) - impl.nStatic)
         [] OTHER -> FALSE

\* update up to its assignment to the arena.
Writes(t, new) ==
    /\ inside[t] = NULL
    /\ Fitted
    /\ Len(new) = nCandidates
    /\ arena' = SubSeq(arena, 1, nStatic) \o new
    /\ UNCHANGED <<config, nStatic, radiusHint>>

UpdateTunes(t, new) ==
    /\ Writes(t, new)
    /\ Drifts(new)
    /\ fault' = Worse(fault, "stale")
    /\ Crosses(t, Tuning(nPoints, fault))
    /\ UNCHANGED index

\* The snapshot does not broadcast, or the index object refuses the rows.
RefuseUpdate(t, new) ==
    /\ Writes(t, new)
    /\ Raises(new) \/ (~Drifts(new) /\ ~Takes(new))
    /\ fault' = Worse(fault, "stale")
    /\ Crosses(t, NULL)
    /\ UNCHANGED index

\* A refresh of every candidate row makes the copies equal again, no more.
Repaired == IF fault = "stale" THEN "untuned" ELSE fault

\* What the index writes while it is borrowed nobody sees before it is done.
UpdateRefreshes(t, new) ==
    /\ Writes(t, new)
    /\ ~Raises(new) /\ ~Drifts(new) /\ Takes(new)
    /\ impl' = [impl EXCEPT !.pts = SubSeq(@, 1, impl.nStatic)
                                    \o Stretched(new, Len(impl.pts) - impl.nStatic)]
    /\ fault' = Repaired
    /\ Crosses(t, Call("update"))
    /\ UNCHANGED <<useLsh, candRef, driftLimit, tunedN, expectedRecall>>

-----------------------------------------------------------------------------
\* promote hands the batch to the index first: a refusal there changes nothing.
\* Only the compiled index, unbuilt, takes a batch, and only an empty one.
Accepts(C) ==
    /\ Fitted /\ ~Borrowed
    /\ impl.kind \in {"brute", "lsh"} \/ (impl.kind = "unbuilt" /\ C = <<>>)

\* Mutant: the index takes the batch and freezes nothing.
Frozen_NotYet(C) == Impl(impl.kind, impl.pts \o C, impl.nStatic)

\* The index with its candidates frozen and the batch installed.
Frozen(C) == Impl(impl.kind, impl.pts \o C, Len(impl.pts))

Promotes(t, C) ==
    /\ inside[t] = NULL
    /\ Accepts(C)
    /\ Max({Len(arena), Len(impl.pts)}) + Len(C) <= MaxPoints
    /\ impl' = Frozen(C)
    /\ fault' = "lost"
    /\ Crosses(t, [Call("promote") EXCEPT !.batch = C, !.wasLsh = useLsh, !.found = fault])
    /\ UNCHANGED <<config, arena, nStatic, radiusHint, useLsh, candRef, driftLimit, tunedN,
                   expectedRecall>>

\* Mutant: rows an update failed to write are still candidates after a promote.
Froze_Forgotten(call) == call.found

\* The index has frozen the candidate rows it had, whatever the arena says.
Froze(call) ==
    IF call.found = "stale" /\ nCandidates > 0 THEN "lost" ELSE call.found

RebuildsAt(n, wasLsh) ==
    IF wasLsh THEN config.canRetune /\ Outgrown(n) ELSE n > FitThreshold(radiusHint)

\* The rest of promote, on whatever arena and boundary it comes back to.
Freezes(t) ==
    LET call == inside[t]
        A == arena \o call.batch
    IN  /\ At(t, "promote")
        /\ Len(A) <= MaxPoints
        /\ arena' = A
        /\ nStatic' = nPoints
        /\ IF RebuildsAt(Len(A), call.wasLsh)
           THEN /\ useLsh' = TRUE
                /\ fault' = Worse(Froze(call), "untuned")
                /\ Crosses(t, Tuning(Len(A), Froze(call)))
                /\ UNCHANGED candRef
           ELSE /\ candRef' = IF call.wasLsh THEN Snapshot(A, nPoints) ELSE candRef
                /\ fault' = Froze(call)
                /\ Crosses(t, NULL)
                /\ UNCHANGED useLsh
        /\ UNCHANGED <<config, radiusHint, impl, driftLimit, tunedN, expectedRecall>>

-----------------------------------------------------------------------------
\* A query builds the index when its mode asks for LSH and the mode is exact.
QueryTunes(t, threshold) ==
    /\ inside[t] = NULL
    /\ Fitted /\ nPoints > threshold /\ ~useLsh
    /\ useLsh' = TRUE
    /\ fault' = Worse(fault, "untuned")
    /\ Crosses(t, Tuning(nPoints, fault))
    /\ UNCHANGED <<config, arena, nStatic, radiusHint, impl, candRef, driftLimit, tunedN,
                   expectedRecall>>

\* Queries share the index with each other and with nothing else.
QueryEnters(t) ==
    /\ inside[t] = NULL
    /\ Fitted /\ useLsh /\ impl.kind = "lsh"
    /\ \A s \in Threads : inside[s] # NULL /\ inside[s].live => inside[s].op = "query"
    /\ Goes(t, Call("query"))
    /\ UNCHANGED <<vars, fault>>

Leaves(t) ==
    /\ At(t, "update") \/ At(t, "query")
    /\ Goes(t, NULL)
    /\ UNCHANGED <<vars, fault>>

-----------------------------------------------------------------------------
\* The facade, as a record.
Now == [arena |-> arena, nStatic |-> nStatic, radiusHint |-> radiusHint, useLsh |-> useLsh,
        impl |-> impl, candRef |-> candRef, driftLimit |-> driftLimit, tunedN |-> tunedN,
        expectedRecall |-> expectedRecall]

\* The thread whose call began on a facade in order and has not been crossed.
Orderly ==
    {t \in Threads : /\ At(t, "promote") \/ At(t, "tune") \/ At(t, "build")
                     /\ inside[t].found = "none"}

Remembers ==
    before' = IF Orderly' = {} THEN Now' ELSE IF Orderly' = Orderly THEN before ELSE Now

FaultyInit ==
    /\ Init
    /\ fault = "none"
    /\ inside = [t \in Threads |-> NULL]
    /\ before = Now

RejectedFit == \E t \in Threads, P \in FitInputs, ns \in 0..MaxPoints : RejectFit(t, P, ns)

Step(t) ==
    \/ \E P \in FitInputs, ns \in 0..MaxPoints, hint \in Radii \cup {NULL} :
          FitExact(t, P, ns, hint) \/ FitTunes(t, P, ns, hint)
    \/ \E new \in Batches :
          UpdateTunes(t, new) \/ UpdateRefreshes(t, new) \/ RefuseUpdate(t, new) \/ Promotes(t, new)
    \/ \E threshold \in {config.knn, config.radius} : QueryTunes(t, threshold)
    \/ Installs(t) \/ Snapshots(t) \/ FailTune(t) \/ FailMake(t) \/ FailBuild(t)
    \/ Freezes(t) \/ QueryEnters(t) \/ Leaves(t)

FaultyNext == (RejectedFit \/ \E t \in Threads : Step(t)) /\ Remembers

allVars == <<vars, fault, inside, before>>

FaultySpec == FaultyInit /\ [][FaultyNext]_allVars

-----------------------------------------------------------------------------
\* What failed, refused and overtaken calls may leave behind in torann/wrapper.py, and
\* which later call has repaired it.  A build that nobody crossed repairs everything; a
\* refresh of the candidate rows repairs those and nothing else; a promote before that
\* freezes the rows the index happens to hold, which then no update reaches; and one
\* that comes back to a facade another call has changed may leave anything.
FaultsLeave ==
    /\ fault = "none" => ImplInSync /\ SnapshotFitsTier /\ DriftWithinLimit /\ GrowthWithinLimit
    /\ fault = "untuned" => impl.pts = arena /\ impl.nStatic = nStatic
    /\ fault \in {"none", "untuned", "stale"} =>
          /\ impl.nStatic = nStatic
          /\ Len(impl.pts) = nPoints
          /\ SubSeq(impl.pts, 1, nStatic) = SubSeq(arena, 1, nStatic)

Atomic == INSTANCE Facade
    WITH arena <- before.arena, nStatic <- before.nStatic, radiusHint <- before.radiusHint,
         useLsh <- before.useLsh, impl <- before.impl, candRef <- before.candRef,
         driftLimit <- before.driftLimit, tunedN <- before.tunedN,
         expectedRecall <- before.expectedRecall

\* A call that nothing changed the facade under, however many threads have queried it or
\* been refused meanwhile, does what the call does alone (torann/wrapper.py: _build_lsh,
\* update, promote, each with the lock released in the middle): from the facade it found to
\* the one it leaves is one step of Facade.
CallsAreAtomic ==
    /\ Atomic!Init
    /\ [][fault' = "none" /\ (fault = "none" \/ \E t \in Orderly : inside'[t] = NULL) =>
             Atomic!Next \/ UNCHANGED Atomic!vars]_allVars

\* After a first build that failed before anything was tuned, an exact index serves
\* what is_approximate calls LSH mode (_build_lsh sets _use_lsh first).  Growth never
\* gets it tuned, because the growth test asks for a tuned size: tuning begins again
\* only by a fit, by an update, once a promote has taken a snapshot to compare with,
\* or by a promote that was called before the mode changed.
NeverTunedOutlivesGrowth ==
    [][useLsh /\ tunedN = 0 =>
          \A t \in Threads : ~At(t, "tune") /\ At(t, "tune")' =>
              \/ \E P \in FitInputs, ns \in 0..MaxPoints, hint \in Radii \cup {NULL} :
                    FitTunes(t, P, ns, hint)
              \/ candRef # NULL /\ \E new \in Batches : UpdateTunes(t, new)
              \/ At(t, "promote") /\ ~inside[t].wasLsh]_allVars

\* What the next queries answer from: the default queries are the arena's
\* candidate rows, the exact scans of an LSH-mode index read the arena, and
\* everything else reads the index object.
Answering ==
    [queries |-> candidates,
     knn     |-> IF useLsh /\ nPoints <= config.knn THEN arena ELSE impl.pts,
     exact   |-> IF useLsh THEN arena ELSE impl.pts]

\* The input contract of wrapper.py ("checked here, before any state changes,
\* so a rejected call leaves the index as it was") and test C23 ("a rejected
\* call leaves the index answering as before").
RejectedFitAnswersAsBefore == [][RejectedFit => Answering' = Answering]_allVars
=============================================================================
