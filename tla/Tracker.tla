------------------------------- MODULE Tracker -------------------------------
(***************************************************************************)
(* metrics.Tracker (pkg/metrics): how long the phases of builds take.      *)
(*                                                                         *)
(* A phase is known by <<name>>, a sub-phase by <<parent, name>>; the      *)
(* tracker keeps both in maps of the same shape, in lists of what is new,  *)
(* and handles them alike.  The lists are bags: the merge of two trackers  *)
(* goes through Go maps, in any order.                                     *)
(***************************************************************************)
EXTENDS Integers, Bags, TLC, SequencesExt, FiniteSetsExt

NewTracker == [phases |-> <<>>, order |-> EmptyBag]

Durations(t, key) == IF key \in DOMAIN t.phases THEN t.phases[key].durations ELSE <<>>
Listed(t, keys)   == [t EXCEPT !.order = @ (+) SetToBag(keys \ DOMAIN t.phases)]

\* StartPhase, StartSubPhase
StartPhase(t, key, now) ==
    [Listed(t, {key}) EXCEPT
        !.phases = [k \in DOMAIN @ \cup {key} |->
                       IF k = key THEN [durations |-> Durations(t, k), start |-> now] ELSE @[k]]]

\* EndPhase, EndSubPhase: a phase that never started is ignored
EndPhase(t, key, now) ==
    IF key \notin DOMAIN t.phases THEN t
    ELSE [t EXCEPT !.phases[key].durations = Append(@, now - t.phases[key].start)]

\* the merge in BenchRun; nothing starts in the aggregate
\* mutant: the last run counts
Merge_Last(agg, run) ==
    [Listed(agg, DOMAIN run.phases) EXCEPT
        !.phases = [key \in DOMAIN @ \cup DOMAIN run.phases |->
                       [durations |-> IF key \in DOMAIN run.phases THEN Durations(run, key)
                                                                    ELSE Durations(agg, key),
                        start |-> 0]]]
Merge(agg, run) ==
    [Listed(agg, DOMAIN run.phases) EXCEPT
        !.phases = [key \in DOMAIN @ \cup DOMAIN run.phases |->
                       [durations |-> Durations(agg, key) \o Durations(run, key), start |-> 0]]]

\* percentile: int(pct * float64(n - 1)), with pct in hundredths
Rank(percent, n) == (percent * (n - 1)) \div 100
Percentile(sorted, percent) == sorted[1 + Rank(percent, Len(sorted))]

\* sort.Slice: each item behind those that are not larger
Sorted(d) ==
    LET Insert(s, x) == InsertAt(s, 1 + Cardinality({i \in DOMAIN s : s[i] <= x}), x)
    IN  FoldLeft(Insert, <<>>, d)

\* computeStats
ComputeStats(durations) ==
    LET n      == Len(durations)
        sorted == Sorted(durations)
    IN  [count |-> n, avg |-> FoldLeft(+, 0, sorted) \div n,
         p50 |-> Percentile(sorted, 50), p95 |-> Percentile(sorted, 95),
         p99 |-> Percentile(sorted, 99), min |-> sorted[1], max |-> sorted[n]]

\* WriteTo and WriteJSON: a row for each entry of the lists that has samples,
\* the sub-phases with their parent's
Sampled(t, key) == Durations(t, key) # <<>>
Rows(t) ==
    [key \in {k \in BagToSet(t.order) : Sampled(t, k) /\ Sampled(t, <<k[1]>>)} |->
        [times |-> t.order[key], stats |-> ComputeStats(Durations(t, key))]]
=============================================================================
