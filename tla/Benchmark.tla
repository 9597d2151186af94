------------------------------ MODULE Benchmark ------------------------------
(***************************************************************************)
(* main: one build or, with -bench=n, n builds of the same Dockerfile, and *)
(* the report of how long their phases took.  runBuild parses (module      *)
(* Dockerfile), executes what it parsed (in detail in ImageBuild; here an  *)
(* instruction is its phases) and exports.  One goroutine does all.        *)
(***************************************************************************)
EXTENDS Dockerfile, Tracker

CONSTANTS
    Iterations,    \* the values of -bench, 0 for a single build
    MaxTime        \* bound: no instruction takes longer; nothing else takes time

ASSUME BenchConstants == 0 \in Iterations /\ Iterations \subseteq Nat /\ MaxTime \in Nat

VARIABLES
    n,          \* -bench
    at,         \* where runBuild is
    left,       \* instructions not yet executed
    tracker,    \* of this build
    agg,        \* of the benchmark
    result,     \* of main
    builds      \* history: the trackers of the builds that ended well

buildVars == <<n, at, left, tracker, agg, result, builds>>
vars == <<dockerfileVars, buildVars>>

TypeOK ==
    /\ DockerfileTypeOK
    /\ n \in Iterations
    /\ at \in {"start", "parse", "execute", "end"}
    /\ Range(left) \subseteq Range(insts)
    /\ \A t \in {tracker, agg} : \A key \in DOMAIN t.phases :
        /\ t.phases[key].durations \in Seq(0..MaxTime)
        /\ Len(key) = 2 => <<key[1]>> \in DOMAIN t.phases
    /\ result \in {"none", "ok", "error"}

Init ==
    /\ DockerfileInit
    /\ n \in Iterations
    /\ at = "start" /\ left = <<>>
    /\ tracker = NewTracker /\ agg = NewTracker
    /\ result = "none" /\ builds = <<>>

\* a phase that takes that long
Timed(t, key, time) == EndPhase(StartPhase(t, key, 0), key, time)

\* BenchRun's fn(run): a fresh tracker, and the file is read again
StartBuild ==
    /\ at = "start"
    /\ tracker' = StartPhase(NewTracker, <<"Dockerfile Parse">>, 0)
    /\ at' = "parse"
    /\ pos' = 1 /\ line' = 1 /\ tokens' = <<>> /\ phase' = "lex"
    /\ cur' = 1 /\ insts' = <<>> /\ globals' = <<>> /\ stages' = <<>>
    /\ UNCHANGED <<text, n, left, agg, result, builds>>

ParseDockerfile == at = "parse" /\ Parse /\ UNCHANGED buildVars

Parsed ==
    /\ at = "parse" /\ phase = "parsed"
    /\ tracker' = EndPhase(tracker, <<"Dockerfile Parse">>, 0)
    /\ left' = FlattenSeq([s \in DOMAIN stages |-> stages[s].insts])
    /\ at' = "execute"
    /\ UNCHANGED <<dockerfileVars, n, agg, result, builds>>

\* every error ends main: of the read, of the parser, of any phase of an
\* instruction, of the export; also an instruction without handler, and the
\* interrupt
Fail ==
    /\ \/ at = "parse" /\ phase \in {"lex", "refused"} /\ (phase = "lex" => pos = 1)
       \/ at = "execute"
    /\ result' = "error" /\ at' = "end"
    /\ UNCHANGED <<dockerfileVars, n, left, tracker, agg, builds>>

-----------------------------------------------------------------------------
(* executeInstruction, as far as the tracker sees it.                      *)

Filesystem == {"RUN", "COPY", "ADD"}
Inst   == Head(left)
Looked == Timed(tracker, <<"Cache Lookup">>, 0)

Execute(after) ==
    /\ at = "execute" /\ left # <<>>
    /\ tracker' = after
    /\ left' = Tail(left)
    /\ UNCHANGED <<dockerfileVars, n, at, agg, result, builds>>

\* a hit, or a handler that only changes the configuration
LookupOnly == left # <<>> /\ Inst.op # "ONBUILD" /\ Execute(Looked)

FilesystemInstruction ==
    /\ left # <<>> /\ Inst.op \in Filesystem
    /\ \E time \in 0..MaxTime :
        LET executed == Timed(Timed(Looked, <<"RootFS Prepare">>, 0), <<"Instruction Execute">>, time)
            diffed   == Timed(StartPhase(executed, <<"Layer Snapshot">>, 0),
                              <<"Layer Snapshot", "Diff">>, 0)
            written  == EndPhase(Timed(diffed, <<"Layer Snapshot", "Tar+Compress">>, 0),
                                 <<"Layer Snapshot">>, 0)
        IN  Execute(Timed(written, <<"Metadata Store">>, 0))

\* the export ends the build; BenchRun merges and goes on
Export ==
    LET ended == Timed(tracker, <<"OCI Export">>, 0) IN
    /\ at = "execute" /\ left = <<>>
    /\ tracker' = ended
    /\ agg' = IF n = 0 THEN agg ELSE Merge(agg, ended)
    /\ builds' = Append(builds, ended)
    /\ IF Len(builds') < n THEN at' = "start" /\ UNCHANGED result
                           ELSE at' = "end" /\ result' = "ok"
    /\ UNCHANGED <<dockerfileVars, n, left>>

Main == \/ StartBuild \/ ParseDockerfile \/ Parsed \/ Fail
        \/ LookupOnly \/ FilesystemInstruction \/ Export

-----------------------------------------------------------------------------
(* What the report says.                                                   *)

Reported == IF n = 0 THEN tracker ELSE agg
Samples_(key) == FlattenSeq([b \in DOMAIN builds |-> Durations(builds[b], key)])

\* v is the sample of d at this share of the way from the least to the
\* largest, or the last before it
AtRank(v, d, percent) ==
    LET below  == Cardinality({i \in DOMAIN d : d[i] < v})
        atMost == Cardinality({i \in DOMAIN d : d[i] <= v})
        place  == percent * (Len(d) - 1)
    IN  100 * below <= place /\ place < 100 * atMost
RightStats(s, d) ==
    /\ s.count = Len(d)
    /\ AtRank(s.min, d, 0) /\ AtRank(s.p50, d, 50) /\ AtRank(s.p95, d, 95)
    /\ AtRank(s.p99, d, 99) /\ AtRank(s.max, d, 100)
    /\ s.min <= s.avg /\ s.avg <= s.max

\* A report has one row for every phase of any build, made of the samples of
\* all builds in their order, none lost and none twice; every instruction of
\* every stage was looked up once per build; a phase that began has ended as
\* often as the others of its instruction; each statistic is a sample at its
\* rank.  (BenchRun's merge of maps, StartPhase, EndPhase, computeStats.)
\* That rank is rounded down, so it is not the README's "95% of builds finish
\* within X": of two builds p95 and p99 are the faster one.
BenchReports ==
    result = "ok" =>
        LET rows == Rows(Reported)
            count(key) == Len(Durations(Reported, key))
        IN  /\ DOMAIN rows = UNION {DOMAIN builds[b].phases : b \in DOMAIN builds}
            /\ \A key \in DOMAIN rows :
                /\ rows[key].times = 1
                /\ Durations(Reported, key) = Samples_(key)
                /\ RightStats(rows[key].stats, Samples_(key))
            /\ Len(builds) = Max({n, 1})
            /\ count(<<"Dockerfile Parse">>) = Len(builds) /\ count(<<"OCI Export">>) = Len(builds)
            /\ count(<<"Cache Lookup">>) = Len(builds) * (Len(insts) - Len(globals))
            /\ \A key \in DOMAIN rows :
                key \notin {<<"Dockerfile Parse">>, <<"OCI Export">>, <<"Cache Lookup">>} =>
                    count(key) = count(<<"RootFS Prepare">>)

\* Every build and every benchmark ends, with a report or an error, unless
\* the lexer stands still: at a backslash before a carriage return that no
\* newline follows, it adds empty tokens for ever.  (Tokenize, scanWord.)
Stuck == \E i \in DOMAIN text : Is(i, {"bs"}) /\ Is(i + 1, {"cr"}) /\ ~Is(i + 2, {"nl"})
BuildsEnd == (~Stuck) => <>(result # "none")
=============================================================================
