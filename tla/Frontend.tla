------------------------------ MODULE Frontend -------------------------------
(***************************************************************************)
(* What reads the user's input: main and its builds (Benchmark), and the   *)
(* build context (BuildContext), which nothing in the repository opens     *)
(* yet.  They share no state, so a behaviour is of one or the other.       *)
(***************************************************************************)
EXTENDS Benchmark, BuildContext

allVars == <<vars, contextVars>>

\* main has failed with an empty Dockerfile
NoBuild ==
    /\ text = <<>> /\ pos = 1 /\ line = 1 /\ tokens = <<>> /\ phase = "refused"
    /\ cur = 1 /\ insts = <<>> /\ globals = <<>> /\ stages = <<>>
    /\ n = 0 /\ at = "end" /\ left = <<>> /\ tracker = NewTracker /\ agg = NewTracker
    /\ result = "error" /\ builds = <<>>

FrontendInit == (Init /\ NoContext) \/ (NoBuild /\ ContextInit)

Next == \/ Main /\ UNCHANGED contextVars
        \/ WalkContext /\ UNCHANGED vars

FrontendSpec ==
    FrontendInit /\ [][Next]_allVars /\ WF_allVars(Main /\ UNCHANGED contextVars)
=============================================================================
