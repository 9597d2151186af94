---------------------------- MODULE BuildContext -----------------------------
(***************************************************************************)
(* executor.BuildContext (pkg/executor/context.go): the files of a build   *)
(* context, without those its .dockerignore excludes.                      *)
(*                                                                         *)
(* A pattern is the sequence of its components: names, "*", and "" after a *)
(* trailing slash.                                                         *)
(***************************************************************************)
EXTENDS FileTree

CONSTANTS
    Contexts,       \* what a context directory may hold: trees
    IgnoreFiles     \* what .dockerignore may say: sequences of lines

\* a line: blank or comment, or a rule
Rule(pattern, negate) == [says |-> "rule", pattern |-> pattern, negate |-> negate]
NoRule == [says |-> "nothing"]

ASSUME ContextsAreTrees == \A t \in Contexts : IsTree(t)
ASSUME LinesAreRules ==
    \A file \in IgnoreFiles :
        /\ file \in Seq(Range(file))
        /\ \A l \in Range(file) : l.says = "rule" => l.negate \in BOOLEAN

VARIABLES
    root,       \* the context directory
    lines,      \* what the scanner of the ignore file has left
    rules,      \* BuildContext.ignoreRules
    doing,      \* "load", "walk", "done"; "none" when there is no context
    rest,       \* what filepath.Walk has still to look at
    walked      \* what WalkFiles has called fn with

contextVars == <<root, lines, rules, doing, rest, walked>>

NoContext ==
    /\ root = EmptyTree /\ lines = <<>> /\ rules = <<>>
    /\ doing = "none" /\ rest = {} /\ walked = <<>>

\* NewBuildContext; without a .dockerignore there are no lines
ContextInit ==
    /\ root \in Contexts /\ lines \in IgnoreFiles
    /\ rules = <<>> /\ rest = {} /\ walked = <<>>
    /\ doing = "load"

\* loadIgnoreFile: a turn of its loop, and its end
LoadLine ==
    /\ doing = "load" /\ lines # <<>>
    /\ rules' = IF Head(lines).says = "rule" THEN Append(rules, Head(lines)) ELSE rules
    /\ lines' = Tail(lines)
    /\ UNCHANGED <<root, doing, rest, walked>>

StartWalk ==
    /\ doing = "load" /\ lines = <<>>
    /\ doing' = "walk"
    /\ rest' = DOMAIN root
    /\ UNCHANGED <<root, lines, rules, walked>>

\* filepath.Match
Match(pattern, p) ==
    /\ Len(pattern) = Len(p)
    /\ \A i \in DOMAIN p : pattern[i] \in {"*", p[i]}

Matches(rule, p) ==
    \/ Match(rule.pattern, p) \/ Match(rule.pattern, <<Last(p)>>)
    \/ /\ Len(rule.pattern) > 1 /\ Last(rule.pattern) \in {"", "*"}
       /\ IsPrefix(Front(rule.pattern), p)

\* IsIgnored
\* mutant: the first rule that matches decides
IsIgnored_First(p) ==
    FoldRight(LAMBDA r, ignored : IF Matches(r, p) THEN ~r.negate ELSE ignored, rules, FALSE)
IsIgnored(p) ==
    FoldLeft(LAMBDA ignored, r : IF Matches(r, p) THEN ~r.negate ELSE ignored, FALSE, rules)

\* filepath.Walk calls back for p next
IsNext(p) ==
    \E k \in DOMAIN WalkOrder :
        WalkOrder[k] = p /\ \A j \in 1..(k - 1) : WalkOrder[j] \notin rest

\* the callback of WalkFiles: an ignored directory is skipped with all that
\* is in it; fn may fail and end the walk
Ignore ==
    \E p \in rest :
        /\ doing = "walk" /\ IsNext(p) /\ IsIgnored(p)
        /\ rest' = {q \in rest : q # p /\ ~(IsDir(root[p]) /\ Below(q, p))}
        /\ UNCHANGED <<root, lines, rules, doing, walked>>

Visit ==
    \E p \in rest :
        /\ doing = "walk" /\ IsNext(p) /\ ~IsIgnored(p)
        /\ walked' = Append(walked, p)
        /\ \/ rest' = rest \ {p} /\ UNCHANGED doing
           \/ doing' = "done" /\ UNCHANGED rest
        /\ UNCHANGED <<root, lines, rules>>

EndWalk ==
    /\ doing = "walk" /\ rest = {}
    /\ doing' = "done"
    /\ UNCHANGED <<root, lines, rules, rest, walked>>

WalkContext == LoadLine \/ StartWalk \/ Ignore \/ Visit \/ EndWalk

-----------------------------------------------------------------------------

\* whether the last rule about p, if there is one, lets it in
LetsIn(p) ==
    LET about == {i \in DOMAIN rules : Matches(rules[i], p)}
    IN  about = {} \/ rules[CHOOSE i \in about : \A j \in about : j <= i].negate

\* What is walked is a tree in the order of the walk: a file is in it exactly
\* if the last rule about it, and the last rule about each of its directories,
\* lets it in.  So "!d/f" below an ignored d has no effect, whatever its
\* place, although d/f itself is not ignored and WalkFiles is said to walk "all
\* non-ignored files".  (IsIgnored's loop and the SkipDir of WalkFiles.)
WalkIsWhatRulesLeave ==
    doing \in {"walk", "done"} =>
        /\ IsInjective(walked)
        /\ \A i, j \in DOMAIN walked : Below(walked[j], walked[i]) => i < j
        /\ \A p \in DOMAIN root \ rest :
              p \in Range(walked) <=> \A q \in DOMAIN root : q = p \/ Below(p, q) => LetsIn(q)
=============================================================================
