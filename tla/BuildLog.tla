------------------------------ MODULE BuildLog ------------------------------
(***************************************************************************)
(* What a build promises, with nothing of how it is done: the steps of a   *)
(* script are applied in order, each adding at most one layer on top of    *)
(* the others; the log is closed once, and an image comes out of it only   *)
(* when every step has been applied.                                       *)
(***************************************************************************)
EXTENDS Naturals, Sequences

CONSTANTS Content,    \* what a layer may hold
          NoImage     \* nothing published

VARIABLES script,     \* the steps to apply, in order
          log,        \* the steps applied
          stack,      \* the layers they added, bottom first
          image,      \* what was published
          open        \* the build still runs

logVars == <<script, log, stack, image, open>>

Init ==
    /\ log = <<>>
    /\ stack = <<>>
    /\ image = NoImage
    /\ open = TRUE

Apply ==
    /\ open = TRUE
    /\ Len(log) < Len(script)
    /\ log' = Append(log, script[Len(log) + 1])
    /\ \/ stack' = stack
       \/ \E c \in Content : stack' = Append(stack, c)
    /\ UNCHANGED <<script, image, open>>

Publish ==
    /\ open = TRUE
    /\ log = script
    /\ image' = [steps |-> log, layers |-> stack]
    /\ open' = FALSE
    /\ UNCHANGED <<script, log, stack>>

Abort ==
    /\ open = TRUE
    /\ open' = FALSE
    /\ UNCHANGED <<script, log, stack, image>>

Next == Apply \/ Publish \/ Abort

Spec == Init /\ [][Next]_logVars
=============================================================================
