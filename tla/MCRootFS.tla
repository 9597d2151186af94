------------------------------ MODULE MCRootFS ------------------------------
(***************************************************************************)
(* Two scopes, one lower directory brought by the callers, two files.      *)
(***************************************************************************)
EXTENDS RootFSClients

CONSTANTS a, b, v1, v2

MCName     == {a, b}
MCVal      == {v1, v2}
MCBase     == {[id |-> 0, part |-> "base"]}
MCBaseTree == [n \in MCName |-> IF n = a THEN v1 ELSE Absent]
MCEffects  == {[n \in MCName |-> IF n = a THEN v2 ELSE Keep],
               [n \in MCName |-> IF n = a THEN Absent ELSE v1]}
=============================================================================
