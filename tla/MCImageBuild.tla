---------------------------- MODULE MCImageBuild ----------------------------
(***************************************************************************)
(* A small instance of ImageBuild: two file names, two contents, and every *)
(* Dockerfile of at most WideLen instructions over a set that has each     *)
(* kind of handler, or of DeepLen over those that make layers.             *)
(***************************************************************************)
EXTENDS ImageBuild

CONSTANTS v1, v2, WideLen, DeepLen

MCName    == {<<"f">>, <<"d", "f">>}
MCVal     == {v1, v2}
MCContext == [s \in {<<"f">>, <<"src", "f">>} |-> IF s = <<"f">> THEN v1 ELSE v2]
MCSetting == {"Cmd", "Entrypoint", "WorkingDir", "D"}

\* a command that writes a file, and one that deletes one and writes another
MCRunEffects ==
    {[n \in MCName |-> IF n = <<"f">> THEN v1 ELSE Keep],
     [n \in MCName |-> IF n = <<"f">> THEN Absent ELSE v2]}

Nop(op, raw) == [op |-> op, raw |-> raw, sets |-> [s \in {} |-> <<>>], vars |-> [s \in {} |-> <<>>],
                 arg |-> <<>>, var |-> NoVar, dst |-> <<>>, from |-> FALSE, bare |-> FALSE]
Sets(op, s)  == [Nop(op, op) EXCEPT !.sets = [x \in {s} |-> <<"d">>]]

MCInstructions ==
    {Nop("FROM", "FROM"), Nop("RUN", "RUN"),
     [Nop("COPY", "COPY f f") EXCEPT !.arg = <<"f">>, !.dst = <<"f">>],
     [Nop("ADD", "ADD $D f") EXCEPT !.var = "D", !.dst = <<"f">>],
     [Nop("COPY", "COPY --from") EXCEPT !.arg = <<"f">>, !.dst = <<"f">>, !.from = TRUE],
     [Nop("WORKDIR", "WORKDIR /d") EXCEPT !.arg = <<"/", "d">>],
     [Nop("WORKDIR", "WORKDIR") EXCEPT !.bare = TRUE],
     [Nop("WORKDIR", "WORKDIR $D") EXCEPT !.var = "D"],
     [Nop("ENV", "ENV D=src") EXCEPT !.sets = [x \in {"D"} |-> <<"src">>],
                                     !.vars = [x \in {"D"} |-> <<"src">>]],
     Sets("ENV", "D"),
     [Nop("ARG", "ARG D=d") EXCEPT !.vars = [x \in {"D"} |-> <<"d">>]],
     Sets("CMD", "Cmd"), Sets("ENTRYPOINT", "Entrypoint"),
     Nop("ONBUILD", "ONBUILD")}

MCRaw == {i.raw : i \in MCInstructions}

MCDeepInstructions == {i \in MCInstructions : i.raw \in {"FROM", "RUN", "COPY f f"}}

\* a first FROM, then any instructions, or more of those that make layers
MCPrograms ==
    {<<Nop("FROM", "FROM")>> \o p : p \in BoundedSeq(MCInstructions, WideLen - 1)
                                            \cup BoundedSeq(MCDeepInstructions, DeepLen - 1)}
=============================================================================
