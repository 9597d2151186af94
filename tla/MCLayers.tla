------------------------------ MODULE MCLayers ------------------------------
(***************************************************************************)
(* Small trees: a directory and a file at the root, a file in the          *)
(* directory, and the marker files that may lie beside them.               *)
(***************************************************************************)
EXTENDS Layers, TLC

CONSTANTS w1, w2

MCWhiteoutOf == "f" :> ".wh.f" @@ "d" :> ".wh.d"
MCOpaque     == ".wh..wh..opq"
MCWalkOrder  == << <<".wh..wh..opq">>, <<".wh.f">>, <<"d">>, <<"d", ".wh..wh..opq">>,
                   <<"d", ".wh.f">>, <<"d", "f">>, <<"f">> >>

AsDir  == [kind |-> "dir", size |-> 0]
AsFile == [kind |-> "file", size |-> 0]
Long   == [kind |-> "file", size |-> 2]
Other  == {[kind |-> k, size |-> 0] : k \in {"newdir", "link", "dev"}}

\* every tree over some of the names, markers as empty files
TreesOver(names) ==
    {t \in UNION {[ps -> {AsDir, AsFile, Long} \cup Other] : ps \in SUBSET names} :
        /\ IsTree(t)
        /\ \A p \in DOMAIN t : Last(p) \in Range(MCWhiteoutOf) \cup {MCOpaque} => t[p] = AsFile}

Name(i)  == MCWalkOrder[i]
MCUppers == UNION {TreesOver({Name(i) : i \in some}) :
                     some \in {{3, 4, 6}, {2, 3, 7}, {3, 5, 6}, {1, 7}, {3, 6, 7}}}
MCLowers == {EmptyTree, <<"f">> :> Long, <<"f">> :> AsDir,
             <<"d">> :> AsDir @@ <<"d", "f">> :> Long @@ <<"f">> :> AsFile,
             <<"d">> :> [kind |-> "link", size |-> 0] @@ <<"f">> :> Long}

\* one writer with any upper directory; two with one entry each, maybe the same
Alone    == {w1 :> t : t \in MCUppers}
Together == {w1 :> (<<"f">> :> [kind |-> "link", size |-> 0]) @@ w2 :> (<<"f">> :> [kind |-> k, size |-> 0]) :
               k \in {"link", "dir"}}
MCScenarios == Alone \cup Together
=============================================================================
