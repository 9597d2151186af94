------------------------------- MODULE Layers -------------------------------
(***************************************************************************)
(* Snapshotter.Snapshot: the changes an instruction left in its upper      *)
(* directory become a gzipped tar in the blob directory (pkg/snapshotter), *)
(* through the pipeline and the pools of module Pools.                     *)
(*                                                                         *)
(* The pools are shared by all the goroutines of a process, so several     *)
(* writers may be at work; the build has one.  Processes that a RUN left   *)
(* behind may still change the upper directory (Leftover).  The bytes of a *)
(* file are blocks, as many as its size says; a block is known by the      *)
(* write it comes from, 0 what was there at the walk, n the n-th since.    *)
(***************************************************************************)
EXTENDS FileTree, Pools

CONSTANTS
    WhiteoutOf,     \* name -> the name with the prefix ".wh."
    Opaque,         \* ".wh..wh..opq"
    Lowers,         \* what the layers below may show: trees
    Scenarios,      \* what the instructions may leave: writer -> tree, who works
    MaxTouch        \* bound: how often leftover processes change something

Markers == Range(WhiteoutOf) \cup {Opaque}
Base(p)     == Last(p)
Dir(p)      == Front(p)
Whiteout(p) == Dir(p) \o <<WhiteoutOf[Base(p)]>>
Hidden(p)   == Dir(p) \o <<CHOOSE n \in DOMAIN WhiteoutOf : WhiteoutOf[n] = Base(p)>>

ASSUME BoundIsNumber == MaxTouch \in Nat
ASSUME ScenariosAreTrees ==
    /\ \A t \in Lowers : IsTree(t)
    /\ \A s \in Scenarios : DOMAIN s \subseteq Writers /\ \A w \in DOMAIN s : IsTree(s[w])
\* a link by that name, which would give its directory the header of a link,
\* is out of the model
ASSUME OpaqueMarkersAreFiles ==
    \A s \in Scenarios : \A w \in DOMAIN s : \A p \in DOMAIN s[w] :
        Base(p) = Opaque => s[w][p].kind = "file"
ASSUME WhiteoutsDiffer ==
    /\ IsInjective(WhiteoutOf) /\ Opaque \notin Range(WhiteoutOf)
    /\ \A p \in Path : Base(p) \in DOMAIN WhiteoutOf \cup Markers

\* a piece of a tar: a header, a block of a file, or the end mark
Piece(name, type, size, block) == [name |-> name, type |-> type, size |-> size, block |-> block]
Header(name, type, size) == Piece(name, type, size, 0)
Body(block) == Piece(<<>>, "body", 0, block)
End         == Header(<<>>, "end", 0)
TarChunk   == [name : Path \cup {Whiteout(p) : p \in {q \in Path : Base(q) \in DOMAIN WhiteoutOf}}
                        \cup {<<>>},
               type : {"dir", "reg", "link", "body", "end"}, size : 0..MaxSize, block : 0..MaxTouch]
ASSUME ChunksOfTar == Chunk = TarChunk

NoInfo == [kind |-> "none", size |-> 0]
Change == [path : Path \cup {Hidden(p) : p \in {q \in Path : Base(q) \in Range(WhiteoutOf)}},
           delete : BOOLEAN, info : Node \cup {NoInfo}]

VARIABLES
    upper,      \* what the instruction left: writer -> tree
    live,       \* what the upper directories hold by now: kinds and blocks
    been,       \* the blocks files have had since the walk: <<path, place, block>>
    touched,    \* how often something was changed there
    pc,         \* where each writer is in Snapshot
    changes,    \* what DiffDir returned
    at,         \* the change WriteTarLayer is at
    missing,    \* blocks the header promised that have not come
    layer,      \* what Snapshot returned
    named       \* the blobs named by their digest

snapshotVars == <<pc, changes, at, missing, layer, named>>
vars == <<poolVars, upper, live, been, touched, snapshotVars>>

NoLayer == [diffID |-> <<>>, digest |-> <<>>, renamed |-> FALSE]
Active  == DOMAIN upper

TypeOK ==
    /\ PoolsTypeOK
    /\ Active \subseteq Writers
    /\ \A w \in Active :
        /\ IsTree(upper[w]) /\ DOMAIN live[w] \subseteq Path
        /\ been[w] \subseteq Path \X (1..MaxSize) \X (0..MaxTouch)
    /\ touched \in 0..MaxTouch
    /\ pc \in [Writers -> {"diff", "create", "open", "entry", "body", "copy", "gzclose",
                           "flush", "sum", "put", "return", "rename", "done", "failed"}]
    /\ changes \in [Writers -> Seq(Change)]
    /\ \A w \in Writers : at[w] \in 1..(Len(changes[w]) + 1)
    /\ missing \in [Writers -> 0..MaxSize]
    /\ layer \in [Writers -> [diffID : Seq(Chunk), digest : Seq(Zipped), renamed : BOOLEAN]]
    /\ DOMAIN named \subseteq Seq(Zipped)

Init ==
    /\ PoolsInit
    /\ upper \in Scenarios
    /\ live = [w \in Active |-> [p \in DOMAIN upper[w] |->
                  [kind |-> upper[w][p].kind, blocks |-> [k \in 1..upper[w][p].size |-> 0]]]]
    /\ been = [w \in Active |->
                  UNION {{<<p, k, 0>> : k \in 1..upper[w][p].size} : p \in DOMAIN upper[w]}]
    /\ touched = 0
    /\ pc = [w \in Writers |-> "diff"]
    /\ changes = [w \in Writers |-> <<>>]
    /\ at = [w \in Writers |-> 1]
    /\ missing = [w \in Writers |-> 0]
    /\ layer = [w \in Writers |-> NoLayer]
    /\ named = [d \in {} |-> <<>>]

-----------------------------------------------------------------------------
(* Diffs.                                                                  *)

\* DiffDir's callback: a marker file is a deletion, or the addition of its
\* directory with the marker's own FileInfo
ChangeAt(t, p) ==
    IF Base(p) = Opaque
    THEN [path |-> Dir(p), delete |-> FALSE, info |-> t[p]]
    ELSE IF Base(p) \in Markers
    THEN [path |-> Hidden(p), delete |-> TRUE, info |-> NoInfo]
    ELSE [path |-> p, delete |-> FALSE, info |-> t[p]]

\* mutant: a marker at the root adds the root
DiffDir_Root(t) ==
    LET found == InWalkOrder(DOMAIN t) IN [i \in DOMAIN found |-> ChangeAt(t, found[i])]
DiffDir(t) ==
    LET found == InWalkOrder(DOMAIN t \ {<<Opaque>>})
    IN  [i \in DOMAIN found |-> ChangeAt(t, found[i])]

\* what a walk has found when an error breaks it off, or in the end: both
\* walks of DiffTwoDirs drop the error
Among(t, names) == [p \in DOMAIN t \cap names |-> t[p]]
Walked(t) == {Among(t, {WalkOrder[i] : i \in 1..k}) : k \in 0..Len(WalkOrder)}

\* the orders in which a range over a map may give its keys
Orders(keys) == {o \in [1..Cardinality(keys) -> keys] : Range(o) = keys}

\* DiffTwoDirs: what it may return for what its walks have found of the two
\* directories.  A write is taken to change a file's size or its time, and the
\* time alone may differ as well.
\* mutant: what was there before is taken to be as it was
DiffTwoDirs_AddedOnly(old, new) ==
    LET found == InWalkOrder(DOMAIN new \ DOMAIN old)
        gone  == DOMAIN old \ DOMAIN new
    IN  {[i \in DOMAIN found |-> [path |-> found[i], delete |-> FALSE, info |-> new[found[i]]]]
           \o [i \in DOMAIN left |-> [path |-> left[i], delete |-> TRUE, info |-> NoInfo]] :
         left \in Orders(gone)}
DiffTwoDirs(old, new) ==
    LET kept    == {p \in DOMAIN new \cap DOMAIN old : ~IsDir(new[p])}
        changed == (DOMAIN new \ DOMAIN old) \cup {p \in kept : new[p] # old[p]}
        gone    == DOMAIN old \ DOMAIN new
    IN  {LET found == InWalkOrder(changed \cup later) IN
         [i \in DOMAIN found |-> [path |-> found[i], delete |-> FALSE, info |-> new[found[i]]]]
           \o [i \in DOMAIN left |-> [path |-> left[i], delete |-> TRUE, info |-> NoInfo]] :
         later \in SUBSET kept, left \in Orders(gone)}

\* the header WriteTarLayer writes for a change, if any: a device has none
HeaderOf(c) ==
    IF c.delete THEN <<Header(Whiteout(c.path), "reg", 0)>>
    ELSE IF IsDir(c.info) THEN <<Header(c.path, "dir", 0)>>
    ELSE IF c.info.kind = "file" THEN <<Header(c.path, "reg", c.info.size)>>
    ELSE IF c.info.kind = "link" THEN <<Header(c.path, "link", 0)>>
    ELSE <<>>

-----------------------------------------------------------------------------
(* Snapshot.                                                               *)

Goto(w, where) == pc' = [pc EXCEPT ![w] = where]

\* the steps before the pipeline is there
Diff(w) ==
    /\ pc[w] = "diff" /\ w \in Active
    /\ changes' = [changes EXCEPT ![w] = DiffDir(upper[w])]
    /\ Goto(w, "create")
    /\ UNCHANGED <<poolVars, upper, live, been, touched, at, missing, layer, named>>

CreateTemp(w) ==
    /\ pc[w] = "create"
    /\ Goto(w, "open")
    /\ UNCHANGED <<poolVars, upper, live, been, touched, changes, at, missing, layer, named>>

EarlyError(w) ==
    /\ pc[w] \in {"diff", "create"} /\ w \in Active
    /\ Goto(w, "failed")
    /\ UNCHANGED <<poolVars, upper, live, been, touched, changes, at, missing, layer, named>>

Open(w) ==
    /\ pc[w] = "open"
    /\ NewStreamingPipeline(w)
    /\ Goto(w, "entry")
    /\ UNCHANGED <<upper, live, been, touched, changes, at, missing, layer, named>>

\* one turn of WriteTarLayer's loop: nothing to write, a header that is the
\* whole entry, or the header of a file
More(w)    == pc[w] = "entry" /\ at[w] <= Len(changes[w])
ToWrite(w) == HeaderOf(changes[w][at[w]])
IsFile(c)  == ~c.delete /\ c.info.kind = "file"

\* mutant: the loop goes on without its next change
SkipChange_Again(w) ==
    /\ More(w) /\ ToWrite(w) = <<>>
    /\ UNCHANGED vars
SkipChange(w) ==
    /\ More(w) /\ ToWrite(w) = <<>>
    /\ at' = [at EXCEPT ![w] = @ + 1]
    /\ UNCHANGED <<poolVars, upper, live, been, touched, pc, changes, missing, layer, named>>

\* tar refuses a header while bytes are missing; Readlink needs the link
WriteHeader(w) ==
    LET c == changes[w][at[w]] IN
    /\ More(w) /\ ToWrite(w) # <<>>
    /\ missing[w] = 0
    /\ ToWrite(w)[1].type = "link" => c.path \in DOMAIN live[w]
    /\ Write(w, ToWrite(w))
    /\ IF IsFile(c)
       THEN /\ missing' = [missing EXCEPT ![w] = c.info.size]
            /\ Goto(w, "body")
            /\ UNCHANGED at
       ELSE /\ at' = [at EXCEPT ![w] = @ + 1]
            /\ UNCHANGED <<missing, pc>>
    /\ UNCHANGED <<upper, live, been, touched, changes, layer, named>>

\* the copy of a file, which io.CopyBuffer reads piece by piece; the marker of
\* an opaque directory has named a directory, which is no file
Copied(w) == changes[w][at[w]].path
NextBlock(w) == changes[w][at[w]].info.size - missing[w] + 1

OpenFile(w) ==
    /\ pc[w] = "body"
    /\ Copied(w) \in DOMAIN live[w] /\ live[w][Copied(w)].kind = "file"
    /\ Goto(w, "copy")
    /\ UNCHANGED <<poolVars, upper, live, been, touched, changes, at, missing, layer, named>>

\* tar takes no more than the header has promised
CopyBlock(w) ==
    LET blocks == live[w][Copied(w)].blocks IN
    /\ pc[w] = "copy"
    /\ missing[w] > 0 /\ NextBlock(w) <= Len(blocks)
    /\ Write(w, <<Body(blocks[NextBlock(w)])>>)
    /\ missing' = [missing EXCEPT ![w] = @ - 1]
    /\ UNCHANGED <<upper, live, been, touched, pc, changes, at, layer, named>>

\* the end of the file, wherever it is by now
EndCopy(w) ==
    /\ pc[w] = "copy"
    /\ NextBlock(w) > Len(live[w][Copied(w)].blocks)
    /\ at' = [at EXCEPT ![w] = @ + 1]
    /\ Goto(w, "entry")
    /\ UNCHANGED <<poolVars, upper, live, been, touched, changes, missing, layer, named>>

\* tar.Writer.Close
\* mutant: the tar is closed whatever is missing
CloseTar_Short(w) ==
    /\ pc[w] = "entry" /\ at[w] > Len(changes[w])
    /\ Write(w, <<End>>)
    /\ Goto(w, "gzclose")
    /\ UNCHANGED <<upper, live, been, touched, changes, at, missing, layer, named>>
CloseTar(w) ==
    /\ pc[w] = "entry" /\ at[w] > Len(changes[w])
    /\ missing[w] = 0
    /\ Write(w, <<End>>)
    /\ Goto(w, "gzclose")
    /\ UNCHANGED <<upper, live, been, touched, changes, at, missing, layer, named>>

-----------------------------------------------------------------------------
(* StreamingPipeline.Close, and the rest of Snapshot.                      *)

FinishGzip(w) ==
    /\ pc[w] = "gzclose"
    /\ CloseGzip(w)
    /\ Goto(w, "flush")
    /\ UNCHANGED <<upper, live, been, touched, changes, at, missing, layer, named>>

FinishBuf(w) ==
    /\ pc[w] = "flush"
    /\ Flush(w)
    /\ Goto(w, "sum")
    /\ UNCHANGED <<upper, live, been, touched, changes, at, missing, layer, named>>

Sum(w) ==
    /\ pc[w] = "sum"
    /\ layer' = [layer EXCEPT ![w] = [diffID |-> sum[Pipe(w).uncomp],
                                      digest |-> sum[Pipe(w).comp], renamed |-> FALSE]]
    /\ Goto(w, "put")
    /\ UNCHANGED <<poolVars, upper, live, been, touched, changes, at, missing, named>>

GiveBack(w) ==
    /\ pc[w] = "put"
    /\ PutAll(w)
    /\ Goto(w, "return")
    /\ UNCHANGED <<using, held, sum, gz, buf, file, upper, live, been, touched, changes,
                   at, missing, layer, named>>

Return(w) ==
    /\ pc[w] = "return"
    /\ PutLargeBuffer(w)
    /\ Goto(w, "rename")
    /\ UNCHANGED <<held, sum, gz, buf, file, upper, live, been, touched, changes, at,
                   missing, layer, named>>

\* an error of any write or read: the pipeline is dropped, the file removed
WriteError(w) ==
    /\ \/ pc[w] \in {"body", "copy", "gzclose", "flush"}
       \/ pc[w] = "entry" /\ (More(w) => ToWrite(w) # <<>>)
    /\ PutLargeBuffer(w)
    /\ file' = [file EXCEPT ![w] = <<>>]
    /\ Goto(w, "failed")
    /\ UNCHANGED <<held, sum, gz, buf, upper, live, been, touched, changes, at, missing,
                   layer, named>>

\* a rename that fails leaves the temporary file as the layer's blob
Rename(w) ==
    /\ pc[w] = "rename"
    /\ \/ /\ named' = [d \in DOMAIN named \cup {layer[w].digest} |->
                          IF d = layer[w].digest THEN file[w] ELSE named[d]]
          /\ file' = [file EXCEPT ![w] = <<>>]
          /\ layer' = [layer EXCEPT ![w].renamed = TRUE]
       \/ UNCHANGED <<named, file, layer>>
    /\ Goto(w, "done")
    /\ UNCHANGED <<pooled, using, held, sum, gz, buf, upper, live, been, touched, changes,
                   at, missing>>

\* what a write may make of some blocks: n of them, each a new one or as it was
Rewritten(blocks, n, new) ==
    {b \in [1..n -> 0..MaxTouch] :
        \A k \in 1..n : b[k] = new \/ (k <= Len(blocks) /\ b[k] = blocks[k])}

\* a process the instruction left behind writes to a file, cuts it or removes
\* it; the removal of an open file changes nothing any more
Leftover(w) ==
    /\ touched < MaxTouch
    /\ pc[w] \notin {"diff", "done", "failed"}
    /\ touched' = touched + 1
    /\ \E p \in DOMAIN live[w] :
        /\ live[w][p].kind = "file"
        /\ \/ \E n \in 0..MaxSize : \E b \in Rewritten(live[w][p].blocks, n, touched + 1) :
                /\ live' = [live EXCEPT ![w][p].blocks = b]
                /\ been' = [been EXCEPT ![w] = @ \cup {<<p, k, b[k]>> : k \in 1..n}]
           \/ /\ ~(pc[w] = "copy" /\ Copied(w) = p)
              /\ live' = [live EXCEPT ![w] = [q \in DOMAIN live[w] \ {p} |-> live[w][q]]]
              /\ been' = been
    /\ UNCHANGED <<poolVars, upper, snapshotVars>>

Snapshot(w) ==
    \/ Diff(w) \/ CreateTemp(w) \/ EarlyError(w)
    \/ Open(w) \/ SkipChange(w) \/ WriteHeader(w)
    \/ OpenFile(w) \/ CopyBlock(w) \/ EndCopy(w) \/ CloseTar(w)
    \/ FinishGzip(w) \/ FinishBuf(w) \/ Sum(w) \/ GiveBack(w) \/ Return(w)
    \/ WriteError(w) \/ Rename(w)

Next == \E w \in Writers : Snapshot(w) \/ Leftover(w)

Spec == Init /\ [][Next]_vars /\ \A w \in Writers : WF_vars(Snapshot(w))

-----------------------------------------------------------------------------
(* What a layer is to who unpacks it.                                      *)

IsWhiteout(p) == Base(p) \in Range(WhiteoutOf)
IsMarker(p)   == Base(p) \in Markers
AtOrBelow(p, d) == p = d \/ Below(p, d)

\* a tree put over another: what is deleted there goes with all below it, and
\* so does what lies below a name that is no directory any more
Over(base, top, deleted) ==
    LET stays(p) == /\ \A d \in deleted : ~AtOrBelow(p, d)
                    /\ \A q \in DOMAIN top : Below(p, q) => IsDir(top[q])
    IN  [p \in {q \in DOMAIN base : stays(q)} \cup DOMAIN top |->
            IF p \in DOMAIN top THEN top[p] ELSE base[p]]

\* a tar applied as the OCI image specification says: whiteouts delete from
\* the layers below only, whatever their place in the archive
Entries(tar)  == {h \in Range(tar) : h.type \in {"dir", "reg", "link"}}
KindOf(type)  == IF type = "reg" THEN "file" ELSE type
Unpack(tar, base) ==
    LET names == {h.name : h \in {e \in Entries(tar) : ~IsMarker(e.name)}}
        entry(p) == CHOOSE h \in Entries(tar) : h.name = p
    IN  Over(base,
             [p \in names |-> [kind |-> KindOf(entry(p).type), size |-> entry(p).size]],
             {Hidden(h.name) : h \in {e \in Entries(tar) : IsWhiteout(e.name)}})

\* the header of a file is followed by as many blocks as it promised, each
\* one that was there, and no block has another place
HasBlocks(tar, i, was) ==
    \A k \in 1..tar[i].size : /\ i + k \in DOMAIN tar /\ tar[i + k].type = "body"
                              /\ <<tar[i].name, k, tar[i + k].block>> \in was
HasHeader(tar, i) ==
    \E j \in 1..(i - 1) : tar[j].type = "reg" /\ i <= j + tar[j].size
Framed(tar, was) ==
    /\ tar # <<>> /\ Last(tar) = End
    /\ \A i \in DOMAIN tar : /\ tar[i] = End => i = Len(tar)
                             /\ tar[i].type = "reg" => HasBlocks(tar, i, was)
                             /\ tar[i].type = "body" => HasHeader(tar, i)

\* what the marks of overlayfs hide of the layers below: a deleted name, and
\* what lies below a directory that was made anew
MarkHides(up, p) ==
    \E d \in DOMAIN up : ~IsMarker(d) /\ \/ up[d].kind = "dev" /\ AtOrBelow(p, d)
                                         \/ up[d].kind = "newdir" /\ Below(p, d)

\* what an upper directory means, as the comments of DiffDir have it: it is
\* the diff, a marker deletes, and one of opacity deletes all in its directory
Said(base, up) ==
    LET shown == {p \in DOMAIN up : ~IsMarker(p) /\ up[p].kind # "dev"}
    IN  Over(base,
             [p \in shown |-> IF IsDir(up[p]) THEN [kind |-> "dir", size |-> 0] ELSE up[p]],
             {Hidden(p) : p \in {q \in DOMAIN up : IsWhiteout(q)}}
               \cup {p \in DOMAIN base : MarkHides(up, p)}
               \cup {p \in DOMAIN base : \E m \in DOMAIN up : Base(m) = Opaque /\ Below(p, Dir(m))})

\* A layer that was returned is a complete archive.  The names in it, their
\* kinds and sizes, unpacked over the layers below, are what the upper
\* directory said when it was read; and every block of a file is one the file
\* had at that place at the time of the walk or since, even though it may be
\* written, cut or removed while it is copied: a copy may be torn between two
\* writes, but it is never short, never too long and never another file's.
\* Two things are out of this: a marker of opacity at the root, which DiffDir
\* drops, and layers below in which a mark of overlayfs hides something, which
\* nothing in the code reads.  (DiffDir, WriteTarLayer and the size check of
\* archive/tar.)
LayerShowsUpper ==
    \A w \in Active : pc[w] = "done" /\ <<Opaque>> \notin DOMAIN upper[w] =>
        /\ Framed(layer[w].diffID, been[w])
        /\ \A t \in Lowers :
              \/ \E p \in DOMAIN t : MarkHides(upper[w], p)
              \/ Unpack(layer[w].diffID, t) = Said(t, upper[w])

\* What is on disk under a layer's name hashes to its digest and is the
\* whole compressed form of what its diff ID names, whoever else uses the
\* pools at the time.  (StreamingPipeline.Close computes both digests between
\* the flush and the return of its writers to their pools.)
DigestNamesBlob ==
    /\ \A d \in DOMAIN named : named[d] = d
    /\ \A w \in Active : pc[w] = "done" =>
        /\ layer[w].digest = Gzip(layer[w].diffID) \o <<Trailer>>
        /\ IF layer[w].renamed THEN layer[w].digest \in DOMAIN named
                               ELSE file[w] = layer[w].digest

\* No pooled object has two users or is in its pool while somebody uses it:
\* every error path and the deferred Put of the large buffer give each object
\* back at most once.  (NewStreamingPipeline, Close, WriteTarLayer.)
InUse(o) == {u \in using \X Roles : /\ held[u[1]][u[2]] = o
                                    /\ u[2] = "large" \/ pc[u[1]] # "return"}
NeverShared == \A o \in Objects : pooled[o] + Cardinality(InUse(o)) <= 1

TarOf(cs) == FlattenSeq([i \in DOMAIN cs |-> HeaderOf(cs[i])])

\* a tree as it is mounted or copied, without the marks of overlayfs
Plain(t) == \A p \in DOMAIN t : ~IsMarker(p) /\ t[p].kind \in {"dir", "file", "link"}
ASSUME LowersArePlain == \A t \in Lowers : Plain(t)

\* DiffTwoDirs returns the "changes needed to transform old -> new" in every
\* order of its deletions, except where a file or a link became a directory: an
\* existing name that is now a directory is never reported.  This is so of what
\* its walks have found.  With both walks complete that is all; but an error
\* that breaks one off is dropped, and then files that the walk of new has not
\* reached are deleted, and those that the walk of old has not reached stay.
TwoDirsTransform ==
    \A w \in Active : pc[w] = "diff" /\ Plain(upper[w]) =>
        \A t \in Lowers : \A old \in Walked(t), new \in Walked(upper[w]) :
            \A cs \in DiffTwoDirs(old, new) :
                Among(Unpack(TarOf(cs), t), DOMAIN old \cup DOMAIN new) = new
                  <=> \A p \in DOMAIN old \cap DOMAIN new : IsDir(new[p]) => IsDir(old[p])

\* Every Snapshot returns, with a layer or an error: no error of one writer,
\* and no order in which they share the pools, keeps another from its end.
WritersEnd == \A w \in Writers : <>(w \in Active => pc[w] \in {"done", "failed"})

\* "With OverlayFS, the upper dir *IS* the diff [...] and whiteout files
\* (.wh.*) represent deletions": what the instruction deleted is not there
\* when the layer is unpacked.
DeletionsReachLayer ==
    \A w \in Active : pc[w] = "done" =>
        \A t \in Lowers, p \in DOMAIN upper[w] :
            upper[w][p].kind = "dev" => p \notin DOMAIN Unpack(layer[w].diffID, t)
=============================================================================
