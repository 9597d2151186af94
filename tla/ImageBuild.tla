----------------------------- MODULE ImageBuild -----------------------------
(***************************************************************************)
(* One build, from the parsed Dockerfile to the published image: runBuild  *)
(* (cmd/imagin/main.go) drives the Executor (pkg/executor), which works on *)
(* the rootfs Manager (RootFS), the Snapshotter (pkg/snapshotter), the     *)
(* metadata Store and the ConfigBuilder (pkg/metadata).                    *)
(*                                                                         *)
(* One goroutine runs all of it; the user's interrupt and the failures of  *)
(* the file system, the kernel and the commands may come at any step.      *)
(* A digest is the content it digests and a chain ID the sequence of diff  *)
(* IDs it is computed from: no collisions.  Trees hold files only.         *)
(***************************************************************************)
EXTENDS RootFS, SequencesExt

CONSTANTS
    Programs,     \* the instruction sequences the parser may hand over
    Raw,          \* the raw texts of instructions
    Setting,      \* what an image configuration can set, environment included
    Context,      \* the build context: source path -> content
    RunEffects,   \* what a RUN command may do to the merged directory
    Simulated,    \* not on Linux: RUN only writes a marker file
    NoImage, NoLayer, NoVar

\* a path's components; an absolute one starts with the component "/"
Path == Seq(STRING)
IsAbs(p) == p # <<>> /\ p[1] = "/"
Relative(p) == IF IsAbs(p) THEN Tail(p) ELSE p

\* the keys of instructionHandlers; ONBUILD is parsed but has no handler
SettingOps    == {"CMD", "EXPOSE", "VOLUME", "USER", "LABEL", "SHELL",
                  "STOPSIGNAL", "HEALTHCHECK", "MAINTAINER"}
FilesystemOps == {"RUN", "COPY", "ADD"}
Handlers      == SettingOps \cup FilesystemOps
                   \cup {"FROM", "ENTRYPOINT", "ENV", "ARG", "WORKDIR"}

IsAssignment(f) == DOMAIN f \subseteq Setting /\ f \in [DOMAIN f -> Path]

\* sets: what CMD, ENV, LABEL ... assign in the configuration (without
\* arguments CMD and ENTRYPOINT assign an empty list, the others nothing);
\* vars: what ENV and ARG let later instructions use: an argument without
\* "=" is kept, but resolveEnv passes it over;
\* arg: the source of a COPY or the directory of a WORKDIR, perhaps the
\* variable var;  dst: where COPY writes;  from: --from given;
\* bare: too few arguments
IsInstruction(i) ==
    /\ i.op \in Handlers \cup {"ONBUILD"}
    /\ i.raw \in Raw
    /\ IsAssignment(i.sets) /\ IsAssignment(i.vars)
    /\ i.arg \in Path /\ i.dst \in Path
    /\ i.var \in Setting \cup {NoVar}
    /\ i.from \in BOOLEAN /\ i.bare \in BOOLEAN

ASSUME BuildConstants ==
    /\ \A p \in Programs : /\ p \in Seq(Range(p)) /\ p # <<>> /\ p[1].op = "FROM"
                           /\ \A i \in DOMAIN p : IsInstruction(p[i])
    /\ {"Cmd", "WorkingDir"} \subseteq Setting
    /\ NoVar \notin Setting
    /\ DOMAIN Context \subseteq Path
    /\ \A f \in DOMAIN Context : Context[f] \in Val
    /\ RunEffects \subseteq Effect
    /\ Simulated \in BOOLEAN /\ (UseOverlay => ~Simulated)

Content  == [Name -> Val \cup {Absent}]         \* what a layer's tar holds
BlobName == [digest : Content, tmp : Nat]       \* tmp = 0: named by its digest
Layer    == [diffID : Content, blob : BlobName]
Entry    == [raw : Raw, empty : BOOLEAN]
Key      == [chain : Seq(Content), raw : Raw]

VARIABLES
    program, ip,       \* the stages' instructions, and the one at hand
    phase,             \* where executeFilesystemInstruction or runBuild is
    result,            \* what runBuild returns
    cancelled,         \* the context is done
    workDir, env, lowerDirs,            \* Executor
    slot,              \* the number of the mount Prepare returned
    effect, layer,     \* what the action of this step wrote, its layer
    layers, cache,     \* metadata.Store
    config, diffIDs, history,           \* ConfigBuilder
    blobs,             \* files of the Snapshotter's blobDir
    image              \* what the exporter was given and published

control  == <<program, cancelled>>
executor == <<workDir, env, lowerDirs>>
step     == <<slot, effect, layer>>
store    == <<layers, cache>>
builder  == <<config, diffIDs, history>>
vars == <<rootfsVars, control, ip, phase, result, executor, step, store,
          builder, blobs, image>>

TypeOK ==
    /\ RootFSTypeOK
    /\ program \in Programs
    /\ ip \in 1..(Len(program) + 1)
    /\ phase \in {"step", "act", "commit", "snapshot", "record", "cleanup", "close", "done"}
    /\ result \in {"none", "ok", "error"}
    /\ cancelled \in BOOLEAN
    /\ workDir \in Path
    /\ IsAssignment(env)
    /\ lowerDirs \in Seq(Dir)
    /\ slot \in Nat
    /\ effect \in Effect
    /\ layer \in Layer \cup {NoLayer}
    /\ layers \in Seq(Layer)
    /\ DOMAIN cache \subseteq Key /\ cache \in [DOMAIN cache -> Layer]
    /\ IsAssignment(config)
    /\ diffIDs \in Seq(Content)
    /\ history \in Seq(Entry)
    /\ DOMAIN blobs \subseteq BlobName /\ blobs \in [DOMAIN blobs -> Content]

Init ==
    /\ mounts = [m \in {} |-> <<>>]
    /\ disk = [d \in {} |-> EmptyTree]
    /\ program \in Programs
    /\ ip = 1
    /\ phase = "step"
    /\ result = "none"
    /\ cancelled = FALSE
    /\ workDir = <<>>
    /\ env = [v \in {} |-> <<>>]
    /\ lowerDirs = <<>>
    /\ slot = 0
    /\ effect = NoEffect
    /\ layer = NoLayer
    /\ layers = <<>>
    /\ cache = [k \in {} |-> NoLayer]
    /\ config = [s \in {} |-> <<>>]
    /\ diffIDs = <<>>
    /\ history = <<>>
    /\ blobs = [b \in {} |-> EmptyTree]
    /\ image = NoImage

-----------------------------------------------------------------------------
(* Helpers.                                                                *)

inst == program[ip]

\* updating a partial function
Update(f, g) ==
    [x \in DOMAIN f \cup DOMAIN g |-> IF x \in DOMAIN g THEN g[x] ELSE f[x]]

\* resolveEnv: an unknown variable is the empty string
Resolve(i) ==
    IF i.var = NoVar THEN i.arg
    ELSE IF i.var \in DOMAIN env THEN env[i.var] ELSE <<>>

\* a chain ID stands for the diff IDs below it
ChainID(stack) == [i \in DOMAIN stack |-> stack[i].diffID]
\* mutants: the key forgets the layers below the top, or all of them
CacheKey_TopOnly(stack, raw) ==
    [chain |-> IF stack = <<>> THEN <<>> ELSE <<Last(stack).diffID>>, raw |-> raw]
CacheKey_RawOnly(stack, raw) == [chain |-> <<>>, raw |-> raw]

CacheKey(stack, raw) == [chain |-> ChainID(stack), raw |-> raw]

AddHistory(empty) == history' = Append(history, [raw |-> inst.raw, empty |-> empty])
AddLayer(l) ==
    /\ layers' = Append(layers, l)
    /\ diffIDs' = Append(diffIDs, l.diffID)
    /\ AddHistory(FALSE)

\* an error returned up to runBuild, whose deferred calls then run
Fail ==
    /\ phase' = "close"
    /\ result' = "error"

\* ExecuteStage takes the next instruction, looks it up and dispatches it
Fetching   == phase = "step" /\ ip <= Len(program)
Missed     == Fetching /\ ~cancelled /\ CacheKey(layers, inst.raw) \notin DOMAIN cache
Dispatch(ops) == Missed /\ inst.op \in ops
Advance    == ip' = ip + 1

-----------------------------------------------------------------------------
(* ExecuteStage and executeInstruction.                                    *)

\* SIGINT, once: signal.NotifyContext ends the context and nothing else
Interrupt ==
    /\ phase # "done"
    /\ ~cancelled
    /\ cancelled' = TRUE
    /\ UNCHANGED <<rootfsVars, program, ip, phase, result, executor, step, store,
                   builder, blobs, image>>

\* mutant: a done context breaks off the loop over the instructions
StopCancelled_Breaks ==
    /\ Fetching
    /\ cancelled
    /\ ip' = Len(program) + 1
    /\ UNCHANGED <<rootfsVars, control, phase, result, executor, step, store,
                   builder, blobs, image>>

\* the context is looked at before each instruction, and nowhere else
StopCancelled ==
    /\ Fetching
    /\ cancelled
    /\ Fail
    /\ UNCHANGED <<rootfsVars, control, ip, executor, step, store, builder, blobs, image>>

\* mutants: the hit path forgets a diff ID, or the history
CacheHit_NoDiffID ==
    /\ Fetching
    /\ ~cancelled
    /\ CacheKey(layers, inst.raw) \in DOMAIN cache
    /\ layers' = Append(layers, cache[CacheKey(layers, inst.raw)])
    /\ AddHistory(FALSE)
    /\ Advance
    /\ UNCHANGED <<rootfsVars, control, phase, result, executor, step, cache,
                   config, diffIDs, blobs, image>>
CacheHit_NoHistory ==
    /\ Fetching
    /\ ~cancelled
    /\ CacheKey(layers, inst.raw) \in DOMAIN cache
    /\ layers' = Append(layers, cache[CacheKey(layers, inst.raw)])
    /\ diffIDs' = Append(diffIDs, Last(layers').diffID)
    /\ Advance
    /\ UNCHANGED <<rootfsVars, control, phase, result, executor, step, cache,
                   config, history, blobs, image>>

CacheHit ==
    /\ Fetching
    /\ ~cancelled
    /\ CacheKey(layers, inst.raw) \in DOMAIN cache
    /\ AddLayer(cache[CacheKey(layers, inst.raw)])
    /\ Advance
    /\ UNCHANGED <<rootfsVars, control, phase, result, executor, step, cache,
                   config, blobs, image>>

Unsupported ==
    /\ Missed
    /\ inst.op \notin Handlers
    /\ Fail
    /\ UNCHANGED <<rootfsVars, control, ip, executor, step, store, builder, blobs, image>>

-----------------------------------------------------------------------------
(* The handlers that touch no file.                                        *)

MetadataStep ==
    /\ AddHistory(TRUE)
    /\ Advance
    /\ UNCHANGED <<rootfsVars, control, phase, result, step, store, diffIDs, blobs, image>>

\* no base image is pulled; env and the configuration carry over
From ==
    /\ Dispatch({"FROM"})
    /\ lowerDirs' = <<>>
    /\ workDir' = <<>>
    /\ MetadataStep
    /\ UNCHANGED <<env, config>>

Set ==
    /\ Dispatch(SettingOps)
    /\ config' = Update(config, inst.sets)
    /\ MetadataStep
    /\ UNCHANGED executor

\* SetEntrypoint also clears Cmd
Entrypoint ==
    /\ Dispatch({"ENTRYPOINT"})
    /\ config' = Restrict(Update(config, inst.sets), (DOMAIN config \cup DOMAIN inst.sets) \ {"Cmd"})
    /\ MetadataStep
    /\ UNCHANGED executor

Env ==
    /\ Dispatch({"ENV"})
    /\ config' = Update(config, inst.sets)
    /\ env' = Update(env, inst.vars)
    /\ MetadataStep
    /\ UNCHANGED <<workDir, lowerDirs>>

\* ARG is visible to later instructions and not part of the configuration
Arg ==
    /\ Dispatch({"ARG"})
    /\ env' = Update(env, inst.vars)
    /\ MetadataStep
    /\ UNCHANGED <<workDir, lowerDirs, config>>

Workdir ==
    /\ Dispatch({"WORKDIR"})
    /\ ~inst.bare
    /\ LET dir == Resolve(inst)
       IN  workDir' = IF IsAbs(dir) THEN Tail(dir) ELSE workDir \o dir
    /\ config' = Update(config, [s \in {"WorkingDir"} |-> workDir'])
    /\ MetadataStep
    /\ UNCHANGED <<env, lowerDirs>>

WorkdirBare ==
    /\ Dispatch({"WORKDIR"})
    /\ inst.bare
    /\ MetadataStep
    /\ UNCHANGED <<executor, config>>

-----------------------------------------------------------------------------
(* executeFilesystemInstruction, one phase after the other.                *)

merged == Merged(slot)
upper  == Upper(slot)

\* mutant: an early return with no deferred Cleanup
FailMounted_NoCleanup ==
    /\ phase' = "close"
    /\ result' = "error"

\* an error between Prepare and the end: the deferred Cleanup runs first
FailMounted ==
    /\ phase' = "cleanup"
    /\ result' = "error"

Prepare ==
    /\ Dispatch(FilesystemOps)
    /\ slot' = NextId
    /\ PrepareOverlay(lowerDirs) \/ PrepareFallback(lowerDirs)
    /\ phase' = "act"
    /\ UNCHANGED <<control, ip, result, executor, effect, layer, store, builder, blobs, image>>

\* nothing is deferred yet
PrepareFails ==
    /\ Dispatch(FilesystemOps)
    /\ PrepareError(lowerDirs)
    /\ Fail
    /\ UNCHANGED <<control, ip, executor, step, store, builder, blobs, image>>

\* the action writes what it writes whether it then succeeds or not
Act(written, ok) ==
    /\ effect' = written
    /\ WriteMerged(merged, written)
    /\ IF ok THEN phase' = "commit" /\ UNCHANGED result ELSE FailMounted
    /\ UNCHANGED <<mounts, control, ip, executor, slot, layer, store, builder, blobs, image>>

\* handleRun: CommandContext kills the command, or never starts it, once
\* the context is done; a simulated RUN does not ask
Run ==
    /\ phase = "act" /\ inst.op = "RUN"
    /\ \E written \in RunEffects \cup {NoEffect}, ok \in BOOLEAN :
           /\ ok => ~cancelled \/ Simulated
           /\ Act(written, ok)

\* handleCopy, also of a directory; ADD delegates to it.  filepath.Join puts
\* an absolute source below the context and an absolute target below workDir.
Matches(src) == {f \in DOMAIN Context : IsPrefix(src, f)}
CopyTo(src, dst) ==
    LET target(f) == dst \o SubSeq(f, Len(src) + 1, Len(f))
    IN  [n \in Name |-> IF \E f \in Matches(src) : n = target(f)
                        THEN Context[CHOOSE f \in Matches(src) : n = target(f)]
                        ELSE Keep]

Copy ==
    /\ phase = "act" /\ inst.op \in {"COPY", "ADD"}
    /\ ~inst.from /\ ~inst.bare
    /\ Matches(Relative(Resolve(inst))) # {}
    /\ Act(CopyTo(Relative(Resolve(inst)), workDir \o Relative(inst.dst)), TRUE)

\* too few arguments and --from are refused, a source may be missing, and a
\* copy may break off anywhere
CopyFails ==
    /\ phase = "act" /\ inst.op \in {"COPY", "ADD"}
    /\ LET whole == CopyTo(Relative(Resolve(inst)), workDir \o Relative(inst.dst))
       IN  \E done \in SUBSET {n \in Name : whole[n] # Keep} :
             /\ inst.from \/ inst.bare => done = {}
             /\ Act([n \in Name |-> IF n \in done THEN whole[n] ELSE Keep], FALSE)

Commit ==
    /\ phase = "commit"
    /\ IF Committable(merged) THEN phase' = "snapshot" /\ UNCHANGED result ELSE FailMounted
    /\ UNCHANGED <<rootfsVars, control, ip, executor, step, store, builder, blobs, image>>

\* DiffDir takes the upper directory for the diff; WriteTarLayer writes no
\* entry for a device node, so a deletion leaves no trace
TarOf(tree) == [n \in Name |-> IF tree[n] = Whiteout THEN Absent ELSE tree[n]]

\* mutant: the layer is named by its digest though the rename failed
Snapshot_IgnoresRename ==
    /\ phase = "snapshot"
    /\ \E renamed \in BOOLEAN :
         LET tar  == TarOf(disk[upper])
             name == [digest |-> tar, tmp |-> IF renamed THEN 0 ELSE ip]
         IN  /\ blobs' = Update(blobs, [b \in {name} |-> tar])
             /\ layer' = [diffID |-> tar, blob |-> [name EXCEPT !.tmp = 0]]
    /\ phase' = "record"
    /\ UNCHANGED <<rootfsVars, control, ip, result, executor, slot, effect, store, builder, image>>

\* the blob is written to a temporary file and renamed to its digest; a
\* failed rename is not an error, the layer then names the temporary file
Snapshot ==
    /\ phase = "snapshot"
    /\ \E renamed \in BOOLEAN :
         LET tar  == TarOf(disk[upper])
             name == [digest |-> tar, tmp |-> IF renamed THEN 0 ELSE ip]
         IN  /\ blobs' = Update(blobs, [b \in {name} |-> tar])
             /\ layer' = [diffID |-> tar, blob |-> name]
    /\ phase' = "record"
    /\ UNCHANGED <<rootfsVars, control, ip, result, executor, slot, effect, store, builder, image>>

\* mutant: a layer that cannot be written is committed again, for ever
SnapshotFails_Retries ==
    /\ phase = "snapshot"
    /\ phase' = "commit"
    /\ UNCHANGED <<rootfsVars, control, ip, result, executor, step, store, builder, blobs, image>>

\* whatever fails in it, the temporary file is removed
SnapshotFails ==
    /\ phase = "snapshot"
    /\ FailMounted
    /\ UNCHANGED <<rootfsVars, control, ip, executor, step, store, builder, blobs, image>>

\* the chain ID of the cache key is computed when the layer has been added
Record ==
    /\ phase = "record"
    /\ AddLayer(layer)
    /\ cache' = Update(cache, [k \in {CacheKey(layers', inst.raw)} |-> layer])
    /\ lowerDirs' = Append(lowerDirs, upper)
    /\ phase' = "cleanup"
    /\ UNCHANGED <<rootfsVars, control, ip, result, workDir, env, step, config, blobs, image>>

\* the deferred Cleanup, whose error is dropped
Cleanup ==
    /\ phase = "cleanup"
    /\ ForgetMount(merged)
    /\ \E mergedStays \in BOOLEAN :
           /\ mergedStays => ~mounts[merged].overlay
           /\ RemoveLayerDir(slot, mergedStays)
    /\ effect' = NoEffect
    /\ layer' = NoLayer
    /\ IF result = "error" THEN phase' = "close" /\ UNCHANGED ip ELSE phase' = "step" /\ Advance
    /\ UNCHANGED <<control, result, executor, slot, store, builder, blobs, image>>

-----------------------------------------------------------------------------
(* runBuild after the stages.                                              *)

Exportable == phase = "step" /\ ip > Len(program)

\* the exporter (OCIExport) reads every blob; it never asks the context
Export ==
    /\ Exportable
    /\ \A i \in DOMAIN layers : layers[i].blob \in DOMAIN blobs
    /\ image' = [layers |-> layers, config |-> config, diffIDs |-> diffIDs, history |-> history]
    /\ phase' = "close"
    /\ result' = "ok"
    /\ UNCHANGED <<rootfsVars, control, ip, executor, step, store, builder, blobs>>

ExportFails ==
    /\ Exportable
    /\ Fail
    /\ UNCHANGED <<rootfsVars, control, ip, executor, step, store, builder, blobs, image>>

\* Executor.Cleanup closes the Manager, then RemoveAll takes the work
\* directory with its rootfs and blobs, or what of it it can: its error is
\* dropped, and anything it could not remove stays
Close ==
    /\ phase = "close"
    /\ mounts' = Restrict(mounts, {})
    /\ \E stays \in SUBSET DOMAIN disk : disk' = Restrict(disk, stays)
    /\ \E stays \in SUBSET DOMAIN blobs : blobs' = Restrict(blobs, stays)
    /\ phase' = "done"
    /\ UNCHANGED <<control, ip, result, executor, step, store, builder, image>>

Metadata == From \/ Set \/ Entrypoint \/ Env \/ Arg
            \/ Workdir \/ WorkdirBare
FilesystemStep == \/ Prepare \/ PrepareFails \/ Run \/ Copy \/ CopyFails \/ Commit
                  \/ Snapshot \/ SnapshotFails \/ Record \/ Cleanup
Build == \/ StopCancelled \/ CacheHit \/ Unsupported \/ Metadata \/ FilesystemStep
         \/ Export \/ ExportFails \/ Close

Done == phase = "done" /\ UNCHANGED vars

Next == Build \/ Interrupt \/ Done

\* the goroutine is scheduled and every command it runs ends
Spec == Init /\ [][Next]_vars /\ WF_vars(Build)

-----------------------------------------------------------------------------
(* Properties.                                                             *)

\* OCI wants the k-th history entry that is not empty to be the k-th layer
\* and the k-th diff ID.  The Store and the ConfigBuilder are fed from two
\* code paths, executeFilesystemInstruction and the cache hit; neither may
\* forget one of the three, on any mix of hits, misses and config steps.
NonEmpty == {i \in DOMAIN history : ~history[i].empty}
ImageAligned ==
    /\ diffIDs = ChainID(layers)
    /\ Cardinality(NonEmpty) = Len(layers)

\* Cleanup is deferred right after Prepare: whatever fails in between, no
\* mount outlives its instruction.  Manager.Prepare numbers a mount by the
\* count of active ones, so every instruction works in layer-0.
OneMountAtATime ==
    /\ slot = 0
    /\ DOMAIN mounts = IF phase \in {"act", "commit", "snapshot", "record", "cleanup"}
                       THEN {merged} ELSE {}

\* All instructions use the same upper directory, one after the other: a
\* layer must not pick up what an earlier instruction left there.
LayerHoldsOnlyOwnWrites ==
    phase = "record" =>
        \A n \in Name : layer.diffID[n] # Absent => layer.diffID[n] = effect[n]

\* Every layer of the Store can be exported: its blob is on disk, under its
\* name, with its content, until the work directory goes; equal layers share
\* a blob, and a failed rename must not lose it.
BlobsBackLayers ==
    phase # "done" =>
        \A i \in DOMAIN layers : /\ layers[i].blob \in DOMAIN blobs
                                 /\ blobs[layers[i].blob] = layers[i].diffID

\* Every cache entry is a layer of this image, filed under the chain that
\* ends with it.
CacheEntryEndsItsChain ==
    \A k \in DOMAIN cache : \E i \in DOMAIN layers :
        /\ k.chain = ChainID(SubSeq(layers, 1, i))
        /\ cache[k] = layers[i]

\* So a hit can only repeat the layer on top, never one from further down.
HitRepeatsTopLayer ==
    [][CacheHit => /\ layers # <<>>
                   /\ Last(layers') = Last(layers)]_vars

\* Nothing is published before every instruction was executed or was a hit,
\* and what is published is the Store and the ConfigBuilder of that moment.
PublishedIsComplete ==
    image # NoImage =>
        /\ result = "ok"
        /\ [i \in DOMAIN image.history |-> image.history[i].raw]
             = [i \in DOMAIN program |-> program[i].raw]
        /\ image.diffIDs = ChainID(image.layers)

\* The build as a whole is a log applied in order and sealed at most once:
\* runBuild returns no error only with the image of the complete log.
Log == INSTANCE BuildLog WITH
         script <- [i \in DOMAIN program |-> program[i].raw],
         log    <- [i \in DOMAIN history |-> history[i].raw],
         stack  <- diffIDs,
         image  <- IF result = "ok"
                   THEN [steps  |-> [i \in DOMAIN image.history |-> image.history[i].raw],
                         layers |-> image.diffIDs]
                   ELSE NoImage,
         open   <- result = "none"
ImplementsLog == Log!Spec

\* Every build ends, also when it is interrupted or the file system fails
\* under it, with no mount left in the Manager's table, and reports success
\* exactly when it published an image.  (That its work directory is gone is
\* not promised: a failing RemoveAll goes unnoticed.)
Ends ==
    <>(/\ phase = "done"
       /\ mounts = [m \in {} |-> <<>>]
       /\ result = IF image = NoImage THEN "error" ELSE "ok")

\* store.go: "cache maps parentChainID:instructionHash": an entry is filed
\* under the chain of the layers BELOW the one it holds.
CacheKeyedByParent ==
    \A k \in DOMAIN cache : \E i \in DOMAIN layers :
        /\ k.chain = ChainID(SubSeq(layers, 1, i - 1))
        /\ cache[k] = layers[i]

\* diff.go: "For the copy-based fallback, we treat the upper dir the same
\* way: any file written by the build step appears here".
LayerHoldsAllWrites ==
    phase = "record" =>
        \A n \in Name : effect[n] \in Val => layer.diffID[n] = effect[n]
=============================================================================
