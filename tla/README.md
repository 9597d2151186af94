# imagin in TLA+

imagin builds OCI images from Dockerfiles without a daemon: it parses the file,
executes its instructions one after the other in a rootfs of overlay mounts (or
copies), takes a layer of what each RUN, COPY and ADD wrote, and exports an OCI
layout or a tar archive of one. This directory holds TLA+ models of that system,
the TLC configurations that check them on small instances, and TLAPS proofs of
the most important invariants for all values of the constants.

    tlc -workers 2 -config ImageBuild.cfg MCImageBuild     # one run of the table below
    tlapm ImageBuild_proofs.tla                            # a module of proofs; they are
        # SequenceLemmas, RootFS_proofs, ImageBuild_proofs, RootFSClients_proofs,
        # OCIExport_proofs, BuildCache_proofs, Layers_proofs, Frontend_proofs

`PROJECT.json` maps every definition to the lines it translates and lists the
hazards of the code, the runs, a mutant for each property and the theorems.

## The system

| component | source | state | operations |
|---|---|---|---|
| command line, build driver | `cmd/imagin/main.go` | work directory, context with SIGINT | `runBuild`, `runBenchmark` |
| executor | `pkg/executor/executor.go`, `handlers.go` | `workDir`, `env`, `lowerDirs` | `ExecuteStage`, `executeInstruction`, one handler per instruction, `Cleanup` |
| rootfs manager | `pkg/rootfs` | table `mounts` under `mu`; directories `layer-N/{upper,merged,owork}` | `Prepare`, `Commit`, `Cleanup`, `Close`, `GetUpperDir` |
| snapshotter | `pkg/snapshotter` | `blobDir` | `Snapshot`, `DiffDir`, `DiffTwoDirs`, `WriteTarLayer` |
| metadata store, config builder | `pkg/metadata/store.go`, `config.go` | layers, in-memory cache; config, diff IDs, history | `AddLayer`, `CacheLookup`, `CacheStore`; `Set...`, `AddDiffID`, `AddHistory`, `Build` |
| persistent build cache | `pkg/metadata/cache.go` | map under `mu`, a JSON file | `NewCache`, `Lookup`, `Store`, `Clear` |
| exporters | `pkg/exporter` | the output path | `OCIExporter.Export`, `TarExporter.Export` |
| layer pipeline, buffer pools | `pkg/pool`, `internal/digest` | `sync.Pool`s | get, put, write, `Close` |
| latency tracker, reports | `pkg/metrics` | phases and samples under `mu` | start, end, statistics, reports |
| parser | `pkg/parser` | stages, global ARGs | `Parse`, the lexer |
| build context | `pkg/executor/context.go` | ignore rules | `IsIgnored`, `Walk` |
| shared types | `internal/types/types.go` | - | records and interfaces |

How they meet: `runBuild` makes a work directory, parses, and calls the executor
for each stage with the metadata store and the config builder it will export
from. For a RUN, COPY or ADD the executor calls `Prepare`, lets the handler write
below the merged directory, calls `Commit` and `Snapshot`, then adds the layer to
the store, its diff ID and a history entry to the builder, an entry to the store's
cache and the upper directory to `lowerDirs`; a deferred `Cleanup` ends the mount.
A cache hit does the store and builder part only, a metadata handler the builder
part only. The exporter gets the store's layers and the builder's configuration;
deferred calls close the manager and remove the work directory. `Snapshot` lists the
changes below the upper directory (`DiffDir`) and writes them with `WriteTarLayer`
through a pipeline whose parts come from process-wide pools. Every phase is timed by
the tracker; `-bench=n` runs the build n times, a tracker each, and merges them.

What is hard in it: one build is one goroutine, but it fails or is interrupted at
every step and its bookkeeping is spread over three objects and two paths; every
instruction reuses the same directories; the manager, the cache and the tracker
have mutexes for callers that run concurrently, and release them around the work on
files; the exporters and the cache write files in place, to paths that outlive the
process. What makes each component correct:

- **executor and driver**: the image has exactly one diff ID and one non-empty
  history entry per layer whatever mix of hits and misses made it; an image
  exists only when every instruction was executed; every failure and the interrupt
  end the mount and the build; success is reported exactly when an image was published;
  a hit gives a layer that belongs there.
- **rootfs manager**: scopes do not share directories; a scope's mount stays
  until it cleans it up; its upper directory holds its writes and no one else's;
  overlay and copies show a scope the same; Close reaches everything.
- **snapshotter**: a layer that is returned is a complete archive that, unpacked, shows
  what the upper directory said, with bytes its files had, also when files change
  under the copy; and it can be exported under the name it records.
- **pipeline, pools**: no pooled object has two users; the digest on a blob's name is
  the digest of its bytes and the diff ID that of the tar inside it, whoever used
  the pool before.
- **parser**: it ends; every line becomes one instruction with its words and the
  right line number; grouping in stages loses and reorders nothing.
- **tracker, benchmark**: each sample of each build is in the report once, in one row
  per phase, and each percentile is a sample at its rank.
- **build context**: the last rule about a path decides, below directories that are walked.
- **exporters**: what `index.json` reaches is there and whole; what is
  whole stays whole; success means published; an archive is complete.
- **persistent cache**: nothing is invented, what was stored is on disk.

## Modules

**`RootFS`** - the manager's two pieces of state, `mounts` and `disk` (every
existing directory with its tree), and each operation as an operator on them.
`Prepare` is `PrepareOverlay`, `PrepareFallback` or `PrepareError` (all of
it runs under `mu`, so one step); `Cleanup` is `ForgetMount` (under `mu`) and
`RemoveLayerDir` (after the unlock). `NextId` is `len(m.mounts)`. `WriteMerged`
and `View` say what a mount does with writes and reads: overlayfs redirects writes
to the upper directory, leaves whiteout devices for deletions and lets the leftmost
lower win; the fallback is a plain directory into which the lowers were copied,
the last one winning. An error may break Prepare off anywhere, in the middle of a lower
directory too (`CopyPart`). A tree maps file names to contents.

**`RootFSClients`** - the manager used by several scopes. Each prepares a mount,
perhaps on top of the upper directories of scopes that are still open, writes,
cleans up; Prepare may fail at any point; Close may come at any time and goes
through its copy of the table in steps of its own. `nested` restricts it to one
goroutine that opens and closes scopes like brackets and does nothing after
Close; otherwise the scopes interleave with each other and with Close.

**`ImageBuild`** - one build. `ip` and `phase` are the position in
`ExecuteStage`, `executeFilesystemInstruction` and `runBuild`; the other
variables are the fields of Executor, Store, ConfigBuilder, Snapshotter and (through
`RootFS`) the manager. One action per handler; the filesystem handlers go through
the phases of `executeFilesystemInstruction`, each of which may fail. `Interrupt`
may come at any moment and is seen only where the code looks: before an
instruction, and in `exec.CommandContext`. The mapping of names:

| code | model |
|---|---|
| `ctx.Err()` at executor.go:75 | `StopCancelled` |
| the checks of `len(inst.Args)` in COPY and WORKDIR | `bare` is the instruction with too few arguments |
| cache lookup and hit, executor.go:88-106 | `CacheHit`; `CacheKey` is chain ID and raw text |
| no handler, executor.go:108-112 | `Unsupported` |
| `Prepare`, action, `Commit`, `Snapshot`, bookkeeping, deferred `Cleanup` | `Prepare`/`PrepareFails`, `Run`/`Copy`/`CopyFails`, `Commit`, `Snapshot`/`SnapshotFails`, `Record`, `Cleanup` |
| handlers.go, the metadata handlers | `From`, `Set`, `Entrypoint`, `Env`, `Arg`, `Workdir`/`WorkdirBare` |
| export and deferred calls of `runBuild` | `Export`/`ExportFails`, `Close` |

Digests are the contents they digest and chain IDs the sequences they are computed
from; SHA-256 collisions are thereby excluded. A value of `Val` stands for a file's
bytes with what its tar header says; that a file written again later gets a new
modification time, and so another value, is a matter of `RunEffects`.

**`BuildLog`** - the abstract specification of a build: steps of a script are
applied in order, each adding at most one layer; the log is published whole or not
at all. `ImageBuild` implements it under the mapping at `Log`: the script is the
raw instructions, the log the builder's history, the stack its diff IDs.

**`OCIExport`** - both exporters, file by file, over several builds that use one
output path. A file is torn between its creation and its last byte; `Fail` and
`Crash` stop a step anywhere. `copyBlob` skips a file that exists (`MustWrite`);
a tar is written from a temporary layout that starts empty.

**`BuildCache`** - the cache's critical sections and file operations as separate
steps of concurrent callers; the file is an inode, so that a writer may hold one
that Clear has unlinked; `Restart` is a crash and the `NewCache` of the next process.
`os.WriteFile` is `OpenFile`, which truncates, any number of `WritePart` and a
`WriteFile`; an error or a crash may come after any of them. Every writer writes from its
own offset, so once two texts have bytes in the file (`texts`), or another caller has
truncated it meanwhile (`opener`), it may be read as `Torn` or as any mixture of
the entries of those texts, one cut out of two of them being `Mixed` (`Readings`).
`RemoveFile` may fail without anybody being told. Of the layers some have no blob path
(`Pathless`), and `Lookup` answers with those unchecked.

**`FileTree`** - trees of directories, files, symbolic links and the two marks
overlayfs leaves in an upper directory (a device for a deletion, an opaque directory), and
`filepath.Walk` over them: `InWalkOrder` puts the paths it meets in its order. A file has a
size here, as in the FileInfo the walk returns.

**`Pools`** - the objects of the four pools a layer needs (hashes, gzip writers,
buffered writers, copy buffers): how often each is in its pool, who holds it, what it
still contains and where it leads. `Obtainable` is `sync.Pool.Get`: something pooled
or something new, at will. A write goes tar, hash, gzip, hash, bufio, file;
gzip and bufio keep what they get or pass on all they have.

**`Layers`** - `Snapshot` step by step for one or several writers, on `FileTree` and
`Pools`:

| code | model |
|---|---|
| `DiffDir`, `os.CreateTemp` and their errors | `Diff`, `CreateTemp`, `EarlyError` |
| `NewStreamingPipeline`, `GetLargeBuffer` | `Open` |
| a turn of the loop of `WriteTarLayer` | `SkipChange`, `WriteHeader`; for a file then `OpenFile`, `CopyBlock` for each piece read, `EndCopy` |
| `tw.Close`, `gzWriter.Close`, `bufWriter.Flush`, the digests, the puts | `CloseTar`, `FinishGzip`, `FinishBuf`, `Sum`, `GiveBack` |
| the return with its deferred put, or with an error | `Return`, `WriteError` |
| `os.Rename` | `Rename` |

`Leftover` is a process that a RUN left behind and that still writes in the upper
directory. A file's bytes are blocks (`live`), each known by the write it comes from: between
the walk and the last piece of the copy a file may be written in whole or in part with any
size, the old one too, or be removed; `been` remembers what was where. `archive/tar`
refuses more bytes than the header promised, and the next header when some are missing;
that is `missing`. `Unpack` is the OCI rule for applying a layer and `Said` what the
comments of `DiffDir` say an upper directory means, the marks of overlayfs included
(`MarkHides`); the two are written independently.

`DiffTwoDirs`, which has no caller, is an operator with a property of its own. Its two walks
may break off after any path, as it drops their errors (`Walked`), and it lists the deletions
in every order of a Go map (`Orders`); it is the set of what it may return.

`ImageBuild` sees the same `Snapshot` as one step with two outcomes: `TarOf` and the
rename. `LayerShowsUpper` and `DigestNamesBlob` justify that a layer there is a value.

**`Dockerfile`** - the lexer, the parser and the grouping. A text is a sequence of
the characters that steer the lexer and of runs of others. `Emit` is a turn of
`Tokenize`'s loop (the skipped blanks included), `ParseInstruction` a turn of `parse`,
the rest a turn of `buildDockerfile`. The stage number, which is set in every instruction and
read by nothing, is left out. Scans are written by where they stop
(`EndOfWord`, `EndOfArray`, `Escaped`) and not as loops. `Written` is the reference: the logical lines
of a text and their words, defined by positions only, without the lexer.

**`Tracker`**, **`Benchmark`** - the tracker's operations on a record of phases, the
merge and the statistics; and `main` over `Dockerfile` and it: one build or n builds of the
same text, an instruction being the phases it times. A phase and a sub-phase
are handled alike in the code and so are one map here, with keys of one or two names.
Go maps are walked in any order, so the lists of names are bags. Whether an
instruction is a hit is left open (`LookupOnly`), which includes what `ImageBuild` says.

**`BuildContext`** - `loadIgnoreFile` line by line and `WalkFiles` path by path:
`rest` is the set of paths filepath.Walk has still to meet, and it meets the first of
them in `WalkOrder` next.
**`Frontend`** puts it beside `Benchmark`: the two share no state and nothing calls
it yet, so a behaviour is of one or of the other.

The `MC*` modules give the constants their values. Operators whose names end in
`_Something` directly before a definition are its mutants: plausible bugs that the
property named with it in `PROJECT.json` detects.

## Runs

| run | what it shows | bounds |
|---|---|---|
| `ImageBuild` | alignment, one mount at a time, layers free of foreign writes and backed by blobs, cache entries and hits belong to the image, complete publication, refinement of `BuildLog`, every build ends with no mount left and success exactly if it published | every Dockerfile of up to `WideLen` = 3 instructions over all kinds of handlers, and of up to `DeepLen` = 5 over FROM, RUN, COPY; 2 files, 2 contents; about 237 000 states |
| `RootFS` | nested scopes never share directories, their mounts stay, their diffs are their own; an overlay shows what the copies would exactly where the order of the lower directories does not matter; no upper directory leaks, even when goroutines collide; Close clears the table of a single goroutine | 2 scopes, 1 base directory, `MaxPrepares` = 3; about 526 000 states |
| `OCIExport` | what the index reaches exists; it is whole unless the copy of that layer was cut short; whole blobs stay whole; after a nil the index or the archive is that export's own; archives are complete; exports end | `MaxAttempts` = 3 exports, 2 layer digests, images with shared, repeated and empty layers; about 136 000 states |
| `BuildCache` | no entry is invented before two texts meet in the file; an update nobody overlapped and whose file operation worked is on disk, whatever was in the file | 2 goroutines, 2 keys, 2 layers, one of them without a blob path, `MaxUpdates` = 3; about 1 020 000 states |
| `Layers` | a returned layer is framed, complete, unpacks to what the upper directory said and holds blocks each file had; blob, digest and diff ID belong together; no pooled object has two users; `DiffTwoDirs` transforms what its walks found except where a file became a directory; snapshots end | trees of up to 3 entries out of a directory, files, links, deletions, opaque directories and marker files; 5 lower trees; sizes 0 to 2; `MaxTouch` = 1; one writer, or two with one entry each; about 263 000 states |
| `Frontend` | the parser accepts what the lines say and nothing else, with line numbers and arguments; stages partition the instructions; the report of a benchmark; ignore rules; every build and benchmark ends | up to `TailLen` = 4 of 7 characters after `FROM x` and `RUN`, up to `TextLen` = 3 of all 11 from nothing, up to `Lines` = 2 of 10 kinds of lines from nothing or after a FROM; 1 build or benchmarks of 2; ignore files of up to 3 lines over 6 patterns, 2 contexts; about 174 000 states |
| `ImageBuild_CacheKeyedByParent`, `ImageBuild_LayerHoldsAllWrites`, `RootFS_UniqueDirs`, `OCIExport_PublishedWhole`, `Layers_DeletionsReachLayer`, `Frontend_ArgsKeepEveryWord` | the disagreements below | the same |

Why the bounds suffice. In a build, what an instruction meets depends on the
instruction before it (its directories, the top of the chain), on the variables set
before, and on repetition; three instructions after each other over all handlers,
and four that make layers after the FROM, contain each of these cases, a hit after a hit, a hit after
a failed rename, and a failure at every phase. Numbering collisions need two active
mounts and a third Prepare. A torn blob needs one export that breaks, one that skips
and a third that may repair or spoil. A lost cache update, or a
mixture of two texts in the file, needs two updates that overlap and a third, alone, to repair
it. A torn copy needs a file of two blocks and one write between them. A pooled object shows its past only to
a second taker, and is shared only between two: two writers, objects for both and one
hash pair each. A tree entry meets at most its parent, its marker and its namesake below.
What the lexer does depends on where it is and at most the next two characters, so
four characters after a word contain every combination of a continuation, its line end
and what follows; the statistics of more samples than two builds make (21 and 34)
are checked by `StatisticsOfMany` in `MCFrontend`, by the same definition by ranks.
`MaxTokens` = 16 cuts only the texts on which the lexer stands still (see below): a
text has fewer tokens otherwise. A rule matters with one before and one after it.

`CHECK_DEADLOCK FALSE` is set for `RootFS`, `OCIExport`, `Layers` and `Frontend`: they
may stop for good once the bounded calls are made (all scopes closed, all attempts
done, every snapshot returned, main at its end or the walk done). `ImageBuild` has an explicit `Done` step and `BuildCache` can always restart,
so deadlock is checked there.

Fairness. `ImageBuild`: `WF(Build)`, the single goroutine is scheduled and
the commands and system calls it waits for end (a RUN that never ends and is not
interrupted would keep a build for ever, in the program too). Interrupts are not fair.
`OCIExport`: `WF(Export)`, an export runs until it returns or is killed.
`RootFSClients`: `WF(CloseOne)`, the loop of a Close that was called goes on; no
client is obliged to do anything. `BuildCache` has no liveness property and assumes no fairness.
`Layers`: `WF(Snapshot(w))`, each goroutine is
scheduled and its reads and writes return; leftover processes are not fair. `Frontend`:
`WF(Main)`, the one goroutine of main goes on; the phases of instructions, whose
end `ImageBuild` shows, return.

## What is proved

`ImageBuild_proofs` proves for every set of Dockerfiles, names, contents,
context and commands that satisfies `BuildConstants` and `MarksAreNoValues`:

| theorem | states |
|---|---|
| `TypesHold` | type correctness |
| `OneMount` | `OneMountAtATime`: the mount table holds the mount of the instruction at work, or nothing; every mount is number 0 |
| `Alignment` | `ImageAligned` |
| `CacheIsOfThisImage`, `OnlyTheTopIsHit` | every cache entry is a layer of this image filed under the chain it ends; so a hit repeats the layer on top |
| `LayersHaveBlobs` | `BlobsBackLayers` |
| `Completeness` | `PublishedIsComplete` |
| `LayersAreTheirOwn` | `LayerHoldsOnlyOwnWrites`: no layer holds what an earlier instruction left behind |
| `Refinement` | the build implements `BuildLog` |

The inductive invariant `IInv` has these parts:

- `TypeInv`: the types, `Control` (in the phases between Prepare and the end of
  an instruction there is an instruction and its upper directory; what `result`
  can be in each phase; an image only with `ok`) and `OneMountAtATime`. They are
  proved together: the type of the directories needs the slot, the slot needs that the
  table was empty, and that needs to know which phases have a mount.
- `Recorded`: the history is the raw text of the instructions up to the
  one at hand. It gives completeness and the log of the refinement.
- `Published`: the image is the store and builder at its publication.
- `ImageAligned`: inductive alone, given types, because hit and record
  both go through the same three additions.
- `CacheEntryEndsItsChain`: needs `ImageAligned` only for types of chains; layers
  only grow, so an entry's prefix stays a prefix.
- `LayersBacked`: layers, the layer in the making and cached layers have their blobs.
  It needs `NamesTellContent` (a blob's content is what its digest says): a
  rename over a file that other layers name puts the same content there.

- `UpperIsFresh` (for `LayersAreTheirOwn`): between two instructions there is no
  upper directory at all; while an instruction acts, it is the mount's, and
  empty until the instruction writes; after that, every file in it is absent, a whiteout or what the
  effect of this instruction says. All instructions share the path `layer-0/upper`, so
  the property rests on Cleanup having removed it on every way out of an instruction.

The step theorem is split by kind of step (`StepKinds`): a step adds a layer, adds an
empty history entry, or leaves the log alone. `RootFS_proofs` has the lemmas about the
manager's operators: each keeps the types of table and directories; in a stack of
directories leftmost and rightmost hits exist; the upper directory wins over all lower
ones (`UpperWins`), and what leftmost and rightmost show is what the first and the last
directory that has the file say of it (`FirstAndLast`).

`RootFSClients_proofs`, for any set of scopes, base directories and any bound on calls:

| theorem | states |
|---|---|
| `ManagerTypes` | type correctness |
| `NoUpperIsForgotten` | `NoUpperLeaks`, also when scopes and Close interleave freely |
| `NestingKeepsDirsApart` | `NestedDirsUnique` |
| `HeldStaysMounted` | `HeldIsMounted` |
| `UpperHoldsOwnDiff` | `UpperIsOwnDiff` |
| `BackendsCompared` | `OverlayAgainstCopies` |

`NoUpperLeaks` is inductive with the types and `OneAtATime` (Close cleans up one mount
at a time). The others are about nested scopes, and their invariant `Brackets` says, until
Close, why a number that is only a count is enough there: `Stacked` - with n mounts in the table the
open scopes hold the numbers 0 to n-1, one each, and a scope that is being
removed had number n; `UnusedIsEmpty` - an upper directory with a
number from n on that nobody is removing is one a failed Prepare left, and is
empty; `Scopes` - an open scope's directories exist, its lower directories have smaller
numbers or are base directories, and its upper directory tells what it wrote.
`BackendsCompared` adds that copies into an empty directory leave the last word on each file
(`PlainCopies`) and that first and last word are the same exactly when the
two directories agree (`OrderMatters`); it is for any number of lower directories.

`OCIExport_proofs`, for any images, digests and number of attempts on one path, each of which may
fail or crash anywhere, from `MarksAreNoFiles` (the value that stands for no open
file is no file's name, and those for a torn and an absent archive are no archives):

| theorem | states |
|---|---|
| `ExportTypes` | type correctness |
| `IndexIsComplete` | `IndexReachesEverything` |
| `OnlyBrokenCopiesDamage` | `PublishedWholeUnlessBroken` |
| `NoBlobIsTruncated` | `WholeBlobsStayWhole`, an action property |
| `ArchivesAreWhole` | `ArchiveIsWhole` |

The invariant joins `Control` (what is open at each step), `Progress` (what comes before
the step of the running export has been written, and its own configuration and manifest were
not there before), `BlobsAccounted` (a layer blob is whole, or a copy of it was cut short
once, or it is being written, and then the index does not need it) and `TemporaryIsFresh`
(the layout that becomes an archive holds exactly what this export has written). `BlobsAccounted`
needs the history of broken copies: `copyBlob` skips a file that exists, so the state
of the directory alone does not say how a torn blob came about.

`BuildCache_proofs`, for any number of callers, keys, layers, with restarts and torn
writes, assuming that the mark of a torn file is no map and the layer of a mixed entry no layer:

| theorem | states |
|---|---|
| `CacheTypes` | type correctness |
| `NothingIsMadeUp` | `EntriesWereStored` |
| `LoneUpdatesPersist` | `LoneUpdatePersists` |

`OnlyKnown` says of the map, the file, every text that has bytes in it, and what each caller
has in hand or was answered that all entries were stored once, or, after two texts met
(`clashed`), are cut out of two; `ReadingsAre` shows that reading a mixture of texts gives nothing
else. `AloneSoFar` is what an update nobody has overlapped so far
knows at each of its steps: it alone is at work, what it is to write is the map of now, the
file it has open is the cache file, and since it truncated it nobody else's bytes got in. Why
old bytes do not matter is this truncation, which the mutant `OpenFile_NoTruncate` leaves out.
`SyncedMeans` is what the update leaves: no update is at work and the file reads back as the map.

`Layers_proofs` proves `PoolsAreSafe`, that is `NeverShared` for any number of writers
and pools of any size, from `PoolsDiffer` (an object is of one kind). The invariant
`PoolInv` says of each object what `NeverShared` counts, and is inductive: with the
types, `using` is exactly the writers whose `pc` is between Open and the
return of `WriteTarLayer`, each with an object of the right pool in every role
(`Bookkeeping`); an object has one user in one role (`OneUser`) and is not in its pool
while it has one (`NotPooled`). After `GiveBack` a writer uses its copy buffer only: without
that distinction (`Uses`) the deferred Put could return the other objects again.
`Opens` shows that what the pools hand out has no user, `GivesBack` that what is put has
exactly one, who stops using it; all other steps move nothing.

`DigestsNameBlobs` proves `DigestNamesBlob` on top of it. The invariant follows the
bytes: `WriterInv` says for each step of `WriteTarLayer` and `Close` that the hash
above the gzip writer has what was written, the hash below it and the file together
with what gzip and bufio hold back have its compressed form, and that the two writers lead
to this writer's file (`Shapes` gives the types). That the objects are this writer's
alone is `OneUser`: a second user would write into the same hash. What an
object held before it was taken is nowhere assumed: the resets of the three
Get functions are what the first step of the invariant needs.

`LayersShowUppers` proves `LayerShowsUpper`, for every upper directory, every set of lower
trees and any number of writers, leftover processes and sharers of the pools. The
invariant `LayerInv` adds to the above, for each writer (`TarInv`):

- while the loop of `WriteTarLayer` is at change number `at`, the hash of the
  uncompressed bytes holds the headers of exactly the paths `filepath.Walk` met
  before it, and every header of a file is followed by as many blocks as it promised, each
  one that `been` has for that file and place (`Written`). In the middle of a file this is so
  up to its header, which the blocks copied so far follow (`Copying`, `Half`); when a copy
  ended with fewer blocks than promised it stays at that, as `missing` keeps
  the next header and the end mark from being written: such a writer ends in an error;
- a marker of opacity below the root is never among the paths written: its header has
  the name of a directory, whose copy fails (`OpaqueFacts`);
- what leftover processes do changes no entry's kind, and every block a file has is in `been`
  (`Trees`), so that copy fails then too, and what is copied later is still of that file;
- once closed the tar is `Complete`, and stays that until Snapshot returns.

`HeadersSayAll` is the part without steps: a tar with these headers, unpacked by the OCI
rule, gives what the comments of `DiffDir` say, because a marker and what it hides name each other
(`WhiteoutOfHidden`). The theorem has the property's two exceptions: a marker of opacity at the
root, and layers below in which a mark of overlayfs (a device, an opaque directory) hides
something; about the latter see the disagreements below. `InWalkOrderIs` shows that the walk meets every path once it is
given. Assumptions: `WalkVisitsParentsFirst`, `WhiteoutsDiffer`, `ScenariosAreTrees`, and
`OpaqueMarkersAreFiles` (a symbolic link by the name of such a marker would be written as a link
by the name of its directory; who writes markers writes empty files).

`TwoDirsTransforms` proves `TwoDirsTransform`, with its exception as an equivalence: the changes
`DiffTwoDirs` returns, in any order of its deletions, make what its walks found of every old tree
what they found of the new one if and only if no file or link became a
directory. For walks that were not broken off that is the whole of both trees; for others it
says what the dropped error costs. `WalkedIs` shows that a walk broken off has found a tree (the
parents come first), `OrderIs` that every order of the map has each deletion once, and
`DiffTwoDirsHolds` which changes there are. `UnpackTwoDirs` says what the headers are to who
unpacks them, `OverMakesNew`
that a tree with those additions and deletions put over the old one is the new one. It needs
`LowersArePlain`, as the property itself is about plain trees.

`LayerTypes` proves `TypeOK`, the set `Chunk` of every piece of a tar included. A hash is of
compressed data when it is the lower one and of pieces of a tar when it is the upper one, so what
the type of a layer's digest needs (`TypeInv`) is that the uncompressed hash of a working writer
has had pieces of a tar only since it was reset (`TarsTyped`), which no other writer disturbs by
`OneUser`. `ChunksOfTar` says which pieces there are, `BoundIsNumber` that `MaxTouch` is one.

`Frontend_proofs`, for any texts, keywords, phase times and numbers of builds, contexts and
ignore files:

| theorem | states |
|---|---|
| `FrontendTyped` | type correctness |
| `TextsAreParsed` | `ParsesTheText`, for every Dockerfile (without quotes, arrays and flags, as the property says) |
| `StagesArePartition` | `StagesPartition`, for every Dockerfile and any number of builds of it |
| `BenchmarkReports` | `BenchReports`, for any number of builds and any time of each phase |
| `WalksLeaveWhatRulesSay` | `WalkIsWhatRulesLeave`, for every context and every ignore file |

`Grouping` says that the global ARGs and then the stages so far, put together, are the
instructions before the one at hand, and that each stage starts with its only FROM;
before buildDockerfile runs there are neither.

The types need `LexOK` (the lexer has read no more lines than characters, and every
token is of a line it has read: `ReadIs` says of each scan where it ends and what it makes of the
text), `ParseOK` (no more instructions than tokens, each with arguments of characters,
`PostProcessIs`) and `MainOK` (a tracker's lists have each phase once with its parent,
`TrackerOK`, and the instructions left to execute are of the Dockerfile).

`ParsesTheText` compares what three loops make of a text with a description of the text by its
positions, in which no loop is: `WrittenIs` states that description with the text as a parameter, so that a
step, which leaves the text alone, leaves it alone too. The invariant `TextRead` has a part per loop:

- `LexRead`: Tokenize is at an `Edge` (not inside a comment or a continuation, and behind a word
  only where the word ends), the line number is the number of line breaks before it, and the tokens stand for
  positions in their order (`Placed`) that leave out no first character of a word and no
  end of a logical line. `AnyRead` is the step: whatever is read from an edge on contains one such position at
  most, says of it what the text does (`Fits`), and ends at an edge again. It needs
  that blanks hide no word (`BlanksAreGaps`) and that `skipSpaces` counts the breaks it skips (`BlankLines`);
- `ParseRead`: the instructions are those of the lines whose first word is before the
  token at hand (`ParsedTo`), and unless the tokens are at their end the words before it are on lines that have
  ended. So the parser is always at the first word of a line (`LineIs`), the tokens up to the
  end of that line are its words (`WordsAre`) and what is gathered from them is what the line means
  (`GatherMeans`). Its errors are those of a line that is not acceptable (`ErrorRead`);
- `GroupRead` and `FromFirst`: in the second pass every line is an instruction, and before the first stage
  there were ARGs only; an error there means that no FROM comes first (`GroupErrorRead`).

The report needs three things more. `StatsAreRight`: the fold of `Sorted` puts every sample
behind those that are not larger (`InsertedIs`, `SortedIs`), so that the sample at a rank has as many
below it as the rank says (`RankIs`), and the mean is between the least and the greatest (`MeanIs`).
`CountsOK`: while a build runs, its samples of the lookup phase and the instructions
still left are together the instructions of its stages; the phases of a filesystem instruction have
as many samples as each other; and the merged report has for every phase the samples of the builds done, in
their order (`ReportOn`). `ReadOK`: the report is about several parses of one text, and
the states of the earlier ones are gone when the last ends, so it has to be known that all of them
found as many instructions. `Turn` is the one way in which a parse that refuses nothing goes on, a function
of the kinds of tokens at each position (`Shape`, which a text keeps); every state of
the parser is one a run of `Turn` comes by (`ReadBy`), and two such runs that ended, ended the same
(`OneTotal`). `BenchConstants` is assumed: 0 iterations, the default of -bench, is among the numbers
of builds.

For the walk, `IgnoredIsLast` shows
what the fold over the rules computes: the unfolded loop has a solution, the solution is unique on
the prefixes of the rules, and at the end it is what the last rule about the path says. `Walking`
then says of the paths met so far that they come in order, that those gone were walked or are
excluded with what is below them, and that nothing that is left lies below something
excluded - without the last, a file below a directory that was skipped could still be let in by a
rule of its own. It rests on `WalkVisitsParentsFirst` and `LinesAreRules`.

`SequenceLemmas` has what these need of recursion. The library's induction theorems
take an operator and cannot be used; `SetInduction` states induction for a set of
naturals instead and is proved from the well-foundedness of `<`. With it `TogetherIs`
shows that the recursion in `FlattenSeq` has a solution, and `FlattenAppend` and
`FlattenExtend` how it grows; `FlattenRange` what it holds; `EndsExist` gives `Min` and `Max` of
sets of positions, `FrontAndLast` and `FrontOfAppend` take sequences apart. `InWalkOrder` is
a fold for the same reason: `FollowsExists` solves its recursion. `FoldExists` does so for
`MapThenFoldSet` of the community modules, and `FoldsAgree` shows that its steps determine the result;
`InOrder` of `Dockerfile` and `Sorted` of `Tracker` are such folds, about which
`OrderGrows`, `Reindexed` (positions may be counted differently as long as their
order stays), `OrderListed` (what is listed is the function's values along the
positions) and `SortedIs` then say what is needed.

Assumptions: those named in the modules, which TLC evaluates, and that digests do not
collide (built into `Content` as a digest). Not proved and only model-checked are the
liveness properties `Ends`, `ExportEnds`, `CloseClears`, `WritersEnd` and `BuildsEnd`, which like anything about ENABLED are out of the provers' reach.

## Where code and comments disagree

1. `store.go:25` says the cache is keyed by the parent's chain ID.
   `executeFilesystemInstruction` computes the chain ID after `AddLayer`
   (executor.go:182, 187), so a layer is filed under its own. Within a build
   the only hit is an instruction repeated with nothing or only metadata instructions
   in between, and it adds the same layer a second time (`HitRepeatsTopLayer` is what still holds). Run `ImageBuild_CacheKeyedByParent`.
2. `diff.go:30-31` says that for the copy fallback any file a step writes appears in
   the upper directory. Nothing writes there: merged is a plain directory, and the
   layer is empty. It also concerns the first instruction under overlayfs, which has
   no lower directory and takes the fallback. Run `ImageBuild_LayerHoldsAllWrites`.
3. `manager.go:54` says "Create unique directories"; with the count of active mounts
   as number they are unique only for scopes that end in the order of a stack and call
   nothing after Close. The build is such a user. In the trace of `RootFS_UniqueDirs` one scope
   prepares layer-0, Close forgets its mount, and a second scope's Prepare is given
   layer-0 before Close removes it; without Close it takes the end of an older of two scopes.
4. `oci.go:168` calls skipping an existing blob idempotent; a blob torn by an export
   that broke off is skipped too, and published. Run `OCIExport_PublishedWhole`.
5. `diff.go:26-28` says the upper directory is the diff, with whiteout files for
   deletions. overlayfs marks a deletion by a character device; `DiffDir` reports it as
   an addition and `WriteTarLayer` has no case for it, so what a RUN deleted is there again
   once the layer is unpacked. Run `Layers_DeletionsReachLayer`.
6. `parser.go:84` gathers "arguments and flags until newline", `types.go:42` calls
   them positional; a word spelled like an instruction, in any case and anywhere on the
   line, is a keyword to the lexer and is only kept in `Raw`: `RUN npm run build`
   executes `npm build`. Run `Frontend_ArgsKeepEveryWord`.

Seven more, met on the way, have no run of their own; the models show what the code does:

- `overlay.go:41-42` joins the lower directories "leftmost being the topmost" (the comment at
  28 calls the rightmost the base), `fallback.go:19` copies the same list "first = base", and
  the executor appends the newest last. For a file that two lower directories have, the two
  backends of Prepare differ: `OverlayAgainstCopies` says exactly when.
- `executor.go:191` says "Add upper dir as a lower dir for the next instruction"; the deferred
  Cleanup removes that directory a moment later and the next Prepare makes it again, empty, so
  an instruction does not see the files of those before it.
- `diff.go:60-62` says that with an opaque directory "all parent contents are implicitly
  deleted", and 26-28 that the upper directory is the diff. For a directory that a RUN removed and
  made anew overlayfs sets an attribute, which nothing reads: the layer has the directory, and
  what was in it below shows through. `LayerShowsUpper` leaves such layers out (`MarkHides`).
- `diff.go:102` says `DiffTwoDirs` "returns changes needed to transform old -> new". It drops the
  errors of both walks (108, 118): files the walk of the new tree did not reach become
  deletions. And a file that became a directory is not reported. `TwoDirsTransform` has both.
- `cache.go:116` calls a cache that does not parse "corrupted cache, start fresh". When two saves
  wrote over each other the text may also parse, with entries cut out of both
  (`EntriesWereStored` allows them after a clash only).
- `README.md:184-185` of the repository says `RUN apt-get update` gives the one argument
  "apt-get update"; the parser makes two of it (`ParsesTheText`), which `handleRun` takes for
  the exec form and runs without a shell.
- `README.md:224` of the repository explains p95 as "95% of builds finish within X". A percentile
  is the sample of rank floor(p(n-1)), so of two builds both p95 and p99 are the
  faster one. The samples of a phase are per instruction, not per build, besides.
  `AtRank` in `BenchReports` states what is computed.

Smaller ones: `context.go:75` says WalkFiles "walks all non-ignored files", but a file that
`!d/f` lets in below an ignored `d` is not walked (`WalkIsWhatRulesLeave`); `types.go:46` says of
Stage that it is "incremented at each FROM", but the copy of a later FROM in its own stage
keeps 0 (parser.go:222-223).

Without a comment that says otherwise, and visible in the models:

- A backslash before a carriage return that no newline follows, at the start of a word, is neither skipped nor
  part of a word: the lexer adds empty tokens for ever. `BuildsEnd` excludes exactly
  the texts that have this sequence (`Stuck`).
- A backslash-newline inside a quoted string is not counted as a line; a continuation
  inside a word makes two arguments of it; quotes are gone from `Raw`, so `RUN "a b"` and
  `RUN a b` have one cache key.
- The marker `.wh..wh..opq` of a directory makes `WriteTarLayer` fail (the directory is
  entered a second time with the marker's file information, and read as a file); at the
  root it is dropped. overlayfs itself marks opacity by an attribute, which is not read.
- `cache.go:12` promises persistence; overlapping updates that all succeed can leave a
  file that lags behind the map until a lone update repairs it (`LoneUpdatePersists`).
- `writer.go:103` says `Close` returns all pooled resources; after an error it, and
  `WriteTarLayer`'s error returns, leave four of them to the garbage collector. That is
  safe (`NeverShared`), and loses the reuse.
- `Clear` drops the error of `os.Remove`, and `runBuild` that of `os.RemoveAll` (main.go:122): an
  old cache file comes back at the next start, a work directory stays on disk.
- `Lookup` asks for the blob of an entry only if the entry has a path (cache.go:54), and the
  answer holds at that moment only.
- Global ARGs are parsed and never executed.

## Not modelled, and why

- Flag parsing of the command line, formatting of reports, memory figures, the text of
  commands, media types, file modes, owners and times, the split of an image reference
  at its colon: no property here depends on them.
- Trees in `RootFS` and `ImageBuild` have files, no directories or symbolic links
  (`Layers` has them); a COPY has one source (a directory or a file; several sources
  are several copies in one action's effect).
- In `Layers` a file's bytes are blocks of one size, known by the write they come from. That a
  file was changed is seen in its size or time; a change that leaves both is not.
- Patterns of `filepath.Match` other than names and `*`; names with `.wh.` in them that
  are not markers.
- A Cleanup between two instructions whose RemoveAll leaves something in the upper directory
  (a process of the RUN that still writes there, an I/O error): `RemoveLayerDir` removes it
  always, and a copied merged directory mostly.
- An `umount` that fails (its error is dropped) and leaves an overlay mounted under a
  directory that is used again; the removal of a directory tree is one step.
- Errors of the deferred `Close` of a tar writer or file, which the code drops: a write is
  taken as done when the copy returned.
- `GetUpperDir`, `DiffTwoDirs` and the build context have no caller in the build; nor
  have the pools of small buffers and `bytes.Buffer`s, `FromReader` and `SnapshotEmpty`
  any that keeps state.
- Only one process works in a work directory (it is a fresh temporary one).

## Plan

1. done: `RootFS`, `RootFSClients`, `ImageBuild` with `BuildLog`, `OCIExport`,
   `BuildCache`; types, invariants and refinement of `ImageBuild` proved.
2. done: `Pools` and `Layers` on `FileTree`; `Dockerfile`, `Tracker`, `Benchmark`;
   `BuildContext`; their composition in `Frontend`; `NeverShared` proved.
3. done: the safety invariants of `RootFSClients`, `OCIExport`, `BuildCache` and
   `ImageBuild`; `DigestNamesBlob`, `LayerShowsUpper`, `TwoDirsTransform` and the types
   of `Layers`; `StagesPartition` and `WalkIsWhatRulesLeave`; the types of `Frontend`,
   `BenchReports` and `ParsesTheText`; so every invariant that a run checks is proved.
4. Left: the liveness properties, which stay with TLC.
