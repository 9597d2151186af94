------------------------------- MODULE RootFS -------------------------------
(***************************************************************************)
(* The rootfs Manager (pkg/rootfs): a table of active mounts and the       *)
(* directories behind them.  Each operation of the Manager is an operator  *)
(* on the two variables; ImageBuild and RootFSClients say who calls it.    *)
(*                                                                         *)
(* A directory is named by the number of the layer-N it lives in and its   *)
(* part; a "base" directory is one the caller brings.  Its content is a    *)
(* tree: for each file name a value, Absent, or the Whiteout device node   *)
(* overlayfs leaves where a lower file was deleted.  The owork directory   *)
(* is scratch space of the kernel and is left out.                         *)
(***************************************************************************)
EXTENDS Naturals, Sequences, FiniteSets, FiniteSetsExt, Functions

CONSTANTS
    Name,        \* file names
    Val,         \* contents of a file
    Absent,      \* no such file
    Whiteout,    \* the device node of a deleted file
    Keep,        \* in an effect: the file is not touched
    UseOverlay   \* what isOverlayAvailable answered when the Manager was made

ASSUME MarksAreNoValues ==
    /\ {Absent, Whiteout, Keep} \cap Val = {}
    /\ Absent # Whiteout /\ Absent # Keep /\ Whiteout # Keep
    /\ UseOverlay \in BOOLEAN

VARIABLES
    mounts,      \* Manager.mounts: merged directory -> MountInfo
    disk         \* existing directories -> their trees

rootfsVars == <<mounts, disk>>

Tree   == [Name -> Val \cup {Absent, Whiteout}]
Effect == [Name -> Val \cup {Absent, Keep}]      \* Absent: the file is deleted
Dir    == [id : Nat, part : {"upper", "merged", "base"}]
MountInfo == [upper : Dir, lowers : Seq(Dir), overlay : BOOLEAN]

EmptyTree == [n \in Name |-> Absent]
NoEffect  == [n \in Name |-> Keep]
Upper(i)  == [id |-> i, part |-> "upper"]
Merged(i) == [id |-> i, part |-> "merged"]

RootFSTypeOK ==
    /\ DOMAIN mounts \subseteq Dir
    /\ mounts \in [DOMAIN mounts -> MountInfo]
    /\ DOMAIN disk \subseteq Dir
    /\ disk \in [DOMAIN disk -> Tree]

\* MkdirAll: an existing directory is kept with what it holds
Mkdirs(dirs) ==
    [d \in DOMAIN disk \cup dirs |-> IF d \in DOMAIN disk THEN disk[d] ELSE EmptyTree]

-----------------------------------------------------------------------------
(* What a merged directory shows.                                          *)

\* the directories of a stack, indexed in dirs, that say something about n
Hits(trees, dirs, n) ==
    {i \in DOMAIN dirs : dirs[i] \in DOMAIN trees /\ trees[dirs[i]][n] # Absent}

\* overlayfs: the leftmost directory wins, and a whiteout hides what is below
Leftmost(trees, dirs, n) ==
    LET hits == Hits(trees, dirs, n)
    IN  IF hits = {} THEN Absent ELSE trees[dirs[Min(hits)]][n]

\* copying one directory after the other: the rightmost wins
Rightmost(trees, dirs, n) ==
    LET hits == Hits(trees, dirs, n)
    IN  IF hits = {} THEN Absent ELSE trees[dirs[Max(hits)]][n]

\* mountOverlay joins LowerDirs in their own order below the upper directory
View(m) ==
    LET stack == <<mounts[m].upper>> \o mounts[m].lowers
        shown(n) == Leftmost(disk, stack, n)
    IN  IF mounts[m].overlay
        THEN [n \in Name |-> IF shown(n) = Whiteout THEN Absent ELSE shown(n)]
        ELSE disk[m]

\* the step of an instruction that writes below the merged directory:
\* overlayfs redirects it to the upper directory, a plain directory keeps it
WriteMerged(m, effect) ==
    LET info   == mounts[m]
        target == IF info.overlay THEN info.upper ELSE m
        below(n) == info.overlay /\ Leftmost(disk, info.lowers, n) \notin {Absent, Whiteout}
        gone(n)  == IF below(n) THEN Whiteout ELSE Absent
        tree   == [n \in Name |-> CASE effect[n] = Keep   -> disk[target][n]
                                    [] effect[n] = Absent -> gone(n)
                                    [] OTHER              -> effect[n]]
    IN  disk' = [disk EXCEPT ![target] = tree]

-----------------------------------------------------------------------------
(* Prepare: all of it under mu, so one step.                               *)

\* mutant: numbered from the last mount instead of the next
NextId_OffByOne == Cardinality(DOMAIN mounts) - 1

NextId == Cardinality(DOMAIN mounts)

AddMount(i, lowers, overlay) ==
    LET info == [upper |-> Upper(i), lowers |-> lowers, overlay |-> overlay]
    IN  mounts' = [m \in DOMAIN mounts \cup {Merged(i)} |->
                       IF m = Merged(i) THEN info ELSE mounts[m]]

\* mutant: a file that is there already is not copied again
CopyLowers_KeepsFirst(trees, m, lowers) ==
    [trees EXCEPT ![m] = [n \in Name |->
        IF Hits(trees, lowers, n) = {} THEN trees[m][n] ELSE Leftmost(trees, lowers, n)]]

\* prepareFallback, after the lower directories in the given prefix
CopyLowers(trees, m, lowers) ==
    [trees EXCEPT ![m] = [n \in Name |->
        IF Hits(trees, lowers, n) = {} THEN trees[m][n] ELSE Rightmost(trees, lowers, n)]]

\* a lower directory copyDir can read: it exists and holds no device node
Copyable(trees, d) ==
    /\ d \in DOMAIN trees
    /\ \A n \in Name : trees[d][n] # Whiteout

\* the kernel may refuse a mount for many reasons; without a lower
\* directory mountOverlay never tries
PrepareOverlay(lowers) ==
    LET i == NextId
        trees == Mkdirs({Upper(i), Merged(i)})
    IN  /\ UseOverlay
        /\ lowers # <<>>
        /\ \A k \in DOMAIN lowers : lowers[k] \in DOMAIN trees
        /\ disk' = trees
        /\ AddMount(i, lowers, TRUE)

\* mutant: the fallback path does not enter its mount in the table
PrepareFallback_NoEntry(lowers) ==
    LET i == NextId
        trees == Mkdirs({Upper(i), Merged(i)})
    IN  /\ \A k \in DOMAIN lowers : Copyable(trees, lowers[k])
        /\ disk' = CopyLowers(trees, Merged(i), lowers)
        /\ UNCHANGED mounts

PrepareFallback(lowers) ==
    LET i == NextId
        trees == Mkdirs({Upper(i), Merged(i)})
    IN  /\ \A k \in DOMAIN lowers : Copyable(trees, lowers[k])
        /\ disk' = CopyLowers(trees, Merged(i), lowers)
        /\ AddMount(i, lowers, FALSE)

\* copyDir broken off: some files of directory d have been copied
CopyPart(trees, m, d, part) ==
    [trees EXCEPT ![m] = [n \in Name |-> IF n \in part THEN trees[d][n] ELSE trees[m][n]]]

FilesIn(trees, d) == {n \in Name : d \in DOMAIN trees /\ trees[d][n] \in Val}

\* an error return: directories may be made, some lowers copied and one in
\* part, but the mount is not entered in the table
PrepareError(lowers) ==
    LET i == NextId
        trees == Mkdirs({Upper(i), Merged(i)})
        copied(k) == CopyLowers(trees, Merged(i), SubSeq(lowers, 1, k))
    IN  /\ \/ \E made \in {{}, {Upper(i)}, {Upper(i), Merged(i)}} : disk' = Mkdirs(made)
           \/ \E k \in DOMAIN lowers :
                 /\ \A j \in 1..(k - 1) : Copyable(trees, lowers[j])
                 /\ \E part \in SUBSET FilesIn(trees, lowers[k]) :
                       disk' = CopyPart(copied(k - 1), Merged(i), lowers[k], part)
        /\ UNCHANGED mounts

\* Commit only looks the mount up
Committable(m) == m \in DOMAIN mounts

\* mutant: the whole table is cleared
ForgetMount_All(m) == mounts' = Restrict(mounts, {})

\* Cleanup, under mu: forget the mount
ForgetMount(m) == mounts' = Restrict(mounts, DOMAIN mounts \ {m})

\* mutant: only the merged directory is removed
RemoveLayerDir_KeepsUpper(i, mergedStays) ==
    disk' = Restrict(disk, DOMAIN disk \ (IF mergedStays THEN {} ELSE {Merged(i)}))

\* Cleanup, after the unlock: umount and RemoveAll of layer-N.  RemoveAll
\* goes on after an entry it cannot remove; a directory a RUN made
\* read-only can keep a copied merged directory alive.
RemoveLayerDir(i, mergedStays) ==
    LET gone == IF mergedStays THEN {Upper(i)} ELSE {Upper(i), Merged(i)}
    IN  disk' = Restrict(disk, DOMAIN disk \ gone)
=============================================================================
