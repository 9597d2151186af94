----------------------------- MODULE OCIExport ------------------------------
(***************************************************************************)
(* The exporters (pkg/exporter): OCIExporter.Export writes an OCI image    *)
(* layout into the output directory, TarExporter.Export writes one into a  *)
(* fresh temporary directory and archives it to the output file.           *)
(*                                                                         *)
(* runBuild may be run again with the same output path, after an error, a  *)
(* crash or a success (-bench does it N times), so the output directory is *)
(* the state that survives.  A file is torn from the moment it is created  *)
(* or truncated until its last byte is written.  A later attempt may have  *)
(* layers of the same digest; its configuration has a creation time and    *)
(* so its configuration and manifest have digests of their own.            *)
(***************************************************************************)
EXTENDS Naturals, Sequences, FiniteSets, Functions

CONSTANTS
    Digest,        \* digests of layers
    Images,        \* what a build may hand over: sequences of layers
    Torn, Whole, Nothing,
    MaxAttempts    \* bound on the builds that export to this output

Layer == [digest : Digest, empty : BOOLEAN]      \* empty: Size = 0

ASSUME ExportConstants ==
    /\ Images \subseteq Seq(Layer)
    /\ MaxAttempts \in Nat
    /\ Torn # Whole /\ Torn # Nothing /\ Whole # Nothing
    /\ {Torn, Whole, Nothing} \cap 0..MaxAttempts = {}

Attempt == 1..MaxAttempts

\* the files of a layout; blobs are named by a layer digest or, standing
\* for the digest of a configuration or manifest, by their attempt
LayoutFile   == [kind |-> "oci-layout", id |-> Nothing]
IndexFile    == [kind |-> "index", id |-> Nothing]
TarFile      == [kind |-> "tar", id |-> Nothing]
ConfigBlob(a)   == [kind |-> "config", id |-> a]
ManifestBlob(a) == [kind |-> "manifest", id |-> a]
LayerBlob(d)    == [kind |-> "layer", id |-> d]
Blob == [kind : {"layer"}, id : Digest] \cup [kind : {"config", "manifest"}, id : Attempt]
File == Blob \cup {LayoutFile, IndexFile}
Archive == [of : Attempt, files : UNION {[fs -> {Torn, Whole}] : fs \in SUBSET File}]

ASSUME MarksAreNoFiles ==
    /\ Nothing \notin File \cup {TarFile}
    /\ {Torn, Nothing} \cap Archive = {}

VARIABLES
    format,     \* of the output: "oci" or "tar"
    attempt,    \* the build at hand
    pc,         \* where its export is
    at,         \* the layer it is copying
    writing,    \* the file it has open, or Nothing
    image,      \* attempt -> the layers it was given
    dir,        \* the files of the layout it writes
    index,      \* the attempt whose manifest a whole index.json names
    tar,        \* the output file of TarExporter: Nothing, Torn or an archive
    returned,   \* what the last attempt returned
    broken      \* layers whose copy an error or a crash cut short

vars == <<format, attempt, pc, at, writing, image, dir, index, tar, returned, broken>>

Steps == {"layout", "layers", "config", "manifest", "index", "archive"}

TypeOK ==
    /\ format \in {"oci", "tar"}
    /\ attempt \in 0..MaxAttempts
    /\ pc \in Steps \cup {"idle"}
    /\ at \in Nat \ {0}
    /\ writing \in File \cup {TarFile, Nothing}
    /\ image \in [1..attempt -> Images]
    /\ DOMAIN dir \subseteq File /\ dir \in [DOMAIN dir -> {Torn, Whole}]
    /\ index \in 0..MaxAttempts
    /\ tar \notin {Nothing, Torn} =>
          /\ tar.of \in Attempt
          /\ DOMAIN tar.files \subseteq File
    /\ returned \in {"nothing", "ok", "error", "crashed"}
    /\ broken \subseteq Digest

Init ==
    /\ format \in {"oci", "tar"}
    /\ attempt = 0
    /\ pc = "idle"
    /\ at = 1
    /\ writing = Nothing
    /\ image = [a \in {} |-> <<>>]
    /\ dir = [f \in {} |-> Torn]
    /\ index = 0
    /\ tar = Nothing
    /\ returned = "nothing"
    /\ broken = {}

-----------------------------------------------------------------------------
Put(f, content) ==
    dir' = [g \in DOMAIN dir \cup {f} |-> IF g = f THEN content ELSE dir[g]]

layersOf(a) == {image[a][i].digest : i \in {j \in DOMAIN image[a] : ~image[a][j].empty}}

\* the file each step writes, and what comes next
Target ==
    CASE pc = "layout"   -> LayoutFile
      [] pc = "layers"   -> LayerBlob(image[attempt][at].digest)
      [] pc = "config"   -> ConfigBlob(attempt)
      [] pc = "manifest" -> ManifestBlob(attempt)
      [] OTHER           -> IndexFile
\* mutant: index.json goes before the manifest
After_IndexFirst(step) ==
    CASE step = "layout"   -> "layers"
      [] step = "layers"   -> "config"
      [] step = "config"   -> "index"
      [] step = "index"    -> "manifest"
      [] OTHER             -> IF format = "tar" THEN "archive" ELSE "idle"

After(step) ==
    CASE step = "layout"   -> "layers"
      [] step = "layers"   -> "config"
      [] step = "config"   -> "manifest"
      [] step = "manifest" -> "index"
      [] OTHER             -> IF format = "tar" THEN "archive" ELSE "idle"

\* the deferred RemoveAll of TarExporter
DropTemporary == IF format = "tar" THEN dir' = [f \in {} |-> Torn] ELSE UNCHANGED dir

\* mutants: layers counted from zero; one temporary directory for all builds
Start_AtZero ==
    /\ pc = "idle"
    /\ attempt < MaxAttempts
    /\ attempt' = attempt + 1
    /\ \E layers \in Images : image' = [a \in 1..attempt + 1 |->
                                          IF a = attempt + 1 THEN layers ELSE image[a]]
    /\ pc' = "layout"
    /\ at' = 0
    /\ returned' = "nothing"
    /\ UNCHANGED <<format, writing, dir, index, tar, broken>>
Start_ReusesTemporary ==
    /\ pc = "idle"
    /\ attempt < MaxAttempts
    /\ attempt' = attempt + 1
    /\ \E layers \in Images : image' = [a \in 1..attempt + 1 |->
                                          IF a = attempt + 1 THEN layers ELSE image[a]]
    /\ pc' = "layout"
    /\ at' = 1
    /\ returned' = "nothing"
    /\ UNCHANGED <<format, writing, dir, index, tar, broken>>

\* a new build reaches its export; for a tar the layout starts from nothing
Start ==
    /\ pc = "idle"
    /\ attempt < MaxAttempts
    /\ attempt' = attempt + 1
    /\ \E layers \in Images : image' = [a \in 1..attempt + 1 |->
                                          IF a = attempt + 1 THEN layers ELSE image[a]]
    /\ pc' = "layout"
    /\ at' = 1
    /\ dir' = IF format = "tar" THEN [f \in {} |-> Torn] ELSE dir
    /\ index' = IF format = "tar" THEN 0 ELSE index
    /\ returned' = "nothing"
    /\ UNCHANGED <<format, writing, tar, broken>>

-----------------------------------------------------------------------------
(* Writing a file: os.WriteFile, or os.Create and CopyBuffer.              *)

AtLayer == pc = "layers" /\ at <= Len(image[attempt])

\* mutant: every layer is copied, over what is there
MustWrite_Always ==
    \/ pc \in {"layout", "config", "manifest", "index"}
    \/ AtLayer /\ ~image[attempt][at].empty

\* copyBlob returns at once when the file exists, whatever it holds
MustWrite ==
    \/ pc \in {"layout", "config", "manifest", "index"}
    \/ AtLayer /\ ~image[attempt][at].empty /\ Target \notin DOMAIN dir

OpenFile ==
    /\ writing = Nothing
    /\ MustWrite
    /\ writing' = Target
    /\ Put(Target, Torn)
    /\ index' = IF pc = "index" THEN 0 ELSE index
    /\ UNCHANGED <<format, attempt, pc, at, image, tar, returned, broken>>

\* mutant: a short copy is not noticed
WriteLayer_DropsError ==
    /\ AtLayer
    /\ writing # Nothing
    /\ \E content \in {Torn, Whole} : Put(writing, content)
    /\ writing' = Nothing
    /\ at' = at + 1
    /\ UNCHANGED <<format, attempt, pc, image, index, tar, returned, broken>>

WriteLayer ==
    /\ AtLayer
    /\ writing # Nothing
    /\ Put(writing, Whole)
    /\ writing' = Nothing
    /\ at' = at + 1
    /\ UNCHANGED <<format, attempt, pc, image, index, tar, returned, broken>>

\* mutant: the loop does not go on after a skipped layer
SkipLayer_Stays ==
    /\ AtLayer
    /\ writing = Nothing
    /\ ~MustWrite
    /\ UNCHANGED vars

SkipLayer ==
    /\ AtLayer
    /\ writing = Nothing
    /\ ~MustWrite
    /\ at' = at + 1
    /\ UNCHANGED <<format, attempt, pc, writing, image, dir, index, tar, returned, broken>>

LayersCopied ==
    /\ pc = "layers"
    /\ at > Len(image[attempt])
    /\ pc' = After("layers")
    /\ UNCHANGED <<format, attempt, at, writing, image, dir, index, tar, returned, broken>>

\* oci-layout, the configuration, the manifest and, last, index.json
WriteRest ==
    /\ pc \in {"layout", "config", "manifest", "index"}
    /\ writing # Nothing
    /\ Put(writing, Whole)
    /\ writing' = Nothing
    /\ index' = IF pc = "index" THEN attempt ELSE index
    /\ pc' = After(pc)
    /\ returned' = IF After(pc) = "idle" THEN "ok" ELSE returned
    /\ UNCHANGED <<format, attempt, at, image, tar, broken>>

\* TarExporter: create the output file, then walk the temporary layout
CreateTar ==
    /\ pc = "archive"
    /\ writing = Nothing
    /\ tar' = Torn
    /\ writing' = TarFile
    /\ UNCHANGED <<format, attempt, pc, at, image, dir, index, returned, broken>>

FinishTar ==
    /\ pc = "archive"
    /\ writing = TarFile
    /\ tar' = [of |-> attempt, files |-> dir]
    /\ writing' = Nothing
    /\ pc' = "idle"
    /\ returned' = "ok"
    /\ DropTemporary
    /\ UNCHANGED <<format, attempt, at, image, index, broken>>

\* a step that stops in the middle leaves the file it has open torn
BreakOff ==
    /\ pc # "idle"
    /\ pc' = "idle"
    /\ writing' = Nothing
    /\ broken' = IF pc = "layers" /\ writing # Nothing THEN broken \cup {writing.id} ELSE broken

\* an error of the file system, or a blob that cannot be opened
Fail ==
    /\ BreakOff
    /\ returned' = "error"
    /\ DropTemporary
    /\ UNCHANGED <<format, attempt, at, image, index, tar>>

\* the process is killed: no deferred call runs
Crash ==
    /\ BreakOff
    /\ returned' = "crashed"
    /\ UNCHANGED <<format, attempt, at, image, dir, index, tar>>

Export == \/ OpenFile \/ WriteLayer \/ SkipLayer \/ LayersCopied \/ WriteRest
          \/ CreateTar \/ FinishTar

Next == Start \/ Export \/ Fail \/ Crash

\* an export that was started goes on until it returns or is killed
Spec == Init /\ [][Next]_vars /\ WF_vars(Export)

-----------------------------------------------------------------------------
(* Properties.                                                             *)

\* index.json is written last: once it names a manifest, the manifest and
\* its configuration are whole and every layer blob has its name in the
\* directory, through later attempts that fail, crash or succeed; and an
\* export that has returned nil is the one it names.
IndexReachesEverything ==
    format = "oci" =>
        /\ returned = "ok" => index = attempt
        /\ index # 0 =>
            /\ {ManifestBlob(index), ConfigBlob(index)} \subseteq DOMAIN dir
            /\ dir[ManifestBlob(index)] = Whole /\ dir[ConfigBlob(index)] = Whole
            /\ \A d \in layersOf(index) : LayerBlob(d) \in DOMAIN dir

\* The image the index names is whole unless the copy of one of its layers
\* was once cut short in this directory: nothing else can damage it.
PublishedWholeUnlessBroken ==
    format = "oci" /\ index # 0 =>
        \A d \in layersOf(index) : dir[LayerBlob(d)] = Whole \/ d \in broken

\* A blob that is whole stays so: exporting again over a finished layout
\* never truncates a blob the old index still refers to.
WholeBlobsStayWhole ==
    [][format = "oci" => \A f \in DOMAIN dir \cap Blob :
          dir[f] = Whole => f \in DOMAIN dir' /\ dir'[f] = Whole]_vars

\* An archive holds one whole layout, after a nil that of the last attempt:
\* the temporary directory is fresh, so what earlier attempts broke cannot get
\* into it.
ArchiveIsWhole ==
    format = "tar" =>
        /\ returned = "ok" => tar \notin {Nothing, Torn} /\ tar.of = attempt
        /\ tar \notin {Nothing, Torn} =>
            LET needed == {LayoutFile, IndexFile, ConfigBlob(tar.of), ManifestBlob(tar.of)}
                            \cup {LayerBlob(d) : d \in layersOf(tar.of)}
            IN  /\ DOMAIN tar.files = needed
                /\ \A f \in needed : tar.files[f] = Whole

\* Every export ends.
ExportEnds == pc # "idle" ~> pc = "idle"

\* oci.go: "Skip if already exists (content-addressable = idempotent)": what
\* the index names is whole.
PublishedWhole ==
    format = "oci" /\ index # 0 =>
        \A d \in layersOf(index) : dir[LayerBlob(d)] = Whole
=============================================================================
