-------------------------- MODULE OCIExport_proofs --------------------------
(***************************************************************************)
(* What an output path holds, for any number of exports to it, of images   *)
(* with any layers, each of which may fail or be killed at any step.       *)
(***************************************************************************)
EXTENDS OCIExport, TLAPS

\* The types, and that nothing is of an attempt that has not begun.
Types ==
    /\ TypeOK
    /\ index <= attempt
    /\ pc # "idle" => attempt \in Attempt
    /\ tar \notin {Nothing, Torn} => tar \in Archive /\ tar.of <= attempt

\* What an export at work has open and has returned.
Control ==
    /\ pc = "idle" => writing = Nothing
    /\ writing # Nothing => writing = IF pc = "archive" THEN TarFile ELSE Target
    /\ pc = "layers" /\ writing # Nothing => AtLayer /\ ~image[attempt][at].empty
    /\ pc = "archive" => format = "tar"
    /\ pc # "idle" => returned = "nothing"
    /\ pc \notin {"idle", "archive"} => index < attempt

Written(f) == f \in DOMAIN dir /\ dir[f] = Whole

\* the layers of the image at hand before the n-th
Copied(n) ==
    {image[attempt][i].digest :
        i \in {j \in DOMAIN image[attempt] : j < n /\ ~image[attempt][j].empty}}

\* An attempt has written what comes before its step, and its own
\* configuration and manifest have not been there before it.
Progress ==
    /\ pc = "layout" => at = 1
    /\ pc \in {"config", "manifest", "index", "archive"} => at > Len(image[attempt])
    /\ pc \notin {"idle", "layout"} => \A d \in Copied(at) : LayerBlob(d) \in DOMAIN dir
    /\ pc \in {"manifest", "index", "archive"} => Written(ConfigBlob(attempt))
    /\ pc \in {"index", "archive"} => Written(ManifestBlob(attempt))
    /\ pc \in {"layout", "layers"} \/ (pc = "config" /\ writing = Nothing) =>
          ConfigBlob(attempt) \notin DOMAIN dir
    /\ pc \in {"layout", "layers", "config"} \/ (pc = "manifest" /\ writing = Nothing) =>
          ManifestBlob(attempt) \notin DOMAIN dir
    /\ \A a \in Attempt : a > attempt =>
          ConfigBlob(a) \notin DOMAIN dir /\ ManifestBlob(a) \notin DOMAIN dir

\* A layer blob is whole, broken, or being written; none the index needs is.
BlobsAccounted ==
    format = "oci" =>
        /\ \A d \in Digest : LayerBlob(d) \in DOMAIN dir =>
              dir[LayerBlob(d)] = Whole \/ d \in broken \/ writing = LayerBlob(d)
        /\ index # 0 => \A d \in layersOf(index) : writing # LayerBlob(d)

\* the files of the temporary layout before each step of TarExporter's export
Expected ==
    (IF pc = "layout" THEN {} ELSE {LayoutFile})
      \cup {LayerBlob(d) : d \in Copied(at)}
      \cup (IF pc \in {"manifest", "index", "archive"} THEN {ConfigBlob(attempt)} ELSE {})
      \cup (IF pc \in {"index", "archive"} THEN {ManifestBlob(attempt)} ELSE {})
      \cup (IF pc = "archive" THEN {IndexFile} ELSE {})

TemporaryIsFresh ==
    format = "tar" /\ pc # "idle" =>
        /\ DOMAIN dir = Expected \cup (IF writing \in {Nothing, TarFile} THEN {} ELSE {writing})
        /\ \A f \in DOMAIN dir : f = writing \/ dir[f] = Whole

Inv == Types /\ Control /\ Progress /\ IndexReachesEverything /\ BlobsAccounted
         /\ TemporaryIsFresh /\ ArchiveIsWhole

-----------------------------------------------------------------------------
(* Facts about the files and the operators that write them.                *)

LEMMA FilesDiffer ==
    /\ \A d, e : LayerBlob(d) = LayerBlob(e) => d = e
    /\ \A a, b : ConfigBlob(a) = ConfigBlob(b) => a = b
    /\ \A a, b : ManifestBlob(a) = ManifestBlob(b) => a = b
    /\ \A a, b : /\ LayerBlob(a) # ConfigBlob(b) /\ LayerBlob(a) # ManifestBlob(b)
                 /\ ConfigBlob(a) # ManifestBlob(b)
    /\ \A a : {LayerBlob(a), ConfigBlob(a), ManifestBlob(a)}
                 \cap {LayoutFile, IndexFile, TarFile} = {}
    /\ LayoutFile # IndexFile /\ TarFile # LayoutFile /\ TarFile # IndexFile
BY DEF LayerBlob, ConfigBlob, ManifestBlob, LayoutFile, IndexFile, TarFile

LEMMA FileTypes ==
    /\ \A d \in Digest : LayerBlob(d) \in File
    /\ \A a \in Attempt : ConfigBlob(a) \in File /\ ManifestBlob(a) \in File
    /\ LayoutFile \in File /\ IndexFile \in File
    /\ TarFile \notin File
    /\ Nothing \notin File /\ Nothing # TarFile
BY MarksAreNoFiles
   DEF File, Blob, LayerBlob, ConfigBlob, ManifestBlob, LayoutFile, IndexFile, TarFile

LEMMA PutWrites ==
    ASSUME NEW f, NEW content, Put(f, content)
    PROVE  /\ DOMAIN dir' = DOMAIN dir \cup {f}
           /\ dir'[f] = content
           /\ \A g \in DOMAIN dir : g # f => dir'[g] = dir[g]
BY DEF Put

\* The layers of an image, and those a step of the loop is at.
LEMMA LayerTypes ==
    ASSUME Types, NEW a \in 1..attempt
    PROVE  /\ image[a] \in Seq(Layer) /\ Len(image[a]) \in Nat
           /\ DOMAIN image[a] = 1..Len(image[a])
           /\ \A i \in DOMAIN image[a] : image[a][i].digest \in Digest
           /\ layersOf(a) \subseteq Digest
<1>1. image[a] \in Seq(Layer)
  BY ExportConstants DEF Types, TypeOK
<1>2. /\ DOMAIN image[a] = 1..Len(image[a]) /\ Len(image[a]) \in Nat
      /\ \A i \in DOMAIN image[a] : image[a][i] \in Layer
  BY <1>1
<1> QED
  BY <1>1, <1>2 DEF Layer, layersOf

LEMMA TargetType ==
    ASSUME Types, pc # "idle", pc = "layers" => AtLayer
    PROVE  /\ Target \in File
           /\ pc = "layers" => Target = LayerBlob(image[attempt][at].digest)
           /\ pc = "layers" => at \in DOMAIN image[attempt]
<1>1. attempt \in Attempt /\ attempt \in 1..attempt
  BY DEF Types, Attempt
<1>2. pc = "layers" => at \in DOMAIN image[attempt] /\ image[attempt][at].digest \in Digest
  BY <1>1, LayerTypes DEF AtLayer, Types, TypeOK
<1> QED
  BY <1>1, <1>2, FileTypes DEF Target

-----------------------------------------------------------------------------
(* Types.                                                                  *)

LEMMA InitTypes == ASSUME Init PROVE Types
<1>1. attempt = 0 /\ 1..attempt = {} /\ image \in [1..attempt -> Images]
  BY DEF Init
<1>2. dir \in [DOMAIN dir -> {Torn, Whole}] /\ DOMAIN dir \subseteq File
  BY DEF Init
<1>3. TypeOK
  BY <1>1, <1>2, ExportConstants DEF Init, TypeOK, Steps
<1> QED
  BY <1>3 DEF Init, Types

LEMMA PutTypes ==
    ASSUME Types, NEW f \in File, NEW content \in {Torn, Whole}, Put(f, content)
    PROVE  DOMAIN dir' \subseteq File /\ dir' \in [DOMAIN dir' -> {Torn, Whole}]
<1>1. /\ dir' = [g \in DOMAIN dir \cup {f} |-> IF g = f THEN content ELSE dir[g]]
      /\ DOMAIN dir' = DOMAIN dir \cup {f}
  BY DEF Put
<1>2. \A g \in DOMAIN dir \cup {f} : dir'[g] \in {Torn, Whole}
  BY <1>1 DEF Types, TypeOK
<1>3. DOMAIN dir' \subseteq File
  BY <1>1 DEF Types, TypeOK
<1>4. dir' = [g \in DOMAIN dir' |-> dir'[g]]
  BY <1>1
<1> QED
  BY <1>1, <1>2, <1>3, <1>4

LEMMA TypesNext ==
    ASSUME Types, Control, [Next]_vars
    PROVE  Types'
<1> USE ExportConstants
<1>0. attempt \in Nat /\ (attempt # 0 => attempt \in Attempt)
  BY DEF Types, TypeOK, Attempt
<1>1. CASE Start
  <2>1. /\ attempt' = attempt + 1 /\ attempt' \in Attempt
        /\ image' \in [1..attempt' -> Images]
    <3>1. PICK layers \in Images : image' = [a \in 1..attempt + 1 |->
                                  IF a = attempt + 1 THEN layers ELSE image[a]]
      BY <1>1 DEF Start
    <3>2. \A a \in 1..attempt + 1 : a # attempt + 1 => a \in 1..attempt
      BY <1>0
    <3>3. attempt' = attempt + 1 /\ attempt < MaxAttempts
      BY <1>1 DEF Start
    <3>4. image \in [1..attempt -> Images]
      BY DEF Types, TypeOK
    <3>5. image' \in [1..attempt + 1 -> Images]
      BY <3>1, <3>2, <3>4
    <3> QED
      BY <1>0, <3>3, <3>5 DEF Attempt
  <2>2. DOMAIN dir' \subseteq File /\ dir' \in [DOMAIN dir' -> {Torn, Whole}]
    BY <1>1 DEF Start, Types, TypeOK
  <2> QED
    BY <1>0, <1>1, <2>1, <2>2 DEF Start, Types, TypeOK, Steps, Attempt
<1>2. CASE OpenFile
  <2>1. Target \in File /\ Put(Target, Torn)
    BY <1>2, TargetType DEF OpenFile, MustWrite, AtLayer
  <2>2. DOMAIN dir' \subseteq File /\ dir' \in [DOMAIN dir' -> {Torn, Whole}]
    BY <2>1, PutTypes
  <2> QED
    BY <1>0, <1>2, <2>1, <2>2 DEF OpenFile, Types, TypeOK
<1>3. CASE WriteLayer
  <2>1. writing \in File /\ Put(writing, Whole)
    BY <1>3, TargetType DEF WriteLayer, AtLayer, Control
  <2>2. DOMAIN dir' \subseteq File /\ dir' \in [DOMAIN dir' -> {Torn, Whole}]
    BY <2>1, PutTypes
  <2> QED
    BY <1>0, <1>3, <2>1, <2>2 DEF WriteLayer, Types, TypeOK
<1>4. CASE WriteRest
  <2>1. writing \in File /\ Put(writing, Whole)
    BY <1>4, TargetType DEF WriteRest, Control
  <2>2. DOMAIN dir' \subseteq File /\ dir' \in [DOMAIN dir' -> {Torn, Whole}]
    BY <2>1, PutTypes
  <2>3. After(pc) \in Steps \cup {"idle"}
    BY DEF After, Steps
  <2> QED
    BY <1>0, <1>4, <2>1, <2>2, <2>3 DEF WriteRest, Types, TypeOK, Attempt
<1>5. CASE SkipLayer
  BY <1>5 DEF SkipLayer, AtLayer, Types, TypeOK
<1>6. CASE LayersCopied
  BY <1>0, <1>6 DEF LayersCopied, After, Types, TypeOK, Steps
<1>7. CASE CreateTar
  BY <1>7 DEF CreateTar, Types, TypeOK, Steps
<1>8. CASE FinishTar
  <2>1. tar' \in Archive /\ tar'.of = attempt
    <3>1. dir \in UNION {[fs -> {Torn, Whole}] : fs \in SUBSET File}
      BY DEF Types, TypeOK
    <3>2. tar' = [of |-> attempt, files |-> dir] /\ attempt \in Attempt
      BY <1>0, <1>8 DEF FinishTar, Types
    <3> QED
      BY <3>1, <3>2 DEF Archive
  <2>2. DOMAIN dir' \subseteq File /\ dir' \in [DOMAIN dir' -> {Torn, Whole}]
    BY <1>8 DEF FinishTar, DropTemporary, Types, TypeOK
  <2>3. tar'.of \in Attempt /\ DOMAIN tar'.files \subseteq File
    BY <1>8 DEF FinishTar, Types, TypeOK
  <2> QED
    BY <1>0, <1>8, <2>1, <2>2, <2>3 DEF FinishTar, Types, TypeOK
<1>9. ASSUME BreakOff PROVE broken' \subseteq Digest
  <2>1. CASE pc = "layers" /\ writing # Nothing
    <3>1. writing = LayerBlob(image[attempt][at].digest) /\ at \in DOMAIN image[attempt]
      BY <2>1, TargetType DEF Control
    <3>2. attempt \in 1..attempt
      BY <1>0, <2>1 DEF Types, Attempt
    <3>3. writing.id \in Digest
      BY <3>1, <3>2, LayerTypes DEF LayerBlob
    <3> QED
      BY <1>9, <2>1, <3>3 DEF BreakOff, Types, TypeOK
  <2>2. CASE ~(pc = "layers" /\ writing # Nothing)
    BY <1>9, <2>2 DEF BreakOff, Types, TypeOK
  <2> QED
    BY <2>1, <2>2
<1>10. CASE Fail
  <2>1. DOMAIN dir' \subseteq File /\ dir' \in [DOMAIN dir' -> {Torn, Whole}]
    BY <1>10 DEF Fail, DropTemporary, Types, TypeOK
  <2> QED
    BY <1>9, <1>10, <2>1 DEF Fail, BreakOff, Types, TypeOK, Steps
<1>11. CASE Crash
  BY <1>9, <1>11 DEF Crash, BreakOff, Types, TypeOK, Steps
<1>12. CASE UNCHANGED vars
  BY <1>12 DEF vars, Types, TypeOK, Steps
<1> QED
  BY <1>1, <1>2, <1>3, <1>4, <1>5, <1>6, <1>7, <1>8, <1>10, <1>11, <1>12 DEF Next, Export

-----------------------------------------------------------------------------
(* What stays as it is.                                                    *)

\* The images of the attempts that have begun do not change.
LEMMA ImagesStay ==
    ASSUME Types, [Next]_vars
    PROVE  /\ attempt' \in Nat /\ attempt <= attempt'
           /\ \A a \in 1..attempt : image'[a] = image[a] /\ layersOf(a)' = layersOf(a)
<1>1. attempt \in Nat
  BY DEF Types, TypeOK
<1>2. CASE Start
  <2>1. attempt' = attempt + 1 /\ \A a \in 1..attempt : image'[a] = image[a]
    BY <1>1, <1>2 DEF Start
  <2> QED
    BY <1>1, <2>1 DEF layersOf
<1>3. CASE UNCHANGED <<attempt, image>>
  BY <1>1, <1>3 DEF layersOf
<1>4. Start \/ UNCHANGED <<attempt, image>>
  BY DEF Next, vars, Export, OpenFile, WriteLayer, SkipLayer, LayersCopied, WriteRest,
         CreateTar, FinishTar, Fail, Crash
<1> QED
  BY <1>2, <1>3, <1>4

\* What an export at work has open is a file of the layout or the archive.
LEMMA OpenFileType ==
    ASSUME Types, Control, writing # Nothing, pc # "archive"
    PROVE  /\ writing = Target /\ writing \in File
           /\ pc = "layers" => /\ AtLayer /\ at \in DOMAIN image[attempt]
                               /\ writing = LayerBlob(image[attempt][at].digest)
BY TargetType DEF Control

-----------------------------------------------------------------------------
(* Control.                                                                *)

LEMMA ControlNext ==
    ASSUME Types, Control, [Next]_vars
    PROVE  Control'
<1> USE DEF Types, TypeOK
<1>1. CASE Start
  BY <1>1 DEF Start, Control, AtLayer, Target
<1>2. CASE OpenFile
  <2>1. Target' = Target /\ AtLayer' = AtLayer
    BY <1>2 DEF OpenFile, Target, AtLayer
  <2>2. pc # "idle" /\ pc # "archive" /\ (pc = "layers" => AtLayer /\ ~image[attempt][at].empty)
    BY <1>2 DEF OpenFile, MustWrite, AtLayer
  <2>3. attempt \in Attempt
    BY <2>2
  <2> QED
    BY <1>2, <2>1, <2>2, <2>3 DEF OpenFile, Control, Attempt
<1>3. CASE WriteLayer
  BY <1>3 DEF WriteLayer, Control, AtLayer
<1>4. CASE WriteRest
  BY <1>4 DEF WriteRest, Control, After
<1>5. CASE SkipLayer
  BY <1>5 DEF SkipLayer, Control, AtLayer
<1>6. CASE LayersCopied
  <2>1. writing = Nothing
    BY <1>6 DEF LayersCopied, Control, AtLayer
  <2> QED
    BY <1>6, <2>1 DEF LayersCopied, Control, After
<1>7. CASE CreateTar
  BY <1>7 DEF CreateTar, Control
<1>8. CASE FinishTar
  BY <1>8 DEF FinishTar, Control
<1>9. CASE Fail \/ Crash
  BY <1>9 DEF Fail, Crash, BreakOff, Control
<1>10. CASE UNCHANGED vars
  BY <1>10 DEF vars, Control, AtLayer, Target
<1> QED
  BY <1>1, <1>2, <1>3, <1>4, <1>5, <1>6, <1>7, <1>8, <1>9, <1>10 DEF Next, Export

-----------------------------------------------------------------------------
(* Progress.                                                               *)

\* The loop over the layers has done one more.
LEMMA CopiedOneMore ==
    ASSUME Types, pc = "layers", AtLayer, UNCHANGED <<image, attempt>>, at' = at + 1
    PROVE  Copied(at)' = Copied(at) \cup
              (IF image[attempt][at].empty THEN {} ELSE {image[attempt][at].digest})
<1>1. attempt \in 1..attempt /\ at \in Nat
  BY DEF Types, TypeOK, Attempt
<1>2. at \in DOMAIN image[attempt] /\ \A j \in DOMAIN image[attempt] : j \in Nat
  BY <1>1, LayerTypes DEF AtLayer, Types, TypeOK
<1>3. \A j \in DOMAIN image[attempt] : j < at + 1 <=> j < at \/ j = at
  BY <1>1, <1>2
<1> QED
  BY <1>2, <1>3 DEF Copied

LEMMA NothingCopied == ASSUME Types, attempt \in Attempt PROVE Copied(1) = {}
<1>1. \A j \in DOMAIN image[attempt] : ~(j < 1)
  BY LayerTypes DEF Types, TypeOK, Attempt
<1> QED
  BY <1>1 DEF Copied

LEMMA AllCopied ==
    ASSUME Types, attempt \in Attempt, at > Len(image[attempt])
    PROVE  Copied(at) = layersOf(attempt)
<1>1. \A j \in DOMAIN image[attempt] : j < at
  BY LayerTypes DEF Types, TypeOK, Attempt
<1> QED
  BY <1>1 DEF Copied, layersOf

\* a file that is written and not truncated stays so
LEMMA WrittenStays ==
    ASSUME NEW f, NEW g, NEW content, Put(g, content), f # g \/ content = Whole, Written(f)
    PROVE  Written(f)'
<1>1. /\ DOMAIN dir' = DOMAIN dir \cup {g} /\ dir'[g] = content
      /\ \A h \in DOMAIN dir : h # g => dir'[h] = dir[h]
  BY PutWrites
<1> QED
  BY <1>1 DEF Written

LEMMA ProgressNext ==
    ASSUME Types, Control, Progress, [Next]_vars
    PROVE  Progress'
<1>0. /\ attempt \in Nat /\ (pc # "idle" => attempt \in Attempt) /\ at \in Nat
      /\ pc # "idle" => Len(image[attempt]) \in Nat
  <2>1. pc # "idle" => attempt \in Attempt /\ attempt \in 1..attempt
    BY DEF Types, Attempt
  <2> QED
    BY <2>1, LayerTypes DEF Types, TypeOK
<1>1. CASE Start
  <2>1. /\ attempt' = attempt + 1 /\ attempt + 1 \in Attempt
        /\ pc' = "layout" /\ at' = 1
    BY <1>0, <1>1, ExportConstants DEF Start, Attempt
  <2>2. DOMAIN dir' \subseteq DOMAIN dir
    BY <1>1 DEF Start
  <2>3. \A a \in Attempt : a >= attempt' =>
            ConfigBlob(a) \notin DOMAIN dir' /\ ManifestBlob(a) \notin DOMAIN dir'
    BY <1>0, <2>1, <2>2 DEF Progress, Attempt
  <2> QED
    BY <1>0, <2>1, <2>3 DEF Progress, Attempt
<1>2. CASE OpenFile
  <2>1. /\ Put(Target, Torn) /\ writing = Nothing /\ writing' = Target
        /\ UNCHANGED <<attempt, pc, at, image>>
        /\ pc \in {"layout", "config", "manifest", "index"} \/ (pc = "layers" /\ AtLayer)
    BY <1>2 DEF OpenFile, MustWrite, AtLayer
  <2>2. Target \in File /\ Target # Nothing /\ attempt \in Attempt
    BY <1>0, <2>1, TargetType, FileTypes
  <2>3. /\ DOMAIN dir' = DOMAIN dir \cup {Target}
        /\ \A g \in DOMAIN dir : g # Target => dir'[g] = dir[g]
    BY <2>1, PutWrites
  <2>4. Copied(at)' = Copied(at)
    BY <2>1 DEF Copied
  <2>5. \A a : /\ Target = ConfigBlob(a) => pc = "config" /\ a = attempt
               /\ Target = ManifestBlob(a) => pc = "manifest" /\ a = attempt
    <3>1. pc = "layers" => Target = LayerBlob(image[attempt][at].digest)
      BY <2>1, TargetType
    <3> QED
      BY <2>1, <3>1, FilesDiffer DEF Target
  <2>6. \A f : Written(f) /\ f # Target => Written(f)'
    BY <2>3 DEF Written
  <2>7. \A a \in Attempt : a > attempt => a # attempt
    BY <1>0 DEF Attempt
  <2> HIDE DEF Target
  <2> QED
    BY <2>1, <2>2, <2>3, <2>4, <2>5, <2>6, <2>7 DEF Progress
<1>3. CASE WriteLayer
  <2>1. /\ Put(writing, Whole) /\ pc = "layers" /\ AtLayer /\ at' = at + 1
        /\ writing = LayerBlob(image[attempt][at].digest)
        /\ UNCHANGED <<attempt, pc, image>>
    BY <1>3, OpenFileType DEF WriteLayer, AtLayer
  <2>2. DOMAIN dir' = DOMAIN dir \cup {writing}
    BY <2>1, PutWrites
  <2>3. \A a : writing # ConfigBlob(a) /\ writing # ManifestBlob(a)
    BY <2>1, FilesDiffer
  <2>4. \A d \in Copied(at)' : LayerBlob(d) \in DOMAIN dir'
    BY <2>1, <2>2, CopiedOneMore DEF Progress
  <2> QED
    BY <2>1, <2>2, <2>3, <2>4 DEF Progress
<1>4. CASE WriteRest
  <2>1. /\ Put(writing, Whole) /\ pc \in {"layout", "config", "manifest", "index"}
        /\ writing = Target /\ writing' = Nothing /\ pc' = After(pc)
        /\ UNCHANGED <<attempt, at, image>>
    BY <1>4, OpenFileType DEF WriteRest
  <2>2. DOMAIN dir' = DOMAIN dir \cup {Target} /\ dir'[Target] = Whole
    BY <2>1, PutWrites
  <2>3. \A f : Written(f) => Written(f)'
    BY <2>1, WrittenStays
  <2>4. \A a : /\ Target = ConfigBlob(a) => pc = "config" /\ a = attempt
               /\ Target = ManifestBlob(a) => pc = "manifest" /\ a = attempt
    BY <2>1, FilesDiffer DEF Target
  <2>5. Copied(at)' = Copied(at) /\ (pc = "layout" => Copied(at) = {})
    BY <1>0, <2>1, NothingCopied DEF Copied, Progress
  <2>6. /\ pc = "config" => Target = ConfigBlob(attempt)
        /\ pc = "manifest" => Target = ManifestBlob(attempt)
    BY <2>1 DEF Target
  <2>7. \A a \in Attempt : a > attempt => a # attempt
    BY <1>0 DEF Attempt
  <2>8. /\ pc = "config" => Written(ConfigBlob(attempt))'
        /\ pc = "manifest" => Written(ManifestBlob(attempt))'
    BY <2>1, <2>2, <2>6 DEF Written, ConfigBlob, ManifestBlob
  <2> HIDE DEF Target
  <2>9. CASE pc = "layout"
    <3>1. pc' = "layers"
      BY <2>1, <2>9 DEF After
    <3> QED
      BY <2>1, <2>2, <2>4, <2>5, <2>7, <2>9, <3>1 DEF Progress
  <2>10. CASE pc = "config"
    <3>1. pc' = "manifest"
      BY <2>1, <2>10 DEF After
    <3> QED
      BY <2>1, <2>2, <2>4, <2>5, <2>7, <2>8, <2>10, <3>1 DEF Progress
  <2>11. CASE pc = "manifest"
    <3>1. pc' = "index"
      BY <2>1, <2>11 DEF After
    <3>2. Written(ConfigBlob(attempt))'
      BY <2>1, <2>3, <2>11 DEF Progress, ConfigBlob
    <3> QED
      BY <2>1, <2>2, <2>4, <2>5, <2>7, <2>8, <2>11, <3>1, <3>2 DEF Progress
  <2>12. CASE pc = "index"
    <3>1. pc' \in {"archive", "idle"}
      BY <2>1, <2>12 DEF After
    <3>2. Written(ConfigBlob(attempt))' /\ Written(ManifestBlob(attempt))'
      BY <2>1, <2>3, <2>12 DEF Progress, ConfigBlob, ManifestBlob
    <3> QED
      BY <2>1, <2>2, <2>4, <2>5, <2>7, <2>12, <3>1, <3>2 DEF Progress
  <2> QED
    BY <2>1, <2>9, <2>10, <2>11, <2>12
<1>5. CASE SkipLayer
  <2>1. /\ pc = "layers" /\ AtLayer /\ at' = at + 1 /\ ~MustWrite
        /\ UNCHANGED <<attempt, pc, image, dir, writing>>
    BY <1>5 DEF SkipLayer, AtLayer
  <2>2. image[attempt][at].empty \/ LayerBlob(image[attempt][at].digest) \in DOMAIN dir
    BY <2>1, TargetType DEF MustWrite
  <2>3. \A d \in Copied(at)' : LayerBlob(d) \in DOMAIN dir'
    BY <2>1, <2>2, CopiedOneMore DEF Progress
  <2> QED
    BY <2>1, <2>3 DEF Progress
<1>6. CASE LayersCopied
  <2>1. /\ pc = "layers" /\ at > Len(image[attempt]) /\ pc' = "config" /\ Copied(at)' = Copied(at)
        /\ UNCHANGED <<attempt, at, image, dir, writing>>
    BY <1>6 DEF LayersCopied, After, Copied
  <2> QED
    BY <2>1 DEF Progress
<1>7. CASE CreateTar \/ UNCHANGED vars
  <2>1. /\ UNCHANGED <<attempt, pc, at, image, dir>> /\ Copied(at)' = Copied(at)
        /\ pc = "archive" \/ UNCHANGED writing
    BY <1>7 DEF CreateTar, vars, Copied
  <2>2. \A f : Written(f) => Written(f)'
    BY <2>1 DEF Written
  <2> QED
    BY <2>1, <2>2 DEF Progress
<1>8. CASE FinishTar \/ Fail \/ Crash
  <2>1. pc' = "idle" /\ attempt' = attempt /\ DOMAIN dir' \subseteq DOMAIN dir
    BY <1>8 DEF FinishTar, Fail, Crash, BreakOff, DropTemporary
  <2> QED
    BY <2>1 DEF Progress
<1> QED
  BY <1>1, <1>2, <1>3, <1>4, <1>5, <1>6, <1>7, <1>8 DEF Next, Export

-----------------------------------------------------------------------------
(* The image the index names, in an output directory.                      *)

\* A step that neither truncates nor removes, and leaves the index as it is.
LEMMA IndexStays ==
    ASSUME Types, IndexReachesEverything, [Next]_vars, format' = format, index' = index,
           \A f \in DOMAIN dir : f \in DOMAIN dir',
           index # 0 => \A f \in {ManifestBlob(index), ConfigBlob(index)} :
                            f \in DOMAIN dir => dir'[f] = dir[f],
           returned' = "ok" => returned = "ok" /\ attempt' = attempt
    PROVE  IndexReachesEverything'
<1>1. index # 0 => layersOf(index)' = layersOf(index)
  <2>1. index # 0 => index \in 1..attempt
    BY DEF Types, TypeOK
  <2>2. index # 0 => layersOf(index') = layersOf(index)
    OBVIOUS
  <2> QED
    BY <2>1, ImagesStay DEF layersOf
<1>2. ASSUME index # 0, format = "oci"
      PROVE  /\ {ManifestBlob(index), ConfigBlob(index)} \subseteq DOMAIN dir'
             /\ dir'[ManifestBlob(index)] = Whole /\ dir'[ConfigBlob(index)] = Whole
             /\ \A d \in layersOf(index) : LayerBlob(d) \in DOMAIN dir'
  BY <1>2 DEF IndexReachesEverything
<1>3. format = "oci" /\ returned' = "ok" => index = attempt'
  BY DEF IndexReachesEverything
<1> QED
  BY <1>1, <1>2, <1>3 DEF IndexReachesEverything, ManifestBlob, ConfigBlob, LayerBlob

LEMMA IndexNext ==
    ASSUME Types, Control, Progress, IndexReachesEverything, [Next]_vars
    PROVE  IndexReachesEverything'
<1>0. /\ attempt \in Nat /\ index \in Nat /\ index <= attempt
      /\ format' = format
  BY DEF Types, TypeOK, Next, vars, Export, Start, OpenFile, WriteLayer, SkipLayer,
         LayersCopied, WriteRest, CreateTar, FinishTar, Fail, Crash
<1> SUFFICES ASSUME format = "oci" PROVE IndexReachesEverything'
  BY <1>0 DEF IndexReachesEverything
<1>1. CASE Start
  <2>1. UNCHANGED <<dir, index, format>> /\ returned' = "nothing"
    BY <1>1 DEF Start
  <2> QED
    BY <2>1, IndexStays
<1>2. CASE OpenFile
  <2>1. /\ Put(Target, Torn) /\ pc \notin {"idle", "archive"} /\ (pc = "layers" => AtLayer)
        /\ index' = (IF pc = "index" THEN 0 ELSE index)
        /\ UNCHANGED <<attempt, image, returned>>
    BY <1>2 DEF OpenFile, MustWrite, AtLayer
  <2>2. returned' # "ok"
    BY <2>1 DEF Control
  <2>3. CASE pc = "index"
    BY <2>1, <2>2, <2>3 DEF IndexReachesEverything
  <2>4. CASE pc # "index"
    <3>1. index' = index /\ index # attempt
      BY <1>0, <2>1, <2>4 DEF Control
    <3>2. Target \notin {ManifestBlob(index), ConfigBlob(index)}
      <4>1. pc = "layers" => Target = LayerBlob(image[attempt][at].digest)
        BY <2>1, TargetType
      <4> QED
        BY <2>1, <3>1, <4>1, FilesDiffer DEF Target
    <3>3. /\ DOMAIN dir' = DOMAIN dir \cup {Target}
          /\ \A g \in DOMAIN dir : g # Target => dir'[g] = dir[g]
      BY <2>1, PutWrites
    <3> QED
      BY <1>0, <2>2, <3>1, <3>2, <3>3, IndexStays
  <2> QED
    BY <2>3, <2>4
<1>3. CASE WriteLayer
  <2>1. /\ Put(writing, Whole) /\ writing = LayerBlob(image[attempt][at].digest)
        /\ UNCHANGED <<attempt, image, returned, index>>
    BY <1>3, OpenFileType DEF WriteLayer, AtLayer
  <2>2. /\ DOMAIN dir' = DOMAIN dir \cup {writing}
        /\ \A g \in DOMAIN dir : g # writing => dir'[g] = dir[g]
    BY <2>1, PutWrites
  <2>3. writing \notin {ManifestBlob(index), ConfigBlob(index)}
    BY <2>1, FilesDiffer
  <2> QED
    BY <1>0, <2>1, <2>2, <2>3, IndexStays
<1>4. CASE WriteRest
  <2>1. /\ Put(writing, Whole) /\ pc \in {"layout", "config", "manifest", "index"}
        /\ writing = Target /\ pc' = After(pc)
        /\ index' = (IF pc = "index" THEN attempt ELSE index)
        /\ returned' = (IF After(pc) = "idle" THEN "ok" ELSE returned)
        /\ UNCHANGED <<attempt, image>>
    BY <1>4, OpenFileType DEF WriteRest
  <2>2. /\ DOMAIN dir' = DOMAIN dir \cup {writing} /\ dir'[writing] = Whole
        /\ \A g \in DOMAIN dir : g # writing => dir'[g] = dir[g]
    BY <2>1, PutWrites
  <2>3. CASE pc # "index"
    <3>1. After(pc) # "idle" /\ index # attempt
      BY <1>0, <2>1, <2>3 DEF After, Control
    <3>2. writing \notin {ManifestBlob(index), ConfigBlob(index)}
      BY <2>1, <2>3, <3>1, FilesDiffer DEF Target
    <3> QED
      BY <1>0, <2>1, <2>2, <2>3, <3>1, <3>2, IndexStays
  <2>4. CASE pc = "index"
    <3>1. attempt \in Attempt /\ writing = IndexFile
      BY <2>1, <2>4 DEF Types, Target
    <3>2. Written(ManifestBlob(attempt)) /\ Written(ConfigBlob(attempt))
      BY <2>4 DEF Progress
    <3>3. \A d \in layersOf(attempt) : LayerBlob(d) \in DOMAIN dir
      BY <2>4, <3>1, AllCopied DEF Progress
    <3>5. /\ {ManifestBlob(attempt), ConfigBlob(attempt)} \subseteq DOMAIN dir'
          /\ dir'[ManifestBlob(attempt)] = Whole /\ dir'[ConfigBlob(attempt)] = Whole
      BY <2>2, <3>1, <3>2, FilesDiffer DEF Written
    <3>6. index' = attempt /\ attempt' = attempt /\ image' = image
      BY <2>1, <2>4
    <3>7. layersOf(index)' = layersOf(attempt)
      BY <3>6 DEF layersOf
    <3>8. \A d \in layersOf(index)' : LayerBlob(d) \in DOMAIN dir'
      BY <2>2, <3>3, <3>7
    <3> QED
      BY <3>5, <3>6, <3>8 DEF IndexReachesEverything, ManifestBlob, ConfigBlob, LayerBlob
  <2> QED
    BY <2>3, <2>4
<1>5. CASE SkipLayer \/ LayersCopied \/ CreateTar \/ UNCHANGED vars
  <2>1. UNCHANGED <<dir, index, format, returned, attempt>>
    BY <1>5 DEF SkipLayer, LayersCopied, CreateTar, vars
  <2> QED
    BY <2>1, IndexStays
<1>6. CASE FinishTar
  BY <1>6 DEF FinishTar, Control
<1>7. CASE Fail \/ Crash
  <2>1. UNCHANGED <<dir, index, format>> /\ returned' # "ok"
    BY <1>7 DEF Fail, Crash, BreakOff, DropTemporary
  <2> QED
    BY <2>1, IndexStays
<1> QED
  BY <1>1, <1>2, <1>3, <1>4, <1>5, <1>6, <1>7 DEF Next, Export

-----------------------------------------------------------------------------
(* Blobs in an output directory.                                           *)

LEMMA BlobsNext ==
    ASSUME Types, Control, Progress, IndexReachesEverything, BlobsAccounted, [Next]_vars
    PROVE  BlobsAccounted'
<1>0. /\ attempt \in Nat /\ index \in Nat /\ index <= attempt
      /\ format' = format
  BY DEF Types, TypeOK, Next, vars, Export, Start, OpenFile, WriteLayer, SkipLayer,
         LayersCopied, WriteRest, CreateTar, FinishTar, Fail, Crash
<1> SUFFICES ASSUME format = "oci" PROVE BlobsAccounted'
  BY <1>0 DEF BlobsAccounted
<1> DEFINE Accounted == \A d \in Digest : LayerBlob(d) \in DOMAIN dir =>
              dir[LayerBlob(d)] = Whole \/ d \in broken \/ writing = LayerBlob(d)
           Safe == index # 0 => \A d \in layersOf(index) : writing # LayerBlob(d)
<1>s. Accounted' /\ Safe' => BlobsAccounted'
  BY DEF BlobsAccounted, LayerBlob
<1>i. Accounted /\ Safe
  BY DEF BlobsAccounted
<1>n. ASSUME writing' = Nothing PROVE Safe'
  <2>1. index' # 0 => layersOf(index)' \subseteq Digest
    <3>1. Types'
      BY TypesNext
    <3>2. index' # 0 => index' \in 1..attempt'
      BY <3>1 DEF Types, TypeOK
    <3>3. \A a \in 1..attempt' : layersOf(a)' \subseteq Digest
      <4>1. SUFFICES ASSUME NEW a \in 1..attempt' PROVE layersOf(a)' \subseteq Digest
        OBVIOUS
      <4>2. image'[a] \in Seq(Layer)
        BY <3>1, ExportConstants DEF Types, TypeOK
      <4>3. \A i \in DOMAIN image'[a] : image'[a][i] \in Layer
        BY <4>2
      <4> QED
        BY <4>3 DEF layersOf, Layer
    <3> QED
      BY <3>2, <3>3 DEF layersOf
  <2> QED
    BY <1>n, <2>1, FileTypes DEF LayerBlob
<1>k. ASSUME index' = index, writing' = writing PROVE Safe'
  <2>1. index # 0 => index \in 1..attempt
    BY <1>0
  <2>2. index # 0 => layersOf(index)' = layersOf(index)
    BY <1>k, <2>1, ImagesStay DEF layersOf
  <2> QED
    BY <1>i, <1>k, <2>2 DEF LayerBlob
<1>1. CASE Start
  <2>1. UNCHANGED <<dir, index, broken, writing>>
    BY <1>1 DEF Start
  <2> QED
    BY <1>s, <1>i, <1>k, <2>1 DEF LayerBlob
<1>2. CASE OpenFile
  <2>1. /\ Put(Target, Torn) /\ pc \notin {"idle", "archive"} /\ (pc = "layers" => AtLayer)
        /\ writing = Nothing /\ writing' = Target /\ (pc = "layers" => Target \notin DOMAIN dir)
        /\ index' = (IF pc = "index" THEN 0 ELSE index)
        /\ UNCHANGED <<attempt, image, broken>>
    BY <1>2 DEF OpenFile, MustWrite, AtLayer
  <2>2. /\ DOMAIN dir' = DOMAIN dir \cup {Target}
        /\ \A g \in DOMAIN dir : g # Target => dir'[g] = dir[g]
    BY <2>1, PutWrites
  <2>3. Accounted'
    <3>1. ASSUME NEW d \in Digest, LayerBlob(d) \in DOMAIN dir', LayerBlob(d) # Target
          PROVE  dir'[LayerBlob(d)] = Whole \/ d \in broken'
      BY <1>i, <2>1, <2>2, <3>1, FileTypes
    <3> QED
      BY <2>1, <3>1 DEF LayerBlob
  <2>4. Safe'
    <3>1. \A d \in Digest : Target = LayerBlob(d) => LayerBlob(d) \notin DOMAIN dir
      BY <2>1, FilesDiffer DEF Target
    <3>2. index' # 0 => index' = index /\ index \in 1..attempt
      BY <1>0, <2>1
    <3>3. index' # 0 => layersOf(index)' = layersOf(index) /\ layersOf(index) \subseteq Digest
      BY <3>2, ImagesStay, LayerTypes DEF layersOf
    <3>4. index' # 0 => \A d \in layersOf(index) : LayerBlob(d) \in DOMAIN dir
      BY <3>2 DEF IndexReachesEverything
    <3> QED
      BY <2>1, <3>1, <3>3, <3>4 DEF LayerBlob
  <2> QED
    BY <1>s, <2>3, <2>4
<1>3. CASE WriteLayer \/ WriteRest
  <2>1. Put(writing, Whole) /\ writing' = Nothing /\ broken' = broken
    BY <1>3 DEF WriteLayer, WriteRest
  <2>2. /\ DOMAIN dir' = DOMAIN dir \cup {writing} /\ dir'[writing] = Whole
        /\ \A g \in DOMAIN dir : g # writing => dir'[g] = dir[g]
    BY <2>1, PutWrites
  <2>3. Accounted'
    BY <1>i, <2>1, <2>2 DEF LayerBlob
  <2> QED
    BY <1>s, <1>n, <2>1, <2>3
<1>4. CASE SkipLayer \/ LayersCopied \/ UNCHANGED vars
  <2>1. UNCHANGED <<dir, index, broken, writing>>
    BY <1>4 DEF SkipLayer, LayersCopied, vars
  <2> QED
    BY <1>s, <1>i, <1>k, <2>1 DEF LayerBlob
<1>5. CASE CreateTar \/ FinishTar
  BY <1>5 DEF CreateTar, FinishTar, Control
<1>6. CASE Fail \/ Crash
  <2>1. /\ UNCHANGED <<dir, index>> /\ writing' = Nothing
        /\ broken' = IF pc = "layers" /\ writing # Nothing
                     THEN broken \cup {writing.id} ELSE broken
    BY <1>6 DEF Fail, Crash, BreakOff, DropTemporary
  <2>2. ASSUME NEW d \in Digest, writing = LayerBlob(d)
        PROVE  d \in broken'
    <3>1. writing # Nothing /\ pc # "idle" /\ pc # "archive"
      BY <2>2, FileTypes DEF Control, File
    <3>2. pc = "layers"
      BY <2>2, <3>1, OpenFileType, FilesDiffer DEF Target
    <3> QED
      BY <2>1, <2>2, <3>1, <3>2 DEF LayerBlob
  <2>3. Accounted'
    BY <1>i, <2>1, <2>2 DEF LayerBlob
  <2> QED
    BY <1>s, <1>n, <2>1, <2>3
<1> QED
  BY <1>1, <1>2, <1>3, <1>4, <1>5, <1>6 DEF Next, Export

\* A whole blob is never opened again: a layer blob that is there is skipped,
\* and a configuration or manifest of the attempt has not been there.
LEMMA WholeStays ==
    ASSUME Types, Control, Progress, [Next]_vars, format = "oci",
           NEW f \in DOMAIN dir \cap Blob, dir[f] = Whole
    PROVE  f \in DOMAIN dir' /\ dir'[f] = Whole
<1>1. CASE OpenFile
  <2>1. /\ Put(Target, Torn) /\ pc \notin {"idle", "archive"} /\ (pc = "layers" => AtLayer)
        /\ writing = Nothing /\ (pc = "layers" => Target \notin DOMAIN dir)
    BY <1>1 DEF OpenFile, MustWrite, AtLayer
  <2>2. f # LayoutFile /\ f # IndexFile
    BY DEF Blob, LayoutFile, IndexFile
  <2>3. f # Target
    BY <2>1, <2>2 DEF Target, Progress, Types, TypeOK, Steps
  <2> QED
    BY <2>1, <2>3, PutWrites
<1>2. CASE WriteLayer \/ WriteRest
  <2>1. Put(writing, Whole)
    BY <1>2 DEF WriteLayer, WriteRest
  <2> QED
    BY <2>1, PutWrites
<1>3. CASE ~(OpenFile \/ WriteLayer \/ WriteRest)
  BY <1>3 DEF Next, vars, Export, Start, SkipLayer, LayersCopied, CreateTar, FinishTar,
              Fail, Crash, DropTemporary
<1> QED
  BY <1>1, <1>2, <1>3

-----------------------------------------------------------------------------
(* The temporary layout and the archive made of it.                        *)

LEMMA TemporaryNext ==
    ASSUME Types, Control, Progress, TemporaryIsFresh, [Next]_vars
    PROVE  TemporaryIsFresh'
<1>0. format' = format
  BY DEF Next, vars, Export, Start, OpenFile, WriteLayer, SkipLayer, LayersCopied, WriteRest,
         CreateTar, FinishTar, Fail, Crash
<1> SUFFICES ASSUME format = "tar", pc' # "idle"
             PROVE  /\ DOMAIN dir' = Expected' \cup
                          (IF writing' \in {Nothing, TarFile} THEN {} ELSE {writing'})
                    /\ \A f \in DOMAIN dir' : f = writing' \/ dir'[f] = Whole
  BY <1>0 DEF TemporaryIsFresh, TarFile
<1>a. ASSUME pc # "idle", writing = Nothing
      PROVE  DOMAIN dir = Expected /\ \A f \in DOMAIN dir : dir[f] = Whole
  <2>1. DOMAIN dir \subseteq File
    BY DEF Types, TypeOK
  <2> QED
    BY <1>a, <2>1, FileTypes DEF TemporaryIsFresh
<1>b. ASSUME pc # "idle", writing \in File
      PROVE  /\ DOMAIN dir = Expected \cup {writing}
             /\ \A f \in DOMAIN dir : f # writing => dir[f] = Whole
  BY <1>b, FileTypes DEF TemporaryIsFresh
<1>1. CASE Start
  <2>1. pc' = "layout" /\ at' = 1 /\ DOMAIN dir' = {} /\ writing' = Nothing
    BY <1>1 DEF Start, Control
  <2>2. Copied(at)' = {}
    <3>1. Types'
      BY TypesNext
    <3>2. image'[attempt'] \in Seq(Layer)
      BY <2>1, <3>1, ExportConstants DEF Types, TypeOK, Attempt
    <3>3. \A j \in DOMAIN image'[attempt'] : ~(j < 1)
      BY <3>2
    <3> QED
      BY <2>1, <3>3 DEF Copied
  <2>3. Expected' = {}
    BY <2>1, <2>2 DEF Expected
  <2> QED
    BY <2>1, <2>3
<1>2. CASE OpenFile
  <2>1. /\ Put(Target, Torn) /\ pc \notin {"idle", "archive"} /\ (pc = "layers" => AtLayer)
        /\ writing = Nothing /\ writing' = Target
        /\ UNCHANGED <<attempt, image, pc, at>>
    BY <1>2 DEF OpenFile, MustWrite, AtLayer
  <2>2. Target \in File
    BY <2>1, TargetType
  <2>3. /\ DOMAIN dir' = DOMAIN dir \cup {Target}
        /\ \A g \in DOMAIN dir : g # Target => dir'[g] = dir[g]
    BY <2>1, PutWrites
  <2>4. Expected' = Expected
    BY <2>1 DEF Expected, Copied, ConfigBlob, ManifestBlob, LayerBlob, LayoutFile, IndexFile
  <2> QED
    BY <1>a, <2>1, <2>2, <2>3, <2>4, FileTypes
<1>3. CASE WriteLayer
  <2>1. /\ Put(writing, Whole) /\ pc = "layers" /\ AtLayer /\ at' = at + 1 /\ writing \in File
        /\ writing = LayerBlob(image[attempt][at].digest) /\ ~image[attempt][at].empty
        /\ writing' = Nothing /\ UNCHANGED <<attempt, pc, image>>
    BY <1>3, OpenFileType DEF WriteLayer, AtLayer, Control
  <2>2. /\ DOMAIN dir' = DOMAIN dir \cup {writing} /\ dir'[writing] = Whole
        /\ \A g \in DOMAIN dir : g # writing => dir'[g] = dir[g]
    BY <2>1, PutWrites
  <2>3. Copied(at)' = Copied(at) \cup {image[attempt][at].digest}
    BY <2>1, CopiedOneMore
  <2>4. Expected' = Expected \cup {writing}
    BY <2>1, <2>3 DEF Expected, LayerBlob, LayoutFile
  <2> QED
    BY <1>b, <2>1, <2>2, <2>4
<1>4. CASE WriteRest
  <2>1. /\ Put(writing, Whole) /\ pc \in {"layout", "config", "manifest", "index"}
        /\ writing = Target /\ writing' = Nothing /\ pc' = After(pc) /\ writing \in File
        /\ UNCHANGED <<attempt, at, image>>
    BY <1>4, OpenFileType DEF WriteRest
  <2>2. /\ DOMAIN dir' = DOMAIN dir \cup {writing} /\ dir'[writing] = Whole
        /\ \A g \in DOMAIN dir : g # writing => dir'[g] = dir[g]
    BY <2>1, PutWrites
  <2>3. Copied(at)' = Copied(at)
    BY <2>1 DEF Copied
  <2>4. pc' = (CASE pc = "layout" -> "layers" [] pc = "config" -> "manifest"
                 [] pc = "manifest" -> "index" [] OTHER -> "archive")
    BY <2>1 DEF After
  <2>5. writing = (CASE pc = "layout" -> LayoutFile [] pc = "config" -> ConfigBlob(attempt)
                     [] pc = "manifest" -> ManifestBlob(attempt) [] OTHER -> IndexFile)
    BY <2>1 DEF Target
  <2>6. Expected' = Expected \cup {writing}
    BY <2>1, <2>3, <2>4, <2>5
       DEF Expected, LayoutFile, LayerBlob, ConfigBlob, ManifestBlob, IndexFile
  <2> QED
    BY <1>b, <2>1, <2>2, <2>6
<1>5. CASE SkipLayer
  <2>1. /\ pc = "layers" /\ AtLayer /\ at' = at + 1 /\ ~MustWrite /\ writing = Nothing
        /\ UNCHANGED <<attempt, pc, image, dir, writing>>
    BY <1>5 DEF SkipLayer, AtLayer
  <2>2. ASSUME ~image[attempt][at].empty
        PROVE  image[attempt][at].digest \in Copied(at)
    <3>1. LayerBlob(image[attempt][at].digest) \in Expected
      BY <1>a, <2>1, <2>2, TargetType DEF MustWrite
    <3>2. Expected = {LayoutFile} \cup {LayerBlob(d) : d \in Copied(at)}
      BY <2>1 DEF Expected
    <3>3. LayerBlob(image[attempt][at].digest) # LayoutFile
      BY DEF LayerBlob, LayoutFile
    <3>4. PICK d \in Copied(at) : LayerBlob(image[attempt][at].digest) = LayerBlob(d)
      BY <3>1, <3>2, <3>3
    <3> QED
      BY <3>4, FilesDiffer
  <2>3. Copied(at)' = Copied(at)
    BY <2>1, <2>2, CopiedOneMore
  <2>4. Expected' = Expected
    BY <2>1, <2>3 DEF Expected, LayerBlob, LayoutFile
  <2> QED
    BY <1>a, <2>1, <2>4
<1>6. CASE LayersCopied
  <2>1. /\ pc = "layers" /\ pc' = "config" /\ Copied(at)' = Copied(at) /\ writing = Nothing
        /\ UNCHANGED <<attempt, at, image, dir, writing>>
    BY <1>6 DEF LayersCopied, After, Copied, Control, AtLayer, Types, TypeOK
  <2>2. Expected' = Expected
    BY <2>1 DEF Expected, LayerBlob, LayoutFile
  <2> QED
    BY <1>a, <2>1, <2>2
<1>7. CASE CreateTar
  <2>1. /\ UNCHANGED <<attempt, at, image, dir, pc>> /\ writing = Nothing /\ writing' = TarFile
        /\ pc # "idle"
    BY <1>7 DEF CreateTar
  <2>2. Expected' = Expected
    BY <2>1 DEF Expected, Copied, ConfigBlob, ManifestBlob, LayerBlob, LayoutFile, IndexFile
  <2> QED
    BY <1>a, <2>1, <2>2
<1>8. CASE FinishTar \/ Fail \/ Crash
  BY <1>8 DEF FinishTar, Fail, Crash, BreakOff
<1>9. CASE UNCHANGED vars
  <2>1. UNCHANGED <<attempt, at, image, dir, pc, writing>>
    BY <1>9 DEF vars
  <2>2. Expected' = Expected
    BY <2>1 DEF Expected, Copied, ConfigBlob, ManifestBlob, LayerBlob, LayoutFile, IndexFile
  <2> QED
    BY <2>1, <2>2 DEF TemporaryIsFresh
<1> QED
  BY <1>1, <1>2, <1>3, <1>4, <1>5, <1>6, <1>7, <1>8, <1>9 DEF Next, Export

LEMMA ArchiveNext ==
    ASSUME Types, Control, Progress, TemporaryIsFresh, ArchiveIsWhole, [Next]_vars
    PROVE  ArchiveIsWhole'
<1>0. format' = format
  BY DEF Next, vars, Export, Start, OpenFile, WriteLayer, SkipLayer, LayersCopied, WriteRest,
         CreateTar, FinishTar, Fail, Crash
<1> SUFFICES ASSUME format = "tar" PROVE ArchiveIsWhole'
  BY <1>0 DEF ArchiveIsWhole
<1> DEFINE Needs(a) == {LayoutFile, IndexFile, ConfigBlob(a), ManifestBlob(a)}
                            \cup {LayerBlob(d) : d \in layersOf(a)}
<1>1. CASE FinishTar
  <2>1. /\ tar' = [of |-> attempt, files |-> dir] /\ pc = "archive" /\ writing = TarFile
        /\ attempt' = attempt /\ image' = image
    BY <1>1 DEF FinishTar
  <2>2. tar' \in Archive
    <3>1. Types'
      BY TypesNext
    <3>2. dir \in UNION {[fs -> {Torn, Whole}] : fs \in SUBSET File} /\ attempt \in Attempt
      BY <2>1 DEF Types, TypeOK
    <3> QED
      BY <2>1, <3>2 DEF Archive
  <2>3. tar' \notin {Nothing, Torn} /\ tar'.of = attempt'
    BY <2>1, <2>2, MarksAreNoFiles
  <2>4. Copied(at) = layersOf(attempt)
    BY <2>1, AllCopied DEF Types, Progress
  <2>5. DOMAIN dir = Needs(attempt)
    BY <2>1, <2>4 DEF TemporaryIsFresh, Expected
  <2>6. \A f \in DOMAIN dir : dir[f] = Whole
    BY <2>1, FileTypes DEF TemporaryIsFresh, Types, TypeOK
  <2>7. Needs(attempt)' = Needs(attempt)
    BY <2>1 DEF layersOf, LayoutFile, IndexFile, ConfigBlob, ManifestBlob, LayerBlob
  <2>8. tar'.of = attempt' /\ tar'.files = dir
    BY <2>1
  <2> HIDE DEF Needs
  <2>9. DOMAIN tar'.files = Needs(tar.of)' /\ \A f \in Needs(tar.of)' : tar'.files[f] = Whole
    <3>1. Needs(tar.of)' = Needs(attempt)'
      BY <2>8 DEF Needs
    <3> QED
      BY <2>5, <2>6, <2>7, <2>8, <3>1
  <2> QED
    BY <2>3, <2>9 DEF ArchiveIsWhole, Needs
<1>2. CASE ~FinishTar
  <2>1. /\ tar' \in {tar, Torn}
        /\ returned' = "ok" => returned = "ok" /\ attempt' = attempt /\ tar' = tar
    BY <1>2 DEF Next, vars, Export, Start, OpenFile, WriteLayer, SkipLayer, LayersCopied,
                WriteRest, CreateTar, Fail, Crash, BreakOff, After, Control
  <2>2. ASSUME tar' = tar, tar \notin {Nothing, Torn}
        PROVE  Needs(tar.of)' = Needs(tar.of)
    <3>1. tar.of \in 1..attempt
      BY <2>2 DEF Types, TypeOK, Attempt
    <3>2. layersOf(tar.of)' = layersOf(tar.of)
      BY <2>2, <3>1, ImagesStay DEF layersOf
    <3> QED
      BY <2>2, <3>2 DEF LayoutFile, IndexFile, ConfigBlob, ManifestBlob, LayerBlob
  <2>3. ASSUME tar \notin {Nothing, Torn}
        PROVE  DOMAIN tar.files = Needs(tar.of) /\ \A f \in Needs(tar.of) : tar.files[f] = Whole
    BY <2>3 DEF ArchiveIsWhole
  <2> HIDE DEF Needs
  <2>4. ASSUME tar' \notin {Nothing, Torn}
        PROVE  DOMAIN tar'.files = Needs(tar.of)' /\ \A f \in Needs(tar.of)' : tar'.files[f] = Whole
    BY <2>1, <2>2, <2>3, <2>4
  <2>5. returned' = "ok" => tar' \notin {Nothing, Torn} /\ tar'.of = attempt'
    BY <2>1 DEF ArchiveIsWhole
  <2> QED
    BY <2>4, <2>5 DEF ArchiveIsWhole, Needs
<1> QED
  BY <1>1, <1>2

-----------------------------------------------------------------------------
(* The theorems.                                                           *)

LEMMA InvHolds == Spec => []Inv
<1>1. Init => Inv
  <2> SUFFICES ASSUME Init PROVE Inv
    OBVIOUS
  <2>1. Types
    BY InitTypes
  <2>2. Control /\ IndexReachesEverything /\ BlobsAccounted /\ TemporaryIsFresh /\ ArchiveIsWhole
    BY DEF Init, Control, IndexReachesEverything, BlobsAccounted, TemporaryIsFresh,
           ArchiveIsWhole
  <2>3. Progress
    BY DEF Init, Progress
  <2> QED
    BY <2>1, <2>2, <2>3 DEF Inv
<1>2. Inv /\ [Next]_vars => Inv'
  BY TypesNext, ControlNext, ProgressNext, IndexNext, BlobsNext, TemporaryNext, ArchiveNext
     DEF Inv
<1> QED
  BY <1>1, <1>2, PTL DEF Spec

\* The exports' variables have their types, in every run of any length.
THEOREM ExportTypes == Spec => []TypeOK
<1>1. Inv => TypeOK
  BY DEF Inv, Types
<1> QED
  BY <1>1, InvHolds, PTL

\* However many exports to a directory fail, are killed or succeed: what
\* index.json names is there, its manifest and configuration are whole, and a
\* nil is of the image it names.
THEOREM IndexIsComplete == Spec => []IndexReachesEverything
<1>1. Inv => IndexReachesEverything
  BY DEF Inv
<1> QED
  BY <1>1, InvHolds, PTL

\* What the index names is damaged by nothing but a copy of one of its layers
\* that broke off in this directory.
THEOREM OnlyBrokenCopiesDamage == Spec => []PublishedWholeUnlessBroken
<1>1. Inv => PublishedWholeUnlessBroken
  <2> SUFFICES ASSUME Inv, format = "oci", index # 0, NEW d \in layersOf(index)
               PROVE  dir[LayerBlob(d)] = Whole \/ d \in broken
    BY DEF PublishedWholeUnlessBroken
  <2>1. index \in 1..attempt
    BY DEF Inv, Types, TypeOK
  <2>2. d \in Digest
    BY <2>1, LayerTypes DEF Inv
  <2>3. LayerBlob(d) \in DOMAIN dir /\ writing # LayerBlob(d)
    BY DEF Inv, IndexReachesEverything, BlobsAccounted
  <2> QED
    BY <2>2, <2>3 DEF Inv, BlobsAccounted
<1> QED
  BY <1>1, InvHolds, PTL

\* No step of any export truncates or removes a whole blob of the directory.
THEOREM NoBlobIsTruncated == Spec => WholeBlobsStayWhole
<1>1. Inv /\ [Next]_vars =>
        [format = "oci" => \A f \in DOMAIN dir \cap Blob :
            dir[f] = Whole => f \in DOMAIN dir' /\ dir'[f] = Whole]_vars
  BY WholeStays DEF Inv
<1> QED
  BY <1>1, InvHolds, PTL DEF Spec, WholeBlobsStayWhole

\* An archive is one whole layout, and after a nil that of the last attempt,
\* whatever earlier attempts left behind.
THEOREM ArchivesAreWhole == Spec => []ArchiveIsWhole
<1>1. Inv => ArchiveIsWhole
  BY DEF Inv
<1> QED
  BY <1>1, InvHolds, PTL
=============================================================================
