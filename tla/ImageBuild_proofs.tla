------------------------- MODULE ImageBuild_proofs -------------------------
(***************************************************************************)
(* The invariants of ImageBuild and its refinement of BuildLog, for every  *)
(* set of Dockerfiles, file names, contents, build context and commands.   *)
(*                                                                         *)
(* IInv is the inductive invariant.  It adds to the invariants of the runs *)
(* what they need to be preserved: where in a step the Executor is when it *)
(* returns an error (Control), how far the history has come (Recorded) and *)
(* that a blob's name tells its content (NamesTellContent).                *)
(***************************************************************************)
EXTENDS ImageBuild, RootFS_proofs, FiniteSetTheorems

\* an instruction is at work in its directory
Working == phase \in {"act", "commit", "snapshot", "record", "cleanup"}

\* What the phase says of the instruction at hand and of the result.
Control ==
    /\ Working => ip \in DOMAIN program /\ upper \in DOMAIN disk
    /\ phase \in {"step", "act", "commit", "snapshot", "record"} => result = "none"
    /\ phase = "cleanup" => result # "ok"
    /\ phase \in {"close", "done"} => result # "none"
    /\ phase = "record" => layer \in Layer
    /\ image # NoImage => result = "ok"

-----------------------------------------------------------------------------
(* Lemmas on the helpers.                                                  *)

\* What the parser hands over: a sequence of instructions.
LEMMA ProgramFacts ==
    ASSUME NEW p \in Programs
    PROVE  /\ Len(p) \in Nat
           /\ DOMAIN p = 1..Len(p)
           /\ \A i \in DOMAIN p : IsInstruction(p[i])
BY BuildConstants

\* The instruction at hand is one.
LEMMA InstFacts ==
    ASSUME TypeOK, ip <= Len(program)
    PROVE  /\ ip \in DOMAIN program /\ ip \in Nat
           /\ IsInstruction(inst)
<1>1. program \in Programs /\ ip \in 1..(Len(program) + 1)
  BY DEF TypeOK
<1> QED
  BY <1>1, ProgramFacts DEF inst

\* Updating a partial function with another one.
LEMMA UpdateType ==
    ASSUME NEW f, NEW g, NEW R,
           f \in [DOMAIN f -> R], g \in [DOMAIN g -> R]
    PROVE  /\ DOMAIN Update(f, g) = DOMAIN f \cup DOMAIN g
           /\ Update(f, g) \in [DOMAIN f \cup DOMAIN g -> R]
BY DEF Update

\* ENV, ARG, WORKDIR, CMD ... keep the environment and the configuration
\* well-formed assignments; so does clearing a setting.
LEMMA AssignmentUpdate ==
    ASSUME NEW f, NEW g, IsAssignment(f), IsAssignment(g)
    PROVE  /\ IsAssignment(Update(f, g))
           /\ \A S \in SUBSET (DOMAIN f \cup DOMAIN g) : IsAssignment(Restrict(Update(f, g), S))
<1>1. Update(f, g) \in [DOMAIN f \cup DOMAIN g -> Path]
  BY UpdateType DEF IsAssignment
<1> QED
  BY <1>1 DEF IsAssignment, Restrict

\* An argument is a path once its variable has been resolved.
LEMMA ResolveType ==
    ASSUME NEW i, IsInstruction(i), IsAssignment(env)
    PROVE  Resolve(i) \in Path
<1>1. <<>> \in Path
  BY DEF Path
<1> QED
  BY <1>1 DEF Resolve, IsInstruction, IsAssignment

\* The tar of a layer holds contents of files.
LEMMA TarType ==
    ASSUME NEW tree \in Tree
    PROVE  TarOf(tree) \in Content
BY DEF TarOf, Tree, Content

\* The chain ID names one diff ID per layer.
LEMMA ChainType ==
    ASSUME NEW stack \in Seq(Layer)
    PROVE  /\ ChainID(stack) \in Seq(Content)
           /\ Len(ChainID(stack)) = Len(stack)
           /\ \A i \in 1..Len(stack) : ChainID(stack)[i] = stack[i].diffID
<1>1. Len(stack) \in Nat /\ DOMAIN stack = 1..Len(stack)
  BY LenProperties
<1>2. ChainID(stack) \in [1..Len(stack) -> Content]
  <2>1. \A i \in 1..Len(stack) : stack[i] \in Layer
    BY ElementOfSeq
  <2> QED
    BY <1>1, <2>1 DEF ChainID, Layer
<1>3. ChainID(stack) \in Seq(Content)
  BY <1>1, <1>2, SeqDef
<1> QED
  BY <1>1, <1>3, LenProperties DEF ChainID

\* A layer added to the Store adds its diff ID to the chain.
LEMMA ChainAppend ==
    ASSUME NEW stack \in Seq(Layer), NEW l \in Layer
    PROVE  ChainID(Append(stack, l)) = Append(ChainID(stack), l.diffID)
<1>1. l.diffID \in Content
  BY DEF Layer
<1>2. Append(stack, l) \in Seq(Layer) /\ Len(stack) \in Nat
  BY AppendProperties, LenProperties
<1>3. Append(ChainID(stack), l.diffID) \in Seq(Content)
  BY <1>1, ChainType, AppendProperties
<1>4. Len(ChainID(Append(stack, l))) = Len(Append(ChainID(stack), l.diffID))
  <2>1. Len(ChainID(stack)) = Len(stack) /\ ChainID(stack) \in Seq(Content)
    BY ChainType
  <2>2. Len(ChainID(Append(stack, l))) = Len(stack) + 1
    BY <1>2, ChainType, AppendProperties
  <2>3. Len(Append(ChainID(stack), l.diffID)) = Len(ChainID(stack)) + 1
    BY <1>1, <2>1, AppendProperties
  <2> QED
    BY <2>1, <2>2, <2>3
<1>5. ASSUME NEW i \in 1..Len(ChainID(Append(stack, l)))
      PROVE  ChainID(Append(stack, l))[i] = Append(ChainID(stack), l.diffID)[i]
  <2>1. i \in 1..(Len(stack) + 1)
    BY <1>2, ChainType, AppendProperties
  <2>2. ChainID(Append(stack, l))[i] = Append(stack, l)[i].diffID
    BY <1>2, <2>1, ChainType, AppendProperties
  <2> QED
    BY <1>1, <1>2, <2>1, <2>2, ChainType, AppendProperties
<1> QED
  BY <1>2, <1>3, <1>4, <1>5, ChainType, SeqEqual

\* What a COPY writes, whole or in part, and what a RUN may write.
LEMMA EffectType ==
    /\ NoEffect \in Effect
    /\ RunEffects \subseteq Effect
    /\ \A src, dst : CopyTo(src, dst) \in Effect
    /\ \A whole \in Effect, done \in SUBSET Name :
          [n \in Name |-> IF n \in done THEN whole[n] ELSE Keep] \in Effect
<1>1. ASSUME NEW src, NEW dst PROVE CopyTo(src, dst) \in Effect
  <2> DEFINE target(f) == dst \o SubSeq(f, Len(src) + 1, Len(f))
             hit(n) == \E f \in Matches(src) : n = target(f)
             pick(n) == CHOOSE f \in Matches(src) : n = target(f)
  <2>1. \A n \in Name : hit(n) => pick(n) \in Matches(src)
    OBVIOUS
  <2>2. \A f \in Matches(src) : Context[f] \in Val
    BY BuildConstants DEF Matches
  <2>3. CopyTo(src, dst) = [n \in Name |-> IF hit(n) THEN Context[pick(n)] ELSE Keep]
    BY DEF CopyTo
  <2> HIDE DEF hit, pick
  <2> QED
    BY <2>1, <2>2, <2>3 DEF Effect
<1> QED
  BY <1>1, BuildConstants DEF Effect, NoEffect

\* Manager.Prepare numbers the only mount of a build 0.
LEMMA FirstMount ==
    ASSUME DOMAIN mounts = {}
    PROVE  NextId = 0
BY FS_EmptySet DEF NextId

-----------------------------------------------------------------------------
(* Types and control.                                                      *)

TypeInv == TypeOK /\ Control /\ OneMountAtATime

\* The initial state of the Manager, the Executor and the Store.
LEMMA InitTypes == Init => TypeInv
<1> SUFFICES ASSUME Init PROVE TypeInv
  OBVIOUS
<1>1. RootFSTypeOK
  BY DEF Init, RootFSTypeOK
<1>2. <<>> \in Path /\ <<>> \in Seq(Dir) /\ <<>> \in Seq(Layer)
      /\ <<>> \in Seq(Content) /\ <<>> \in Seq(Entry)
  BY DEF Path
<1>3. 1 \in 1..(Len(program) + 1)
  BY ProgramFacts DEF Init
<1>4. TypeOK
  BY <1>1, <1>2, <1>3, EffectType DEF Init, TypeOK, IsAssignment
<1>5. Control
  BY DEF Init, Control, Working
<1>6. OneMountAtATime
  BY DEF Init, OneMountAtATime
<1> QED
  BY <1>4, <1>5, <1>6 DEF TypeInv

\* The history takes one entry for the instruction at hand.
LEMMA HistoryType ==
    ASSUME TypeOK, ip <= Len(program), NEW empty \in BOOLEAN, AddHistory(empty)
    PROVE  history' \in Seq(Entry)
<1>1. [raw |-> inst.raw, empty |-> empty] \in Entry
  BY InstFacts DEF Entry, IsInstruction
<1> QED
  BY <1>1, AppendProperties DEF AddHistory, TypeOK

\* A layer enters the Store and the ConfigBuilder.
LEMMA LayerType ==
    ASSUME TypeOK, ip <= Len(program), NEW l \in Layer, AddLayer(l)
    PROVE  layers' \in Seq(Layer) /\ diffIDs' \in Seq(Content) /\ history' \in Seq(Entry)
<1>1. l.diffID \in Content
  BY DEF Layer
<1> QED
  BY <1>1, HistoryType, AppendProperties DEF AddLayer, TypeOK

\* The handlers that touch no file: what each does to the Executor and the
\* configuration, and what MetadataStep does for all of them.
LEMMA MetadataTypes ==
    ASSUME TypeInv, Metadata
    PROVE  TypeInv'
<1>1. /\ MetadataStep /\ Missed
      /\ phase = "step" /\ ip <= Len(program)
  BY DEF Metadata, From, Set, Entrypoint, Env, Arg, Workdir, WorkdirBare, Dispatch, Missed, Fetching
<1>2. /\ TypeOK /\ IsAssignment(env) /\ IsAssignment(config)
      /\ workDir \in Path /\ lowerDirs \in Seq(Dir)
  BY DEF TypeInv, TypeOK
<1>3. ip' \in 1..(Len(program) + 1) /\ history' \in Seq(Entry)
  <2>1. Len(program) \in Nat
    BY <1>2, ProgramFacts DEF TypeOK
  <2>2. ip' \in 1..(Len(program) + 1)
    BY <1>1, <1>2, <2>1 DEF MetadataStep, Advance, TypeOK
  <2>3. history' \in Seq(Entry)
    BY <1>1, <1>2, HistoryType DEF MetadataStep
  <2> QED
    BY <2>2, <2>3
<1>4. IsAssignment(inst.sets) /\ IsAssignment(inst.vars) /\ Resolve(inst) \in Path /\ inst.arg \in Path
  BY <1>1, <1>2, InstFacts, ResolveType DEF IsInstruction
<1>5. /\ workDir' \in Path /\ lowerDirs' \in Seq(Dir)
      /\ IsAssignment(env)' /\ IsAssignment(config)'
  <2>1. CASE From
    BY <2>1, <1>2 DEF From, Path, IsAssignment
  <2>2. CASE Set
    BY <2>2, <1>2, <1>4, AssignmentUpdate DEF Set, executor, IsAssignment
  <2>3. CASE Entrypoint
    <3>1. (DOMAIN config \cup DOMAIN inst.sets) \ {"Cmd"}
             \in SUBSET (DOMAIN config \cup DOMAIN inst.sets)
      OBVIOUS
    <3>2. IsAssignment(config')
      BY <2>3, <3>1, <1>2, <1>4, AssignmentUpdate DEF Entrypoint
    <3> QED
      BY <2>3, <3>2, <1>2 DEF Entrypoint, executor, IsAssignment
  <2>4. CASE Env
    <3>1. IsAssignment(config') /\ IsAssignment(env')
      BY <2>4, <1>2, <1>4, AssignmentUpdate DEF Env
    <3> QED
      BY <2>4, <3>1, <1>2 DEF Env, IsAssignment
  <2>5. CASE Arg
    <3>1. IsAssignment(env')
      BY <2>5, <1>2, <1>4, AssignmentUpdate DEF Arg
    <3> QED
      BY <2>5, <3>1, <1>2 DEF Arg, IsAssignment
  <2>6. CASE Workdir
    <3>1. workDir \o Resolve(inst) \in Path
      BY <1>2, <1>4, ConcatProperties DEF Path
    <3>2. workDir' \in Path
      <4>1. CASE IsAbs(Resolve(inst))
        BY <2>6, <4>1, <1>4, HeadTailProperties DEF Workdir, IsAbs, Path
      <4>2. CASE ~ IsAbs(Resolve(inst))
        BY <2>6, <4>2, <3>1 DEF Workdir
      <4> QED
        BY <4>1, <4>2
    <3>3. IsAssignment([s \in {"WorkingDir"} |-> workDir'])
      BY <3>2, BuildConstants DEF IsAssignment
    <3>4. IsAssignment(config')
      BY <2>6, <3>3, <1>2, AssignmentUpdate DEF Workdir
    <3> QED
      BY <2>6, <3>2, <3>4, <1>2 DEF Workdir, IsAssignment
  <2>7. CASE WorkdirBare
    BY <2>7, <1>2 DEF WorkdirBare, executor, IsAssignment
  <2> QED
    BY <2>1, <2>2, <2>3, <2>4, <2>5, <2>6, <2>7 DEF Metadata
<1>6. UNCHANGED <<rootfsVars, control, phase, result, step, store, diffIDs, blobs, image>>
  BY <1>1 DEF MetadataStep
<1>7. TypeOK'
  BY <1>2, <1>3, <1>5, <1>6
     DEF TypeOK, RootFSTypeOK, rootfsVars, control, step, store
<1>8. Control' /\ OneMountAtATime'
  BY <1>1, <1>6 DEF TypeInv, Control, Working, OneMountAtATime, rootfsVars, control, step,
                    upper, merged
<1> QED
  BY <1>7, <1>8 DEF TypeInv

\* A mount of a build is the only one, numbered 0, in layer-0.
LEMMA PrepareTypes ==
    ASSUME TypeInv, Prepare \/ PrepareFails
    PROVE  TypeInv'
<1>1. /\ Missed /\ phase = "step" /\ ip <= Len(program)
      /\ TypeOK /\ RootFSTypeOK /\ lowerDirs \in Seq(Dir)
  BY DEF Prepare, PrepareFails, Dispatch, Missed, Fetching, TypeInv, TypeOK
<1>2. DOMAIN mounts = {} /\ slot = 0
  BY <1>1 DEF TypeInv, OneMountAtATime
<1>3. NextId = 0 /\ 0 \in Nat
  BY <1>2, FirstMount
<1>4. RootFSTypeOK'
  BY <1>1, <1>3, PrepareType DEF Prepare, PrepareFails
<1>5. ip \in DOMAIN program
  BY <1>1, InstFacts
<1>6. CASE Prepare
  <2>1. slot' = 0 /\ phase' = "act"
    BY <1>3, <1>6 DEF Prepare
  <2>2. /\ UNCHANGED <<control, ip, result, executor, effect, layer, store, builder, blobs, image>>
    BY <1>6 DEF Prepare
  <2>3. TypeOK'
    BY <1>1, <1>4, <2>1, <2>2 DEF TypeOK, control, executor, store, builder, IsAssignment
  <2>4. DOMAIN mounts' = {Merged(0)}
    BY <1>2, <1>3, <1>6 DEF Prepare, PrepareOverlay, PrepareFallback, AddMount
  <2>5. Upper(0) \in DOMAIN disk'
    BY <1>3, <1>6 DEF Prepare, PrepareOverlay, PrepareFallback, Mkdirs, CopyLowers
  <2>6. Control'
    BY <1>1, <1>5, <2>1, <2>2, <2>5 DEF TypeInv, Control, Working, control, upper
  <2> QED
    BY <2>1, <2>3, <2>4, <2>6 DEF TypeInv, OneMountAtATime, merged
<1>7. CASE PrepareFails
  <2>1. /\ phase' = "close" /\ result' = "error" /\ UNCHANGED mounts
        /\ UNCHANGED <<control, ip, executor, step, store, builder, blobs, image>>
    BY <1>7 DEF PrepareFails, Fail, PrepareError
  <2>2. TypeOK'
    BY <1>1, <1>4, <2>1 DEF TypeOK, control, executor, step, store, builder, IsAssignment
  <2> QED
    BY <1>1, <2>1, <2>2
       DEF TypeInv, Control, Working, OneMountAtATime, control, step
<1> QED
  BY <1>6, <1>7

\* What RUN, COPY and ADD write goes below the merged directory.
LEMMA ActTypes ==
    ASSUME TypeInv, Run \/ Copy \/ CopyFails
    PROVE  TypeInv'
<1>1. phase = "act" /\ TypeOK /\ RootFSTypeOK /\ slot = 0 /\ DOMAIN mounts = {merged}
  BY DEF Run, Copy, CopyFails, TypeInv, TypeOK, OneMountAtATime
<1>2. PICK written \in Effect, ok \in BOOLEAN : Act(written, ok)
  <2>1. CASE Run
    BY <2>1, EffectType DEF Run
  <2>2. CASE Copy
    BY <2>2, EffectType DEF Copy
  <2>3. CASE CopyFails
    <3> DEFINE whole == CopyTo(Relative(Resolve(inst)), workDir \o Relative(inst.dst))
    <3>1. whole \in Effect
      BY EffectType
    <3> HIDE DEF whole
    <3>2. PICK done \in SUBSET {n \in Name : whole[n] # Keep} :
             Act([n \in Name |-> IF n \in done THEN whole[n] ELSE Keep], FALSE)
      BY <2>3 DEF CopyFails, whole
    <3>3. done \in SUBSET Name
      BY <3>2
    <3> QED
      BY <3>1, <3>2, <3>3, EffectType
  <2> QED
    BY <2>1, <2>2, <2>3
<1>3. /\ effect' = written /\ WriteMerged(merged, written)
      /\ UNCHANGED <<mounts, control, ip, executor, slot, layer, store, builder, blobs, image>>
      /\ \/ phase' = "commit" /\ UNCHANGED result
         \/ phase' = "cleanup" /\ result' = "error"
  BY <1>2 DEF Act, FailMounted
<1>4. RootFSTypeOK' /\ DOMAIN disk' = DOMAIN disk
  <2>1. merged \in DOMAIN mounts /\ UNCHANGED mounts
    BY <1>1, <1>3
  <2>2. DOMAIN disk' = DOMAIN disk
    BY <1>3 DEF WriteMerged
  <2> QED
    BY <1>1, <1>3, <2>1, <2>2, WriteType
<1>5. TypeOK'
  BY <1>1, <1>3, <1>4 DEF TypeOK, control, executor, store, builder, IsAssignment
<1>6. Control' /\ OneMountAtATime'
  BY <1>1, <1>3, <1>4 DEF TypeInv, Control, Working, OneMountAtATime, control, upper, merged
<1> QED
  BY <1>5, <1>6 DEF TypeInv

\* The diff of the upper directory becomes a blob and a layer.
LEMMA SnapshotTypes ==
    ASSUME TypeInv, Commit \/ Snapshot \/ SnapshotFails
    PROVE  TypeInv'
<1>1. TypeOK /\ RootFSTypeOK /\ UNCHANGED <<rootfsVars, slot, effect>>
      /\ UNCHANGED <<control, ip, executor, store, builder, image>>
      /\ phase \in {"commit", "snapshot"}
  BY DEF Commit, Snapshot, SnapshotFails, TypeInv, TypeOK, step
<1>2. OneMountAtATime' /\ RootFSTypeOK'
  <2>1. Working' = Working
    BY DEF Commit, Snapshot, SnapshotFails, Working, FailMounted
  <2> QED
    BY <1>1, <2>1 DEF TypeInv, OneMountAtATime, Working, merged, rootfsVars, RootFSTypeOK
<1>3. CASE Commit \/ SnapshotFails
  <2>1. /\ UNCHANGED <<layer, blobs>>
        /\ \/ phase' = "snapshot" /\ result' = result
           \/ phase' = "cleanup" /\ result' = "error"
    BY <1>3 DEF Commit, SnapshotFails, FailMounted, step
  <2>2. TypeOK'
    BY <1>1, <1>2, <2>1 DEF TypeOK, control, executor, store, builder, IsAssignment
  <2>3. Control'
    BY <1>1, <2>1 DEF TypeInv, Control, Working, control, upper, rootfsVars
  <2> QED
    BY <1>2, <2>2, <2>3 DEF TypeInv
<1>4. CASE Snapshot
  <2> DEFINE tar == TarOf(disk[upper])
  <2>1. PICK renamed \in BOOLEAN :
          /\ blobs' = Update(blobs, [b \in {[digest |-> tar, tmp |-> IF renamed THEN 0 ELSE ip]} |-> tar])
          /\ layer' = [diffID |-> tar, blob |-> [digest |-> tar, tmp |-> IF renamed THEN 0 ELSE ip]]
    BY <1>4 DEF Snapshot
  <2>2. tar \in Content
    <3>1. upper \in DOMAIN disk
      BY <1>1 DEF TypeInv, Control, Working
    <3>2. disk[upper] \in Tree
      BY <1>1, <3>1 DEF RootFSTypeOK
    <3> QED
      BY <3>2, TarType
  <2> HIDE DEF tar
  <2> DEFINE name == [digest |-> tar, tmp |-> IF renamed THEN 0 ELSE ip]
  <2>3. name \in BlobName
    <3>1. ip \in Nat
      BY <1>1 DEF TypeOK
    <3> QED
      BY <2>2, <3>1 DEF BlobName
  <2>4. layer' \in Layer
    BY <2>1, <2>2, <2>3 DEF Layer
  <2>5. DOMAIN blobs' \subseteq BlobName /\ blobs' \in [DOMAIN blobs' -> Content]
    <3>1. [b \in {name} |-> tar] \in [{name} -> Content]
      BY <2>2
    <3>2. blobs \in [DOMAIN blobs -> Content] /\ DOMAIN blobs \subseteq BlobName
      BY <1>1 DEF TypeOK
    <3>3. blobs' = Update(blobs, [b \in {name} |-> tar])
      BY <2>1
    <3> HIDE DEF name
    <3> QED
      BY <2>3, <3>1, <3>2, <3>3, UpdateType
  <2>6. phase' = "record" /\ UNCHANGED result
    BY <1>4 DEF Snapshot
  <2>7. TypeOK'
    BY <1>1, <1>2, <2>4, <2>5, <2>6 DEF TypeOK, control, executor, store, builder, IsAssignment
  <2>8. Control'
    BY <1>1, <2>4, <2>6 DEF TypeInv, Control, Working, control, upper, rootfsVars
  <2> QED
    BY <1>2, <2>7, <2>8 DEF TypeInv
<1> QED
  BY <1>3, <1>4

\* The layer enters the Store, the ConfigBuilder and the cache.
LEMMA RecordTypes ==
    ASSUME TypeInv, Record
    PROVE  TypeInv'
<1>1. /\ phase = "record" /\ phase' = "cleanup" /\ TypeOK
      /\ UNCHANGED <<rootfsVars, control, ip, result, workDir, env, step, config, blobs, image>>
      /\ AddLayer(layer)
  BY DEF Record, TypeInv
<1>2. layer \in Layer /\ ip \in DOMAIN program /\ result = "none"
  BY <1>1 DEF TypeInv, Control, Working
<1>3. Len(program) \in Nat /\ ip <= Len(program) /\ IsInstruction(inst)
  BY <1>1, <1>2, ProgramFacts DEF TypeOK, inst
<1>4. layers' \in Seq(Layer) /\ diffIDs' \in Seq(Content) /\ history' \in Seq(Entry)
  BY <1>1, <1>2, <1>3, LayerType
<1>5. DOMAIN cache' \subseteq Key /\ cache' \in [DOMAIN cache' -> Layer]
  <2> DEFINE key == CacheKey(layers', inst.raw)
  <2>1. key \in Key
    BY <1>3, <1>4, ChainType DEF CacheKey, Key, IsInstruction
  <2>2. cache' = Update(cache, [k \in {key} |-> layer])
    BY DEF Record
  <2> HIDE DEF key
  <2>3. [k \in {key} |-> layer] \in [{key} -> Layer]
    BY <1>2
  <2> QED
    BY <1>1, <2>1, <2>2, <2>3, UpdateType DEF TypeOK
<1>6. lowerDirs' \in Seq(Dir)
  <2>1. upper \in Dir
    BY <1>1, DirTypes DEF upper, TypeOK
  <2> QED
    BY <1>1, <2>1, AppendProperties DEF Record, TypeOK
<1>7. TypeOK'
  BY <1>1, <1>4, <1>5, <1>6 DEF TypeOK, RootFSTypeOK, rootfsVars, control, step, IsAssignment
<1>8. Control' /\ OneMountAtATime'
  BY <1>1, <1>2 DEF TypeInv, Control, Working, OneMountAtATime, control, step, upper, merged,
                    rootfsVars
<1> QED
  BY <1>7, <1>8 DEF TypeInv

\* The deferred Cleanup gives the number and the directory back.
LEMMA CleanupTypes ==
    ASSUME TypeInv, Cleanup
    PROVE  TypeInv'
<1>1. /\ phase = "cleanup" /\ TypeOK /\ RootFSTypeOK
      /\ effect' = NoEffect /\ layer' = NoLayer
      /\ UNCHANGED <<control, result, executor, slot, store, builder, blobs, image>>
      /\ \/ result = "error" /\ phase' = "close" /\ UNCHANGED ip
         \/ result # "error" /\ phase' = "step" /\ ip' = ip + 1
  BY DEF Cleanup, TypeInv, TypeOK, Advance
<1>2. RootFSTypeOK'
  BY <1>1, CleanupType DEF Cleanup
<1>3. DOMAIN mounts' = {}
  BY <1>1 DEF Cleanup, ForgetMount, Restrict, TypeInv, OneMountAtATime
<1>4. ip' \in 1..(Len(program) + 1)
  <2>1. ip \in DOMAIN program
    BY <1>1 DEF TypeInv, Control, Working
  <2>2. Len(program) \in Nat /\ DOMAIN program = 1..Len(program)
    BY <1>1, ProgramFacts DEF TypeOK
  <2> QED
    BY <1>1, <2>1, <2>2
<1>5. TypeOK'
  BY <1>1, <1>2, <1>4, EffectType DEF TypeOK, control, executor, store, builder, IsAssignment
<1>6. Control'
  BY <1>1 DEF TypeInv, TypeOK, Control, Working, control
<1>7. OneMountAtATime'
  BY <1>1, <1>3 DEF TypeInv, OneMountAtATime
<1> QED
  BY <1>5, <1>6, <1>7 DEF TypeInv

\* A hit adds a layer of the cache.
LEMMA HitTypes ==
    ASSUME TypeInv, CacheHit
    PROVE  TypeInv'
<1> DEFINE hit == cache[CacheKey(layers, inst.raw)]
<1>1. /\ phase = "step" /\ ip <= Len(program) /\ TypeOK /\ ip' = ip + 1
      /\ CacheKey(layers, inst.raw) \in DOMAIN cache /\ AddLayer(hit)
      /\ UNCHANGED <<rootfsVars, control, phase, result, executor, step, cache, config, blobs, image>>
  BY DEF CacheHit, Fetching, Advance, TypeInv
<1>2. hit \in Layer
  BY <1>1 DEF TypeOK
<1> HIDE DEF hit
<1>3. layers' \in Seq(Layer) /\ diffIDs' \in Seq(Content) /\ history' \in Seq(Entry)
  BY <1>1, <1>2, LayerType
<1>4. ip' \in 1..(Len(program) + 1)
  BY <1>1, InstFacts, ProgramFacts DEF TypeOK
<1>5. TypeOK'
  BY <1>1, <1>3, <1>4
     DEF TypeOK, RootFSTypeOK, rootfsVars, control, executor, step, IsAssignment
<1> QED
  BY <1>1, <1>5 DEF TypeInv, Control, Working, OneMountAtATime, control, step, rootfsVars,
                    merged, upper

\* The other steps of the Executor and of runBuild change hardly anything.
LEMMA EndTypes ==
    ASSUME TypeInv,
           StopCancelled \/ Unsupported \/ Export \/ ExportFails \/ Close \/ Interrupt
    PROVE  TypeInv'
<1>1. TypeOK /\ RootFSTypeOK /\ Control /\ OneMountAtATime
  BY DEF TypeInv, TypeOK
<1>2. /\ UNCHANGED <<program, ip, executor, step, store, builder>>
      /\ result' \in {"none", "ok", "error"}
      /\ phase' \in {"step", "act", "commit", "snapshot", "record", "cleanup", "close", "done"}
      /\ cancelled' \in BOOLEAN
      /\ \/ UNCHANGED <<rootfsVars, blobs>>
         \/ /\ mounts' = Restrict(mounts, {})
            /\ \E stays \in SUBSET DOMAIN disk : disk' = Restrict(disk, stays)
            /\ \E stays \in SUBSET DOMAIN blobs : blobs' = Restrict(blobs, stays)
  BY <1>1 DEF StopCancelled, Unsupported, Export, ExportFails, Close, Interrupt, Fail, TypeOK,
              control
<1>3. RootFSTypeOK' /\ DOMAIN blobs' \subseteq BlobName /\ blobs' \in [DOMAIN blobs' -> Content]
  BY <1>1, <1>2 DEF TypeOK, RootFSTypeOK, rootfsVars, Restrict
<1>4. TypeOK'
  BY <1>1, <1>2, <1>3 DEF TypeOK, executor, step, store, builder, IsAssignment
<1>5. Control' /\ OneMountAtATime'
  <2>1. CASE StopCancelled \/ Unsupported \/ ExportFails
    BY <2>1, <1>1 DEF StopCancelled, Unsupported, ExportFails, Fail, Fetching, Missed,
         Exportable, Control, Working, OneMountAtATime, control, step, rootfsVars, merged, upper
  <2>2. CASE Export
    BY <2>2, <1>1 DEF Export, Exportable, Control, Working, OneMountAtATime, control, step,
         rootfsVars, merged, upper
  <2>3. CASE Close
    BY <2>3, <1>1 DEF Close, Control, Working, OneMountAtATime, control, step, Restrict
  <2>4. CASE Interrupt
    BY <2>4, <1>1 DEF Interrupt, Control, Working, OneMountAtATime, step, rootfsVars,
         merged, upper
  <2> QED
    BY <2>1, <2>2, <2>3, <2>4
<1> QED
  BY <1>4, <1>5 DEF TypeInv

\* Nothing but the next-state relation is left.
LEMMA StepTypes == TypeInv /\ [Next]_vars => TypeInv'
<1> SUFFICES ASSUME TypeInv, [Next]_vars PROVE TypeInv'
  OBVIOUS
<1>1. CASE UNCHANGED vars
  BY <1>1 DEF TypeInv, TypeOK, RootFSTypeOK, Control, Working, OneMountAtATime, vars, control,
              executor, step, store, builder, rootfsVars, IsAssignment, merged, upper
<1>2. CASE Metadata
  BY <1>2, MetadataTypes
<1>3. CASE FilesystemStep
  BY <1>3, PrepareTypes, ActTypes, SnapshotTypes, RecordTypes, CleanupTypes DEF FilesystemStep
<1>4. CASE CacheHit
  BY <1>4, HitTypes
<1>5. CASE StopCancelled \/ Unsupported \/ Export \/ ExportFails \/ Close \/ Interrupt
  BY <1>5, EndTypes
<1> QED
  BY <1>1, <1>2, <1>3, <1>4, <1>5 DEF Next, Build, Done

\* Every variable has its type in every reachable state.
THEOREM TypesHold == Spec => []TypeOK
<1>1. Spec => []TypeInv
  BY InitTypes, StepTypes, PTL DEF Spec
<1>2. TypeInv => TypeOK
  BY DEF TypeInv
<1> QED
  BY <1>1, <1>2, PTL

\* No mount outlives its instruction, whatever fails between Prepare and the
\* deferred Cleanup, and so every instruction works in layer-0.
THEOREM OneMount == Spec => []OneMountAtATime
<1>1. Spec => []TypeInv
  BY InitTypes, StepTypes, PTL DEF Spec
<1>2. TypeInv => OneMountAtATime
  BY DEF TypeInv
<1> QED
  BY <1>1, <1>2, PTL

-----------------------------------------------------------------------------
(* The image: history, diff IDs, layers and cache.                         *)

\* a step that leaves the Store and the history alone
Quiet == UNCHANGED <<layers, diffIDs, history, cache, program>>

\* how many instructions have their history entry: the one at hand has it
\* only between Record and the deferred Cleanup
Entered == IF phase = "cleanup" THEN ip ELSE ip - 1

\* a quiet step that does not fail, or one that fails
Unnoticed  == Quiet /\ (result' # "error" => result # "error" /\ Entered' = Entered)

\* the step of a handler that touches no file
Configured == /\ AddHistory(TRUE) /\ Advance /\ phase = "step" /\ ip <= Len(program)
              /\ UNCHANGED <<program, phase, result, image, layers, diffIDs, cache, layer, blobs>>

\* Every step adds a history entry for the instruction at hand, with or
\* without a layer, or it is quiet.
LEMMA StepKinds ==
    ASSUME TypeInv, [Next]_vars
    PROVE  Unnoticed \/ Configured \/ CacheHit \/ Record
<1>1. ip \in Nat /\ Control
  BY DEF TypeInv, TypeOK
<1>2. CASE UNCHANGED vars
  BY <1>2 DEF vars, Unnoticed, Quiet, Entered, control, store, builder
<1>3. CASE Metadata
  BY <1>3 DEF Metadata, From, Set, Entrypoint, Env, Arg, Workdir, WorkdirBare, Dispatch, Missed, Fetching,
              MetadataStep, Configured, control, store, step
<1>4. CASE FilesystemStep /\ ~ Record
  <2>1. CASE Prepare \/ Commit \/ Snapshot
    BY <2>1, <1>1 DEF Prepare, Commit, Snapshot, FailMounted, Dispatch, Missed, Fetching,
                      Unnoticed, Quiet, Entered, Control, control, store, builder
  <2>2. CASE PrepareFails \/ SnapshotFails
    BY <2>2 DEF PrepareFails, SnapshotFails, Fail, FailMounted, Unnoticed, Quiet, control, store,
                builder
  <2>3. CASE Run \/ Copy \/ CopyFails
    <3>1. phase = "act" /\ \E written, ok : Act(written, ok)
      BY <2>3 DEF Run, Copy, CopyFails
    <3> QED
      BY <3>1, <1>1 DEF Act, FailMounted, Unnoticed, Quiet, Entered, Control, control, store,
                        builder
  <2>4. CASE Cleanup
    BY <2>4, <1>1 DEF Cleanup, Advance, Unnoticed, Quiet, Entered, control, store, builder
  <2> QED
    BY <1>4, <2>1, <2>2, <2>3, <2>4 DEF FilesystemStep
<1>5. CASE StopCancelled \/ Unsupported \/ Export \/ ExportFails \/ Close \/ Interrupt
  BY <1>5, <1>1 DEF StopCancelled, Unsupported, Export, ExportFails, Close, Interrupt, Fail,
                    Fetching, Missed, Exportable, Control,
                    Unnoticed, Quiet, Entered, control, store, builder
<1> QED
  BY <1>2, <1>3, <1>4, <1>5 DEF Next, Build, Done

\* What the three kinds of steps that add a history entry have in common.
LEMMA Adding ==
    ASSUME TypeInv, Configured \/ CacheHit \/ Record
    PROVE  /\ \E empty \in BOOLEAN : AddHistory(empty)
           /\ ip \in DOMAIN program /\ ip <= Len(program) /\ IsInstruction(inst)
           /\ result = "none" /\ Entered = ip - 1 /\ Entered' = ip
           /\ UNCHANGED <<program, result, image>>
<1>1. TypeOK /\ Control /\ ip \in Nat
  BY DEF TypeInv, TypeOK
<1>2. CASE Configured
  <2>1. ip \in DOMAIN program /\ IsInstruction(inst)
    BY <1>1, <1>2, InstFacts DEF Configured
  <2>2. phase = "step" /\ phase' = "step" /\ ip' = ip + 1 /\ result = "none"
    BY <1>1, <1>2 DEF Configured, Control, Advance
  <2>3. Entered = ip - 1 /\ Entered' = ip
    BY <2>2, <1>1 DEF Entered
  <2> QED
    BY <2>1, <2>2, <2>3, <1>2 DEF Configured
<1>3. CASE CacheHit
  <2>1. ip \in DOMAIN program /\ IsInstruction(inst)
    BY <1>1, <1>3, InstFacts DEF CacheHit, Fetching
  <2>2. phase = "step" /\ phase' = "step" /\ ip' = ip + 1 /\ result = "none"
    BY <1>1, <1>3 DEF CacheHit, Fetching, Control, Advance
  <2>3. Entered = ip - 1 /\ Entered' = ip
    BY <2>2, <1>1 DEF Entered
  <2> QED
    BY <2>1, <2>2, <2>3, <1>3 DEF CacheHit, Fetching, AddLayer, control
<1>4. CASE Record
  <2>1. ip \in DOMAIN program /\ ip <= Len(program)
    BY <1>1, <1>4, ProgramFacts DEF Record, Control, Working, TypeOK
  <2>2. IsInstruction(inst)
    BY <1>1, <2>1, InstFacts
  <2> QED
    BY <2>1, <2>2, <1>1, <1>4 DEF Record, AddLayer, Control, Entered, control
<1> QED
  BY <1>2, <1>3, <1>4

\* The history is the raw text of the instructions so far, in order.
Recorded ==
    /\ Len(history) <= Len(program)
    /\ \A i \in 1..Len(history) : history[i].raw = program[i].raw
    /\ result # "error" => Len(history) = Entered

LEMMA StepRecorded ==
    ASSUME TypeInv, Recorded, [Next]_vars
    PROVE  Recorded'
<1>1. CASE Unnoticed
  BY <1>1 DEF Unnoticed, Quiet, Recorded
<1>2. CASE Configured \/ CacheHit \/ Record
  <2>1. PICK empty \in BOOLEAN : AddHistory(empty)
    BY <1>2, Adding
  <2> DEFINE e == [raw |-> inst.raw, empty |-> empty]
  <2>2. ip \in DOMAIN program /\ ip <= Len(program) /\ ip \in Nat /\ Len(program) \in Nat
        /\ Entered' = ip /\ Len(history) = ip - 1 /\ UNCHANGED program
    BY <1>2, Adding, ProgramFacts DEF Recorded, TypeInv, TypeOK
  <2>3. e \in Entry /\ history \in Seq(Entry) /\ e.raw = program[ip].raw
    BY <1>2, Adding DEF Entry, IsInstruction, inst, TypeInv, TypeOK
  <2>4. history' = Append(history, e)
    BY <2>1 DEF AddHistory
  <2> HIDE DEF e
  <2>5. /\ Len(history') = ip
        /\ \A i \in 1..Len(history) : history'[i] = history[i]
        /\ history'[ip] = e
    BY <2>2, <2>3, <2>4, AppendProperties
  <2>6. ASSUME NEW i \in 1..Len(history') PROVE history'[i].raw = program'[i].raw
    <3>1. i \in 1..Len(history) \/ i = ip
      BY <2>2, <2>5
    <3> QED
      BY <3>1, <2>2, <2>3, <2>5 DEF Recorded
  <2> QED
    BY <2>2, <2>5, <2>6 DEF Recorded
<1> QED
  BY <1>1, <1>2, StepKinds

\* runBuild decides its result once: by the export, or by the first error;
\* what was published stays as it was.
LEMMA ResultSteps ==
    ASSUME TypeInv, [Next]_vars
    PROVE  \/ Export
           \/ /\ UNCHANGED <<result, image>>
              /\ result = "ok" => UNCHANGED <<program, layers, config, diffIDs, history>>
           \/ result = "none" /\ result' = "error" /\ UNCHANGED image
<1>1. Control
  BY DEF TypeInv
<1>2. CASE UNCHANGED vars
  BY <1>2 DEF vars, control, store, builder
<1>3. CASE Metadata \/ CacheHit \/ Record
  <2>1. Configured \/ CacheHit \/ Record
    BY <1>3 DEF Metadata, From, Set, Entrypoint, Env, Arg, Workdir, WorkdirBare, Dispatch, Missed,
                Fetching, MetadataStep, Configured, control, store, step
  <2> QED
    BY <2>1, Adding
<1>4. CASE Run \/ Copy \/ CopyFails
  <2>1. phase = "act" /\ \E written, ok : Act(written, ok)
    BY <1>4 DEF Run, Copy, CopyFails
  <2> QED
    BY <2>1, <1>1 DEF Act, FailMounted, Control
<1>5. CASE Prepare \/ PrepareFails \/ Commit \/ Snapshot \/ SnapshotFails
  BY <1>5, <1>1 DEF Prepare, PrepareFails, Commit, Snapshot, SnapshotFails, Fail, FailMounted,
                    Dispatch, Missed, Fetching, Control
<1>6. CASE Cleanup
  BY <1>6, <1>1 DEF Cleanup, Control
<1>7. CASE StopCancelled \/ Unsupported \/ ExportFails
  BY <1>7, <1>1 DEF StopCancelled, Unsupported, ExportFails, Fail, Missed, Fetching, Exportable,
                    Control
<1>8. CASE Close \/ Interrupt
  BY <1>8 DEF Close, Interrupt, control, store, builder
<1> QED
  BY <1>2, <1>3, <1>4, <1>5, <1>6, <1>7, <1>8 DEF Next, Build, Done, FilesystemStep

\* What runBuild has exported is what the Store and the ConfigBuilder hold.
Published ==
    result = "ok" =>
        /\ Len(history) = Len(program)
        /\ image = [layers |-> layers, config |-> config, diffIDs |-> diffIDs, history |-> history]

LEMMA StepPublished ==
    ASSUME TypeInv, Recorded, Published, [Next]_vars
    PROVE  Published'
<1>1. CASE Export
  <2>1. TypeOK /\ Control /\ ip \in 1..(Len(program) + 1) /\ Len(program) \in Nat
    BY ProgramFacts DEF TypeInv, TypeOK
  <2>2. ip = Len(program) + 1 /\ result = "none" /\ Entered = ip - 1
    BY <1>1, <2>1 DEF Export, Exportable, Control, Entered
  <2>3. Len(history) = Len(program)
    BY <2>1, <2>2 DEF Recorded
  <2> QED
    BY <2>3, <1>1 DEF Export, Published, control, store, builder
<1>2. CASE ~ Export
  BY <1>2, ResultSteps DEF Published
<1> QED
  BY <1>1, <1>2

\* Both code paths that add a layer add one of the right type.
LEMMA LayerAdded ==
    ASSUME TypeInv, CacheHit \/ Record
    PROVE  \E l \in Layer :
              /\ AddLayer(l)
              /\ \/ CacheHit /\ CacheKey(layers, inst.raw) \in DOMAIN cache
                   /\ l = cache[CacheKey(layers, inst.raw)]
                 \/ Record /\ l = layer
BY DEF CacheHit, Record, TypeInv, TypeOK, Control

\* The positions of the entries with a layer, when the history grows by one.
LEMMA CountLayers ==
    ASSUME TypeInv, ip <= Len(program), NEW empty \in BOOLEAN, AddHistory(empty)
    PROVE  /\ Cardinality(NonEmpty) \in Nat
           /\ Cardinality(NonEmpty') = Cardinality(NonEmpty) + (IF empty THEN 0 ELSE 1)
<1> DEFINE n == Len(history)
           e == [raw |-> inst.raw, empty |-> empty]
<1>1. history \in Seq(Entry) /\ n \in Nat /\ DOMAIN history = 1..n
  BY LenProperties DEF TypeInv, TypeOK
<1>2. e \in Entry /\ e.empty = empty
  BY InstFacts DEF Entry, IsInstruction, TypeInv
<1>3. history' = Append(history, e)
  BY DEF AddHistory
<1> HIDE DEF e
<1>4. /\ DOMAIN history' = 1..(n + 1)
      /\ \A i \in 1..n : history'[i] = history[i]
      /\ history'[n + 1] = e
  <2>1. Append(history, e) \in Seq(Entry) /\ Len(Append(history, e)) = n + 1
    BY <1>1, <1>2, AppendProperties
  <2>2. DOMAIN Append(history, e) = 1..(n + 1)
    BY <2>1, LenProperties
  <2> QED
    BY <1>1, <1>2, <1>3, <2>2, AppendProperties
<1>5. NonEmpty' = IF empty THEN NonEmpty ELSE NonEmpty \cup {n + 1}
  BY <1>1, <1>2, <1>4 DEF NonEmpty
<1>6. IsFiniteSet(NonEmpty) /\ n + 1 \notin NonEmpty
  <2>1. NonEmpty \in SUBSET (1..n)
    BY <1>1 DEF NonEmpty
  <2>2. IsFiniteSet(1..n)
    BY <1>1, FS_Interval
  <2>3. IsFiniteSet(NonEmpty)
    BY <2>1, <2>2, FS_Subset
  <2>4. n + 1 \notin 1..n
    BY <1>1
  <2> HIDE DEF n
  <2> QED
    BY <2>1, <2>3, <2>4
<1>7. Cardinality(NonEmpty) \in Nat
      /\ Cardinality(NonEmpty \cup {n + 1}) = Cardinality(NonEmpty) + 1
  BY <1>6, FS_CardinalityType, FS_AddElement
<1> QED
  BY <1>5, <1>7

\* Layers, diff IDs and history entries with a layer stay aligned.
LEMMA StepAligned ==
    ASSUME TypeInv, ImageAligned, [Next]_vars
    PROVE  ImageAligned'
<1>1. CASE Unnoticed
  BY <1>1 DEF Unnoticed, Quiet, ImageAligned, NonEmpty, ChainID
<1>2. CASE Configured
  <2>1. Cardinality(NonEmpty') = Cardinality(NonEmpty)
    <3>1. ip <= Len(program) /\ AddHistory(TRUE)
      BY <1>2 DEF Configured
    <3>2. /\ Cardinality(NonEmpty) \in Nat
          /\ Cardinality(NonEmpty') = Cardinality(NonEmpty) + (IF TRUE THEN 0 ELSE 1)
      BY <3>1, CountLayers
    <3> QED
      BY <3>2
  <2> QED
    BY <1>2, <2>1 DEF Configured, ImageAligned, ChainID
<1>3. CASE CacheHit \/ Record
  <2>1. PICK l \in Layer : AddLayer(l)
    BY <1>3, LayerAdded
  <2>2. layers \in Seq(Layer) /\ layers' = Append(layers, l) /\ diffIDs' = Append(diffIDs, l.diffID)
    BY <2>1 DEF AddLayer, TypeInv, TypeOK
  <2>3. diffIDs' = ChainID(layers')
    BY <2>2, ChainAppend DEF ImageAligned
  <2>4. Cardinality(NonEmpty') = Cardinality(NonEmpty) + 1
    BY <1>3, <2>1, Adding, CountLayers DEF AddLayer
  <2>5. Len(layers') = Len(layers) + 1
    BY <2>2, AppendProperties
  <2> QED
    BY <2>3, <2>4, <2>5 DEF ImageAligned
<1> QED
  BY <1>1, <1>2, <1>3, StepKinds

\* The prefix of a stack that a new layer does not reach.
LEMMA PrefixKept ==
    ASSUME NEW stack \in Seq(Layer), NEW l \in Layer, NEW i \in 1..Len(stack)
    PROVE  /\ SubSeq(Append(stack, l), 1, i) = SubSeq(stack, 1, i)
           /\ Append(stack, l)[i] = stack[i]
BY AppendProperties

\* A cache entry is filed under the chain that its own layer ends.
LEMMA StepCached ==
    ASSUME TypeInv, CacheEntryEndsItsChain, [Next]_vars
    PROVE  CacheEntryEndsItsChain'
<1>1. CASE Unnoticed \/ Configured
  BY <1>1 DEF Unnoticed, Quiet, Configured, CacheEntryEndsItsChain, ChainID
<1>2. CASE CacheHit \/ Record
  <2>1. PICK l \in Layer :
              /\ AddLayer(l)
              /\ CacheHit \/ (Record /\ l = layer)
    BY <1>2, LayerAdded
  <2>2. layers \in Seq(Layer) /\ Len(layers) \in Nat /\ layers' = Append(layers, l)
    BY <2>1, LenProperties DEF AddLayer, TypeInv, TypeOK
  <2>3. layers' \in Seq(Layer) /\ DOMAIN layers' = 1..(Len(layers) + 1)
        /\ layers'[Len(layers) + 1] = l /\ Len(layers') = Len(layers) + 1
    BY <2>2, AppendProperties, LenProperties
  <2>4. ASSUME NEW k \in DOMAIN cache
        PROVE  \E i \in DOMAIN layers' :
                  k.chain = ChainID(SubSeq(layers', 1, i)) /\ cache[k] = layers'[i]
    <3>1. PICK i \in DOMAIN layers : k.chain = ChainID(SubSeq(layers, 1, i)) /\ cache[k] = layers[i]
      BY DEF CacheEntryEndsItsChain
    <3>2. i \in 1..Len(layers)
      BY <2>2, LenProperties
    <3>3. SubSeq(layers', 1, i) = SubSeq(layers, 1, i) /\ layers'[i] = layers[i]
      BY <2>2, <3>2, PrefixKept
    <3>4. i \in DOMAIN layers'
      BY <2>2, <2>3, <3>2
    <3>5. k.chain = ChainID(SubSeq(layers', 1, i)) /\ cache[k] = layers'[i]
      BY <3>1, <3>3
    <3> QED
      BY <3>4, <3>5
  <2>5. CASE CacheHit
    BY <2>5, <2>4 DEF CacheHit, CacheEntryEndsItsChain
  <2>6. CASE Record /\ l = layer
    <3> DEFINE key == CacheKey(layers', inst.raw)
    <3>1. cache' = [k \in DOMAIN cache \cup {key} |-> IF k = key THEN l ELSE cache[k]]
      BY <2>6 DEF Record, Update
    <3>2. key.chain = ChainID(layers')
      BY DEF CacheKey
    <3> HIDE DEF key
    <3>3. SubSeq(layers', 1, Len(layers) + 1) = layers'
      BY <2>3, SubSeqFull
    <3>4. key.chain = ChainID(SubSeq(layers', 1, Len(layers) + 1)) /\ Len(layers) + 1 \in DOMAIN layers'
      <4>1. Len(layers) + 1 \in DOMAIN layers'
        BY <2>2, <2>3
      <4> QED
        BY <4>1, <3>2, <3>3
    <3>5. ASSUME NEW k \in DOMAIN cache'
          PROVE  \E i \in DOMAIN layers' :
                    k.chain = ChainID(SubSeq(layers', 1, i)) /\ cache'[k] = layers'[i]
      <4>1. CASE k = key
        BY <4>1, <2>3, <3>1, <3>4
      <4>2. CASE k # key
        <5>1. k \in DOMAIN cache /\ cache'[k] = cache[k]
          BY <4>2, <3>1
        <5> QED
          BY <5>1, <2>4
      <4> QED
        BY <4>1, <4>2
    <3> QED
      BY <3>5 DEF CacheEntryEndsItsChain, ChainID
  <2> QED
    BY <2>1, <2>5, <2>6
<1> QED
  BY <1>1, <1>2, StepKinds

-----------------------------------------------------------------------------
(* The blobs behind the layers.                                            *)

\* whatever name the rename left a blob with, it has the content of its digest
NamesTellContent == \A b \in DOMAIN blobs : blobs[b] = b.digest

Backed(l) == l.blob \in DOMAIN blobs /\ blobs[l.blob] = l.diffID

LayersBacked ==
    /\ NamesTellContent
    /\ phase # "done" => \A i \in DOMAIN layers : Backed(layers[i])
    /\ phase = "record" => Backed(layer)

\* A layer is backed when it enters the Store: a new one by the Snapshot
\* before it, a hit because the same layer is already there.
LEMMA AddedIsBacked ==
    ASSUME TypeInv, CacheEntryEndsItsChain, LayersBacked, CacheHit \/ Record
    PROVE  LayersBacked'
<1>1. PICK l \in Layer :
         /\ AddLayer(l)
         /\ \/ CacheHit /\ CacheKey(layers, inst.raw) \in DOMAIN cache
              /\ l = cache[CacheKey(layers, inst.raw)]
            \/ Record /\ l = layer
  BY LayerAdded
<1>2. /\ UNCHANGED blobs /\ phase \in {"step", "record"} /\ phase' # "record"
  BY <1>1 DEF CacheHit, Record, Fetching
<1>3. Backed(l)
  BY <1>1, <1>2 DEF CacheEntryEndsItsChain, LayersBacked, Record
<1>4. layers \in Seq(Layer) /\ layers' = Append(layers, l)
  BY <1>1 DEF AddLayer, TypeInv, TypeOK
<1>5. ASSUME NEW i \in DOMAIN layers' PROVE layers'[i] = l \/ \E j \in DOMAIN layers : layers'[i] = layers[j]
  BY <1>4, AppendProperties, LenProperties
<1>6. \A i \in DOMAIN layers' : Backed(layers'[i])
  BY <1>2, <1>3, <1>5 DEF LayersBacked
<1> QED
  BY <1>2, <1>6 DEF LayersBacked, NamesTellContent, Backed

\* Only a Snapshot writes a blob, and what it overwrites it does not change.
LEMMA StepBacked ==
    ASSUME TypeInv, CacheEntryEndsItsChain, LayersBacked, [Next]_vars
    PROVE  LayersBacked'
<1>1. CASE CacheHit \/ Record
  BY <1>1, AddedIsBacked
<1>2. CASE Snapshot
  <2> DEFINE tar == TarOf(disk[upper])
  <2>1. PICK name : /\ name.digest = tar
                    /\ blobs' = Update(blobs, [b \in {name} |-> tar])
                    /\ layer' = [diffID |-> tar, blob |-> name]
    BY <1>2 DEF Snapshot
  <2> HIDE DEF tar
  <2>2. blobs' = [b \in DOMAIN blobs \cup {name} |-> IF b = name THEN tar ELSE blobs[b]]
    BY <2>1 DEF Update
  <2>3. UNCHANGED layers /\ phase = "snapshot"
    BY <1>2 DEF Snapshot, store
  <2>4. NamesTellContent'
    BY <2>1, <2>2 DEF LayersBacked, NamesTellContent
  <2>5. ASSUME NEW i \in DOMAIN layers PROVE Backed(layers[i])'
    <3>1. Backed(layers[i])
      BY <2>3 DEF LayersBacked
    <3> QED
      BY <3>1, <2>1, <2>2, <2>3 DEF Backed, LayersBacked, NamesTellContent
  <2>6. Backed(layer)'
    BY <2>1, <2>2 DEF Backed
  <2> QED
    BY <2>3, <2>4, <2>5, <2>6 DEF LayersBacked
<1>3. CASE Close
  BY <1>3 DEF Close, Restrict, LayersBacked, NamesTellContent
<1>4. CASE ~ (CacheHit \/ Record \/ Snapshot \/ Close)
  <2>1. UNCHANGED <<blobs, layers, layer>> \/ (UNCHANGED <<blobs, layers>> /\ phase' # "record")
    <3>1. CASE Run \/ Copy \/ CopyFails
      <4>1. \E written, ok : Act(written, ok)
        BY <3>1 DEF Run, Copy, CopyFails
      <4> QED
        BY <4>1 DEF Act, store
    <3>2. CASE Metadata
      BY <3>2 DEF Metadata, From, Set, Entrypoint, Env, Arg, Workdir, WorkdirBare, MetadataStep, store, step
    <3>3. CASE ~ (Metadata \/ Run \/ Copy \/ CopyFails)
      BY <1>4, <3>3 DEF Next, Build, Done, FilesystemStep, StopCancelled, Unsupported, Export,
           ExportFails, Interrupt, Prepare, PrepareFails, Commit, SnapshotFails, Cleanup, vars,
           store, step
    <3> QED
      BY <3>1, <3>2, <3>3
  <2>2. (phase' = "record" => phase = "record") /\ (phase = "done" => phase' = "done")
    <3>1. CASE Run \/ Copy \/ CopyFails
      <4>1. phase = "act" /\ \E written, ok : Act(written, ok)
        BY <3>1 DEF Run, Copy, CopyFails
      <4> QED
        BY <4>1 DEF Act, FailMounted
    <3>2. CASE Metadata
      BY <3>2 DEF Metadata, From, Set, Entrypoint, Env, Arg, Workdir, WorkdirBare, MetadataStep
    <3>3. CASE ~ (Metadata \/ Run \/ Copy \/ CopyFails)
      BY <1>4, <3>3 DEF Next, Build, Done, FilesystemStep, StopCancelled, Unsupported, Export,
           ExportFails, Interrupt, Prepare, PrepareFails, Commit, SnapshotFails, Cleanup, vars,
           Fail, FailMounted, Dispatch, Missed, Fetching, Exportable
    <3> QED
      BY <3>1, <3>2, <3>3
  <2> QED
    BY <2>1, <2>2 DEF LayersBacked, NamesTellContent, Backed
<1> QED
  BY <1>1, <1>2, <1>3, <1>4

-----------------------------------------------------------------------------
(* The inductive invariant and what follows from it.                       *)

IInv == /\ TypeInv
        /\ Recorded
        /\ Published
        /\ ImageAligned
        /\ CacheEntryEndsItsChain
        /\ LayersBacked

\* Nothing is recorded, cached or written when a build starts.
LEMMA InitInv == Init => IInv
<1> SUFFICES ASSUME Init PROVE IInv
  OBVIOUS
<1>1. TypeInv
  BY InitTypes
<1>2. Recorded /\ Published
  BY <1>1, ProgramFacts DEF Init, Recorded, Published, Entered, TypeInv, TypeOK
<1>3. ImageAligned
  <2>1. NonEmpty = {} /\ layers = <<>> /\ diffIDs = <<>>
    BY DEF Init, NonEmpty
  <2>2. ChainID(layers) = <<>>
    BY <2>1 DEF ChainID
  <2> QED
    BY <2>1, <2>2, FS_EmptySet DEF ImageAligned
<1>4. CacheEntryEndsItsChain /\ LayersBacked
  BY DEF Init, CacheEntryEndsItsChain, LayersBacked, NamesTellContent
<1> QED
  BY <1>1, <1>2, <1>3, <1>4 DEF IInv

\* Each part is preserved with the help of those before it.
LEMMA StepInv == IInv /\ [Next]_vars => IInv'
BY StepTypes, StepRecorded, StepPublished, StepAligned, StepCached, StepBacked DEF IInv

\* The inductive invariant holds in every reachable state.
LEMMA Invariance == Spec => []IInv
BY InitInv, StepInv, PTL DEF Spec

\* The Store and the ConfigBuilder agree on every mix of hits, misses and
\* configuration steps: one diff ID and one history entry with a layer for
\* each layer.
THEOREM Alignment == Spec => []ImageAligned
<1>1. IInv => ImageAligned
  BY DEF IInv
<1> QED
  BY <1>1, Invariance, PTL

\* Whatever is cached, and in whatever order, an entry is a layer of the
\* image filed under the chain that it ends.
THEOREM CacheIsOfThisImage == Spec => []CacheEntryEndsItsChain
<1>1. IInv => CacheEntryEndsItsChain
  BY DEF IInv
<1> QED
  BY <1>1, Invariance, PTL

\* Every layer can be exported as long as the build runs, also when blobs are
\* shared and when a rename fails.
THEOREM LayersHaveBlobs == Spec => []BlobsBackLayers
<1>1. IInv => BlobsBackLayers
  BY DEF IInv, LayersBacked, Backed, BlobsBackLayers
<1> QED
  BY <1>1, Invariance, PTL

\* An image comes only out of a build that executed every instruction.
THEOREM Completeness == Spec => []PublishedIsComplete
<1>1. IInv => PublishedIsComplete
  <2> SUFFICES ASSUME IInv, image # NoImage PROVE PublishedIsComplete
    BY DEF PublishedIsComplete
  <2>1. result = "ok" /\ program \in Programs /\ history \in Seq(Entry)
    BY DEF IInv, TypeInv, Control, TypeOK
  <2>2. /\ image.history = history /\ image.diffIDs = diffIDs /\ image.layers = layers
        /\ Len(history) = Len(program)
    BY <2>1 DEF IInv, Published
  <2>3. DOMAIN history = DOMAIN program /\ DOMAIN program = 1..Len(history)
    BY <2>1, <2>2, ProgramFacts, LenProperties
  <2>4. \A i \in DOMAIN history : history[i].raw = program[i].raw
    BY <2>3 DEF IInv, Recorded
  <2> QED
    BY <2>1, <2>2, <2>3, <2>4 DEF IInv, ImageAligned, PublishedIsComplete
<1> QED
  BY <1>1, Invariance, PTL

\* The key of a lookup is that of the layer on top: a hit repeats it.
THEOREM OnlyTheTopIsHit == Spec => HitRepeatsTopLayer
<1>1. IInv /\ [Next]_vars =>
        [CacheHit => /\ layers # <<>>
                     /\ Last(layers') = Last(layers)]_vars
  <2> SUFFICES ASSUME IInv, CacheHit
               PROVE  layers # <<>> /\ Last(layers') = Last(layers)
    OBVIOUS
  <2>1. PICK l \in Layer :
           /\ AddLayer(l) /\ CacheKey(layers, inst.raw) \in DOMAIN cache
           /\ l = cache[CacheKey(layers, inst.raw)]
    BY DEF CacheHit, IInv, TypeInv, TypeOK
  <2>2. layers \in Seq(Layer) /\ Len(layers) \in Nat /\ DOMAIN layers = 1..Len(layers)
    BY LenProperties DEF IInv, TypeInv, TypeOK
  <2>3. PICK i \in 1..Len(layers) :
           ChainID(layers) = ChainID(SubSeq(layers, 1, i)) /\ l = layers[i]
    BY <2>1, <2>2 DEF IInv, CacheEntryEndsItsChain, CacheKey
  <2>4. i = Len(layers)
    <3>1. SubSeq(layers, 1, i) \in Seq(Layer) /\ Len(SubSeq(layers, 1, i)) = i
      BY <2>2, SubSeqProperties, ElementOfSeq
    <3> QED
      BY <2>2, <2>3, <3>1, ChainType
  <2>5. layers' = Append(layers, l)
    BY <2>1 DEF AddLayer
  <2> QED
    BY <2>2, <2>3, <2>4, <2>5, AppendProperties DEF Last
<1> QED
  BY <1>1, Invariance, PTL DEF Spec, HitRepeatsTopLayer

-----------------------------------------------------------------------------
(* A layer holds what its own instruction wrote.                           *)

\* Every instruction works in the same upper directory.  Between two
\* instructions there is none, the next one starts on an empty one, and
\* from then on a file in it is one the instruction's action wrote.
UpperIsFresh ==
    /\ phase = "step" => Upper(0) \notin DOMAIN disk
    /\ phase = "act" => /\ disk[Upper(0)] = EmptyTree
                        /\ mounts[Merged(0)].upper = Upper(0)
    /\ phase \in {"commit", "snapshot"} =>
          \A n \in Name : disk[Upper(0)][n] \in {Absent, Whiteout, effect[n]}
    /\ LayerHoldsOnlyOwnWrites

\* Prepare makes the upper directory, and copies lower ones elsewhere.
LEMMA PrepareFresh ==
    ASSUME TypeInv, UpperIsFresh, Prepare
    PROVE  UpperIsFresh'
<1>1. /\ phase = "step" /\ phase' = "act" /\ Upper(0) \notin DOMAIN disk
      /\ DOMAIN mounts = {} /\ NextId = 0
  <2>1. phase = "step" /\ phase' = "act"
    BY DEF Prepare, Dispatch, Missed, Fetching
  <2>2. DOMAIN mounts = {}
    BY <2>1 DEF TypeInv, OneMountAtATime
  <2> QED
    BY <2>1, <2>2, FirstMount DEF UpperIsFresh
<1> DEFINE both  == {Upper(0), Merged(0)}
           trees == Mkdirs(both)
<1>2. \/ disk' = trees
      \/ disk' = CopyLowers(trees, Merged(0), lowerDirs)
  BY <1>1 DEF Prepare, PrepareOverlay, PrepareFallback
<1>3. \E overlay \in BOOLEAN : AddMount(0, lowerDirs, overlay)
  BY <1>1 DEF Prepare, PrepareOverlay, PrepareFallback
<1>4. Upper(0) # Merged(0)
  BY DEF Upper, Merged
<1>5. Upper(0) \in DOMAIN trees /\ trees[Upper(0)] = EmptyTree
  BY <1>1 DEF Mkdirs
<1> HIDE DEF trees
<1>6. disk'[Upper(0)] = EmptyTree
  BY <1>2, <1>4, <1>5 DEF CopyLowers
<1>7. mounts'[Merged(0)].upper = Upper(0)
  BY <1>3 DEF AddMount
<1> QED
  BY <1>1, <1>6, <1>7 DEF UpperIsFresh, LayerHoldsOnlyOwnWrites

\* RUN, COPY and ADD write what they write, or leave the directory empty.
LEMMA ActFresh ==
    ASSUME TypeInv, UpperIsFresh, Run \/ Copy \/ CopyFails
    PROVE  UpperIsFresh'
<1>1. /\ phase = "act" /\ phase' \in {"commit", "cleanup"}
      /\ slot = 0 /\ WriteMerged(merged, effect')
  BY DEF Run, Copy, CopyFails, Act, FailMounted, TypeInv, OneMountAtATime
<1>2. /\ disk[Upper(0)] = EmptyTree /\ mounts[Merged(0)].upper = Upper(0)
      /\ Upper(0) \in DOMAIN disk
  BY <1>1 DEF UpperIsFresh, TypeInv, Control, Working, upper
<1> DEFINE info    == mounts[Merged(0)]
           target  == IF info.overlay THEN info.upper ELSE Merged(0)
           gone(n) == IF info.overlay
                         /\ Leftmost(disk, info.lowers, n) \notin {Absent, Whiteout}
                      THEN Whiteout ELSE Absent
           tree    == [n \in Name |-> CASE effect'[n] = Keep   -> disk[target][n]
                                        [] effect'[n] = Absent -> gone(n)
                                        [] OTHER               -> effect'[n]]
<1>3. disk' = [disk EXCEPT ![target] = tree]
  BY <1>1 DEF WriteMerged, merged
<1>4. ASSUME NEW n \in Name
      PROVE  disk'[Upper(0)][n] \in {Absent, Whiteout, effect'[n]}
  <2>1. CASE target = Upper(0)
    <3>1. disk'[Upper(0)] = tree
      BY <1>2, <1>3, <2>1
    <3>2. disk[target][n] = Absent
      BY <1>2, <2>1 DEF EmptyTree
    <3>3. gone(n) \in {Absent, Whiteout}
      OBVIOUS
    <3> HIDE DEF gone, target
    <3> QED
      BY <3>1, <3>2, <3>3
  <2>2. CASE target # Upper(0)
    <3>1. disk'[Upper(0)] = EmptyTree
      BY <1>2, <1>3, <2>2
    <3> QED
      BY <3>1 DEF EmptyTree
  <2> QED
    BY <2>1, <2>2
<1> QED
  BY <1>1, <1>4 DEF UpperIsFresh, LayerHoldsOnlyOwnWrites

\* The diff of the upper directory holds no device node and nothing else new.
LEMMA SnapshotFresh ==
    ASSUME TypeInv, UpperIsFresh, Snapshot
    PROVE  UpperIsFresh'
<1>1. /\ phase = "snapshot" /\ phase' = "record" /\ slot = 0 /\ UNCHANGED effect
      /\ layer'.diffID = TarOf(disk[Upper(0)])
  BY DEF Snapshot, TypeInv, OneMountAtATime, upper
<1>2. ASSUME NEW n \in Name, layer'.diffID[n] # Absent
      PROVE  layer'.diffID[n] = effect'[n]
  BY <1>1, <1>2 DEF TarOf, UpperIsFresh
<1> QED
  BY <1>1, <1>2 DEF UpperIsFresh, LayerHoldsOnlyOwnWrites

\* The deferred Cleanup takes the upper directory away.
LEMMA CleanupFresh ==
    ASSUME TypeInv, UpperIsFresh, Cleanup
    PROVE  UpperIsFresh'
<1>1. phase' \in {"close", "step"} /\ slot = 0
  BY DEF Cleanup, TypeInv, OneMountAtATime
<1>2. Upper(0) \notin DOMAIN disk'
  BY <1>1 DEF Cleanup, RemoveLayerDir, Restrict
<1> QED
  BY <1>1, <1>2 DEF UpperIsFresh, LayerHoldsOnlyOwnWrites

\* The other steps leave the directory alone, or are not between two
\* instructions.
LEMMA StepFresh == TypeInv /\ UpperIsFresh /\ [Next]_vars => UpperIsFresh'
<1> SUFFICES ASSUME TypeInv, UpperIsFresh, [Next]_vars PROVE UpperIsFresh'
  OBVIOUS
<1>1. ASSUME UNCHANGED <<rootfsVars, step, phase>> PROVE UpperIsFresh'
  BY <1>1 DEF UpperIsFresh, LayerHoldsOnlyOwnWrites, rootfsVars, step
<1>2. ASSUME phase' \in {"cleanup", "close", "done"} PROVE UpperIsFresh'
  BY <1>2 DEF UpperIsFresh, LayerHoldsOnlyOwnWrites
<1>3. CASE StopCancelled \/ Unsupported \/ PrepareFails \/ Export \/ ExportFails \/ Close
  BY <1>2, <1>3 DEF StopCancelled, Unsupported, PrepareFails, Export, ExportFails, Close, Fail
<1>4. CASE CacheHit \/ Metadata
  BY <1>1, <1>4 DEF CacheHit, Metadata, From, Set, Entrypoint, Env, Arg, Workdir, WorkdirBare,
                    MetadataStep
<1>5. CASE Prepare
  BY <1>5, PrepareFresh
<1>6. CASE Run \/ Copy \/ CopyFails
  BY <1>6, ActFresh
<1>7. CASE Commit
  <2>1. phase = "commit" /\ phase' \in {"snapshot", "cleanup"} /\ UNCHANGED <<rootfsVars, step>>
    BY <1>7 DEF Commit, FailMounted
  <2> QED
    BY <2>1 DEF UpperIsFresh, LayerHoldsOnlyOwnWrites, rootfsVars, step
<1>8. CASE Snapshot
  BY <1>8, SnapshotFresh
<1>9. CASE SnapshotFails \/ Record
  BY <1>2, <1>9 DEF SnapshotFails, FailMounted, Record
<1>10. CASE Cleanup
  BY <1>10, CleanupFresh
<1>11. CASE Interrupt \/ Done \/ UNCHANGED vars
  BY <1>1, <1>11 DEF Interrupt, Done, vars
<1> QED
  BY <1>3, <1>4, <1>5, <1>6, <1>7, <1>8, <1>9, <1>10, <1>11
     DEF Next, Build, FilesystemStep

\* No layer picks up what an earlier instruction left in the upper directory
\* they all share, for every Dockerfile, every command and every failure.
THEOREM LayersAreTheirOwn == Spec => []LayerHoldsOnlyOwnWrites
<1>1. Init => UpperIsFresh
  BY DEF Init, UpperIsFresh, LayerHoldsOnlyOwnWrites
<1>2. IInv => TypeInv
  BY DEF IInv
<1>3. UpperIsFresh => LayerHoldsOnlyOwnWrites
  BY DEF UpperIsFresh
<1> QED
  BY <1>1, <1>2, <1>3, StepFresh, Invariance, PTL DEF Spec

-----------------------------------------------------------------------------
(* The build implements BuildLog.                                          *)

\* the history as the abstract log sees it
Raws(h) == [i \in DOMAIN h |-> h[i].raw]

\* A history entry appends one step to the log.
LEMMA RawsAppend ==
    ASSUME NEW h \in Seq(Entry), NEW e \in Entry
    PROVE  /\ Raws(Append(h, e)) = Append(Raws(h), e.raw)
           /\ Len(Raws(h)) = Len(h)
<1>1. \A g \in Seq(Entry) : /\ Raws(g) \in Seq(Raw) /\ Len(Raws(g)) = Len(g)
                             /\ \A i \in 1..Len(g) : Raws(g)[i] = g[i].raw
  <2> SUFFICES ASSUME NEW g \in Seq(Entry)
               PROVE  /\ Raws(g) \in Seq(Raw) /\ Len(Raws(g)) = Len(g)
                      /\ \A i \in 1..Len(g) : Raws(g)[i] = g[i].raw
    OBVIOUS
  <2>1. Len(g) \in Nat /\ DOMAIN g = 1..Len(g) /\ \A i \in 1..Len(g) : g[i] \in Entry
    BY LenProperties, ElementOfSeq
  <2>2. Raws(g) \in [1..Len(g) -> Raw]
    BY <2>1 DEF Raws, Entry
  <2>3. Raws(g) \in Seq(Raw)
    BY <2>1, <2>2, SeqDef
  <2> QED
    BY <2>1, <2>2, <2>3, LenProperties DEF Raws
<1>2. /\ Append(h, e) \in Seq(Entry) /\ Len(Append(h, e)) = Len(h) + 1 /\ Len(h) \in Nat
      /\ \A i \in 1..Len(h) : Append(h, e)[i] = h[i]
      /\ Append(h, e)[Len(h) + 1] = e
  BY AppendProperties, LenProperties
<1>3. e.raw \in Raw
  BY DEF Entry
<1>4. /\ Append(Raws(h), e.raw) \in Seq(Raw) /\ Len(Append(Raws(h), e.raw)) = Len(h) + 1
      /\ \A i \in 1..Len(h) : Append(Raws(h), e.raw)[i] = Raws(h)[i]
      /\ Append(Raws(h), e.raw)[Len(h) + 1] = e.raw
  BY <1>1, <1>2, <1>3, AppendProperties
<1>5. Raws(Append(h, e)) \in Seq(Raw) /\ Len(Raws(Append(h, e))) = Len(h) + 1
  BY <1>1, <1>2
<1>6. ASSUME NEW i \in 1..Len(Raws(Append(h, e)))
      PROVE  Raws(Append(h, e))[i] = Append(Raws(h), e.raw)[i]
  <2>1. i \in 1..(Len(h) + 1)
    BY <1>5
  <2>2. Raws(Append(h, e))[i] = Append(h, e)[i].raw
    BY <1>1, <1>2, <2>1
  <2>3. CASE i \in 1..Len(h)
    BY <1>1, <1>2, <1>4, <2>2, <2>3
  <2>4. CASE i = Len(h) + 1
    <3>1. Append(h, e)[i] = e
      BY <1>2, <2>4
    <3>2. Append(Raws(h), e.raw)[i] = e.raw
      BY <1>4, <2>4
    <3> QED
      BY <2>2, <3>1, <3>2
  <2>5. i \in 1..Len(h) \/ i = Len(h) + 1
    BY <1>2, <2>1
  <2> QED
    BY <2>3, <2>4, <2>5
<1> QED
  BY <1>1, <1>4, <1>5, <1>6, SeqEqual

\* A step that adds a history entry applies the next step of the script.
LEMMA Applies ==
    ASSUME IInv, Configured \/ CacheHit \/ Record
    PROVE  Log!Apply
<1>1. PICK empty \in BOOLEAN : AddHistory(empty)
  BY Adding DEF IInv
<1> DEFINE e == [raw |-> inst.raw, empty |-> empty]
<1>2. /\ ip \in DOMAIN program /\ ip <= Len(program) /\ ip \in Nat /\ IsInstruction(inst)
      /\ result = "none" /\ result' = "none" /\ Entered = ip - 1 /\ UNCHANGED <<program, image>>
  BY Adding DEF IInv, TypeInv, TypeOK
<1>3. e \in Entry /\ history \in Seq(Entry) /\ e.raw = program[ip].raw
  BY <1>2 DEF Entry, IsInstruction, inst, IInv, TypeInv, TypeOK
<1>4. history' = Append(history, e)
  BY <1>1 DEF AddHistory
<1> HIDE DEF e
<1>5. Raws(history') = Append(Raws(history), program[ip].raw) /\ Len(Raws(history)) = ip - 1
  <2>1. Len(history) = ip - 1
    BY <1>2 DEF IInv, Recorded
  <2> QED
    BY <1>3, <1>4, <2>1, RawsAppend
<1>6. /\ DOMAIN program = 1..Len(program) /\ Len(program) \in Nat
      /\ Raws(program)[ip] = program[ip].raw
      /\ Len(Raws(program)) = Len(program)
  <2>1. DOMAIN program = 1..Len(program) /\ Len(program) \in Nat
    BY ProgramFacts DEF IInv, TypeInv, TypeOK
  <2>2. DOMAIN Raws(program) = 1..Len(program)
    BY <2>1 DEF Raws
  <2>3. \A i \in 1..Len(program) : Raws(program)[i] \in Raw
    BY <2>1, ProgramFacts DEF Raws, IsInstruction, IInv, TypeInv, TypeOK
  <2>4. Raws(program) \in [1..Len(program) -> Raw]
    BY <2>2, <2>3 DEF Raws
  <2>5. Raws(program) \in Seq(Raw)
    BY <2>1, <2>4, SeqDef
  <2> QED
    BY <1>2, <2>1, <2>2, <2>5, LenProperties DEF Raws
<1>7. diffIDs' = diffIDs \/ \E c \in Content : diffIDs' = Append(diffIDs, c)
  <2>1. CASE Configured
    BY <2>1 DEF Configured
  <2>2. CASE CacheHit \/ Record
    <3>1. PICK l \in Layer : AddLayer(l)
      BY <2>2, LayerAdded DEF IInv
    <3> QED
      BY <3>1 DEF AddLayer, Layer
  <2> QED
    BY <2>1, <2>2
<1>8. Len(Raws(history)) + 1 = ip /\ Len(Raws(history)) < Len(Raws(program))
  BY <1>2, <1>5, <1>6
<1> QED
  BY <1>2, <1>5, <1>6, <1>7, <1>8 DEF Log!Apply, Raws

\* Every other step publishes, aborts, or changes nothing the log shows.
LEMMA Stutters ==
    ASSUME IInv, [Next]_vars, Unnoticed
    PROVE  [Log!Next]_Log!logVars
<1>1. TypeOK /\ Control /\ UNCHANGED <<program, history, diffIDs>>
  BY DEF Unnoticed, Quiet, IInv, TypeInv
<1>2. CASE Export
  <2>1. result = "none" /\ result' = "ok" /\ image'.history = history /\ image'.diffIDs = diffIDs
    BY <1>1, <1>2 DEF Export, Exportable, Control
  <2>2. Raws(history) = Raws(program)
    <3>1. Len(history) = Len(program) /\ Len(program) \in Nat
      <4>1. result' = "ok" /\ Published'
        BY <2>1, StepInv DEF IInv
      <4> QED
        BY <4>1, <1>1, ProgramFacts DEF Published, TypeOK
    <3>2. DOMAIN history = 1..Len(program) /\ DOMAIN program = 1..Len(program)
      BY <1>1, <3>1, ProgramFacts, LenProperties DEF TypeOK
    <3> QED
      BY <3>1, <3>2 DEF IInv, Recorded, Raws
  <2> QED
    BY <1>1, <2>1, <2>2 DEF Log!Next, Log!Publish, Raws
<1>3. CASE UNCHANGED <<result, image>>
  BY <1>1, <1>3 DEF Log!logVars
<1>4. CASE result = "none" /\ result' = "error"
  BY <1>1, <1>4 DEF Log!Next, Log!Abort
<1> QED
  BY <1>2, <1>3, <1>4, ResultSteps DEF IInv

\* The whole build, with its cache, its mounts and every failure and
\* interrupt, is a log of instructions applied in order; it is closed once,
\* and runBuild returns without an error only with the image of all of them.
THEOREM Refinement == Spec => ImplementsLog
<1>1. Init => Log!Init
  <2>1. Init => Raws(history) = <<>>
    BY DEF Init, Raws
  <2> QED
    BY <2>1 DEF Init, Log!Init, Raws
<1>2. IInv /\ [Next]_vars => [Log!Next]_Log!logVars
  <2> SUFFICES ASSUME IInv, [Next]_vars PROVE [Log!Next]_Log!logVars
    OBVIOUS
  <2>1. CASE Unnoticed
    BY <2>1, Stutters
  <2>2. CASE Configured \/ CacheHit \/ Record
    BY <2>2, Applies DEF Log!Next
  <2> QED
    BY <2>1, <2>2, StepKinds DEF IInv
<1> QED
  BY <1>1, <1>2, Invariance, PTL DEF Spec, ImplementsLog, Log!Spec
=============================================================================
