------------------------ MODULE RootFSClients_proofs ------------------------
(***************************************************************************)
(* The invariants of RootFSClients, for any number of scopes, lower        *)
(* directories, files and effects.                                         *)
(*                                                                         *)
(* What holds of every use of the Manager needs only the types and that    *)
(* Close cleans up one mount at a time.  What holds of scopes opened and   *)
(* closed like brackets rests on Stacked: their numbers are 0..NextId-1,   *)
(* and the one being removed, if any, had the next.                        *)
(***************************************************************************)
EXTENDS RootFSClients, RootFS_proofs, FiniteSetTheorems

Typed == TypeOK /\ IsFiniteSet(DOMAIN mounts)

OneAtATime ==
    /\ \A i, j \in removing : i = j
    /\ ~closed => closing = {} /\ removing = {}

\* brackets, before Close
Live == nested /\ ~closed

Stacked ==
    /\ DOMAIN mounts = {Merged(held[c]) : c \in Holders}
    /\ \A i \in Nat : i < NextId <=> \E c \in Holders : held[c] = i
    /\ \A c \in Client : pc[c] = "forgotten" => held[c] = NextId
    /\ \A c, d \in Client : pc[c] = "forgotten" /\ pc[d] = "forgotten" => c = d

\* an upper directory nobody uses is as MkdirAll makes it
UnusedIsEmpty ==
    \A i \in Nat :
        (/\ NextId <= i
         /\ Upper(i) \in DOMAIN disk
         /\ \A c \in Client : pc[c] = "forgotten" => held[c] # i)
        => disk[Upper(i)] = EmptyTree

\* a directory the mount number i may have below it
Below(i) == Base \cup {Upper(j) : j \in {k \in Nat : k < i}}

\* what the upper directory of a mount holds of a file its scope has written
\* w to, the directories below showing another entry of it
Tells(entry, w, overlay, below) ==
    IF overlay
    THEN /\ w \in Val => entry = w
         /\ w = Keep => entry = Absent
         /\ w = Absent => \/ entry = Whiteout
                          \/ entry = Absent /\ below \in {Absent, Whiteout}
    ELSE entry = Absent

Scope(c) ==
    LET up   == Upper(held[c])
        m    == Merged(held[c])
        info == mounts[m]
    IN  /\ {up, m} \subseteq DOMAIN disk
        /\ info.upper = up
        /\ \A k \in DOMAIN info.lowers : info.lowers[k] \in Below(held[c])
        /\ \A n \in Name :
              Tells(disk[up][n], wrote[c][n], info.overlay, Leftmost(disk, info.lowers, n))

Scopes == \A c \in Holders : Scope(c)

Brackets == Live => Stacked /\ UnusedIsEmpty /\ Scopes

Inv == Typed /\ OneAtATime /\ NoUpperLeaks /\ NestedDirsUnique /\ Brackets

-----------------------------------------------------------------------------
(* The table and the directories.                                          *)

LEMMA NamesDiffer ==
    ASSUME NEW i \in Nat, NEW j \in Nat
    PROVE  /\ Upper(i) \in Dir /\ Merged(i) \in Dir
           /\ Upper(i) # Merged(j)
           /\ Upper(i) = Upper(j) => i = j
           /\ Merged(i) = Merged(j) => i = j
BY DEF Upper, Merged, Dir

LEMMA TableGrows ==
    ASSUME Typed, NEW i \in Nat, NEW lowers \in Seq(Dir), NEW overlay \in BOOLEAN,
           AddMount(i, lowers, overlay)
    PROVE  /\ IsFiniteSet(DOMAIN mounts)'
           /\ DOMAIN mounts' = DOMAIN mounts \cup {Merged(i)}
           /\ Merged(i) \notin DOMAIN mounts => NextId' = NextId + 1
<1>1. DOMAIN mounts' = DOMAIN mounts \cup {Merged(i)}
  BY DEF AddMount
<1> QED
  BY <1>1, FS_AddElement DEF Typed, NextId

LEMMA TableShrinks ==
    ASSUME Typed, NEW m, ForgetMount(m)
    PROVE  /\ IsFiniteSet(DOMAIN mounts)'
           /\ DOMAIN mounts' = DOMAIN mounts \ {m}
           /\ \A x \in DOMAIN mounts' : mounts'[x] = mounts[x]
           /\ m \in DOMAIN mounts => NextId' = NextId - 1
<1>1. /\ DOMAIN mounts' = DOMAIN mounts \ {m}
      /\ \A x \in DOMAIN mounts' : mounts'[x] = mounts[x]
  BY DEF ForgetMount, Restrict
<1> QED
  BY <1>1, FS_RemoveElement DEF Typed, NextId

LEMMA TypedFacts ==
    ASSUME Typed
    PROVE  /\ NextId \in Nat
           /\ RootFSTypeOK
           /\ \A c \in Client : held[c] \in Nat
           /\ LowerChoices \subseteq Seq(Dir)
<1>1. NextId \in Nat
  BY FS_CardinalityType DEF Typed, NextId
<1>2. \A c \in Client : held[c] \in Nat
  BY DEF Typed, TypeOK
<1>3. LowerChoices \subseteq Seq(Dir)
  <2>1. \A c \in Client : Upper(held[c]) \in Dir
    BY <1>2, NamesDiffer
  <2>2. <<>> \in Seq(Dir) /\ \A b \in Base : <<b>> \in Seq(Dir)
    BY ClientConstants
  <2>3. \A b \in Base, c \in Holders : <<b, Upper(held[c])>> \in Seq(Dir)
    BY <2>1, ClientConstants DEF Holders
  <2>4. ASSUME NEW lowers \in LowerChoices PROVE lowers \in Seq(Dir)
    <3>1. \/ lowers = <<>>
          \/ \E b \in Base : lowers = <<b>>
          \/ \E b \in Base, c \in Holders : lowers = <<b, Upper(held[c])>>
      BY SMT DEF LowerChoices
    <3> QED
      BY <2>2, <2>3, <3>1
  <2> QED
    BY <2>4
<1> QED
  BY <1>1, <1>2, <1>3 DEF Typed, TypeOK

\* only the directories of layer-i change
OnlyAt(i) ==
    \A d \in Dir : d \notin {Upper(i), Merged(i)} =>
        /\ d \in DOMAIN disk' <=> d \in DOMAIN disk
        /\ d \in DOMAIN disk => disk'[d] = disk[d]

\* A Prepare that succeeds makes the two directories or finds them there.
LEMMA PrepareEffect ==
    ASSUME Typed, NEW lowers \in Seq(Dir),
           PrepareOverlay(lowers) \/ PrepareFallback(lowers)
    PROVE  /\ OnlyAt(NextId)
           /\ DOMAIN disk' = DOMAIN disk \cup {Upper(NextId), Merged(NextId)}
           /\ disk'[Upper(NextId)] =
                IF Upper(NextId) \in DOMAIN disk THEN disk[Upper(NextId)] ELSE EmptyTree
           /\ \E overlay \in BOOLEAN : AddMount(NextId, lowers, overlay)
<1> DEFINE i == NextId
           trees == Mkdirs({Upper(i), Merged(i)})
<1>0. i \in Nat /\ Upper(i) # Merged(i)
  BY TypedFacts, NamesDiffer
<1>1. /\ DOMAIN trees = DOMAIN disk \cup {Upper(i), Merged(i)}
      /\ \A d \in DOMAIN trees : trees[d] = IF d \in DOMAIN disk THEN disk[d] ELSE EmptyTree
  BY DEF Mkdirs
<1>2. \E overlay \in BOOLEAN : AddMount(i, lowers, overlay)
  BY DEF PrepareOverlay, PrepareFallback
<1>3. CASE disk' = trees
  BY <1>0, <1>1, <1>2, <1>3 DEF OnlyAt
<1>4. CASE disk' = CopyLowers(trees, Merged(i), lowers)
  <2>1. DOMAIN disk' = DOMAIN trees /\ \A d \in DOMAIN trees : d # Merged(i) => disk'[d] = trees[d]
    BY <1>4 DEF CopyLowers
  <2> HIDE DEF trees
  <2> QED
    BY <1>0, <1>1, <1>2, <2>1 DEF OnlyAt
<1> QED
  BY <1>3, <1>4 DEF PrepareOverlay, PrepareFallback

\* One that fails does no more.
LEMMA PrepareErrorEffect ==
    ASSUME Typed, NEW lowers \in Seq(Dir), PrepareError(lowers)
    PROVE  /\ OnlyAt(NextId)
           /\ DOMAIN disk \subseteq DOMAIN disk'
           /\ DOMAIN disk' \subseteq DOMAIN disk \cup {Upper(NextId), Merged(NextId)}
           /\ Upper(NextId) \in DOMAIN disk' =>
                disk'[Upper(NextId)] =
                  IF Upper(NextId) \in DOMAIN disk THEN disk[Upper(NextId)] ELSE EmptyTree
           /\ UNCHANGED mounts
<1> DEFINE i == NextId
           trees == Mkdirs({Upper(i), Merged(i)})
<1>0. i \in Nat /\ Upper(i) # Merged(i)
  BY TypedFacts, NamesDiffer
<1>1. UNCHANGED mounts
  BY DEF PrepareError
<1>2. CASE \E made \in {{}, {Upper(i)}, {Upper(i), Merged(i)}} : disk' = Mkdirs(made)
  BY <1>0, <1>1, <1>2 DEF OnlyAt, Mkdirs
<1>3. CASE \E k, part : disk' = CopyPart(CopyLowers(trees, Merged(i), SubSeq(lowers, 1, k - 1)),
                                         Merged(i), lowers[k], part)
  <2>1. /\ DOMAIN trees = DOMAIN disk \cup {Upper(i), Merged(i)}
        /\ \A d \in DOMAIN trees : trees[d] = IF d \in DOMAIN disk THEN disk[d] ELSE EmptyTree
    BY DEF Mkdirs
  <2>2. DOMAIN disk' = DOMAIN trees /\ \A d \in DOMAIN trees : d # Merged(i) => disk'[d] = trees[d]
    BY <1>3 DEF CopyLowers, CopyPart
  <2> HIDE DEF trees
  <2> QED
    BY <1>0, <1>1, <2>1, <2>2 DEF OnlyAt
<1> QED
  BY <1>2, <1>3 DEF PrepareError

\* RemoveAll takes the upper directory away.
LEMMA RemoveEffect ==
    ASSUME NEW i, NEW mergedStays \in BOOLEAN, RemoveLayerDir(i, mergedStays)
    PROVE  /\ OnlyAt(i)
           /\ DOMAIN disk' \subseteq DOMAIN disk \ {Upper(i)}
           /\ \A d \in DOMAIN disk' : disk'[d] = disk[d]
<1>1. DOMAIN disk' = DOMAIN disk \ (IF mergedStays THEN {Upper(i)} ELSE {Upper(i), Merged(i)})
  BY DEF RemoveLayerDir, Restrict
<1>2. \A d \in DOMAIN disk' : disk'[d] = disk[d]
  BY DEF RemoveLayerDir, Restrict
<1> QED
  BY <1>1, <1>2 DEF OnlyAt

LEMMA RemoveType ==
    ASSUME RootFSTypeOK, NEW i, NEW mergedStays, RemoveLayerDir(i, mergedStays), UNCHANGED mounts
    PROVE  RootFSTypeOK'
BY DEF RootFSTypeOK, RemoveLayerDir, Restrict

LEMMA ForgetType ==
    ASSUME RootFSTypeOK, NEW m, ForgetMount(m), UNCHANGED disk
    PROVE  RootFSTypeOK'
BY DEF RootFSTypeOK, ForgetMount, Restrict

-----------------------------------------------------------------------------
(* Types.                                                                  *)

LEMMA InitTyped == Init => Typed
<1> SUFFICES ASSUME Init PROVE Typed
  OBVIOUS
<1>1. NoEffect \in Effect
  BY DEF NoEffect, Effect
<1>2. RootFSTypeOK
  BY ClientConstants DEF Init, RootFSTypeOK
<1>3. TypeOK
  <2>1. pc \in [Client -> {"idle", "held", "forgotten"}] /\ held \in [Client -> Nat]
    BY DEF Init
  <2>2. wrote \in [Client -> Effect]
    BY <1>1 DEF Init
  <2>3. prepares \in 0..MaxPrepares
    BY ClientConstants DEF Init
  <2> QED
    BY <1>2, <2>1, <2>2, <2>3 DEF Init, TypeOK
<1>4. DOMAIN mounts = {}
  BY DEF Init
<1> QED
  BY <1>3, <1>4, FS_EmptySet DEF Typed

LEMMA WriteTyped ==
    ASSUME Typed, NEW c \in Client, Write(c)
    PROVE  Typed'
<1>1. PICK e \in Effects : /\ WriteMerged(Merged(held[c]), e)
                           /\ wrote' = [wrote EXCEPT ![c] =
                                [n \in Name |-> IF e[n] = Keep THEN @[n] ELSE e[n]]]
  BY DEF Write
<1>2. e \in Effect /\ Merged(held[c]) \in DOMAIN mounts /\ UNCHANGED mounts
  BY ClientConstants DEF Write
<1>3. RootFSTypeOK'
  BY <1>1, <1>2, WriteType, TypedFacts
<1>4. [n \in Name |-> IF e[n] = Keep THEN wrote[c][n] ELSE e[n]] \in Effect
  BY <1>2 DEF Typed, TypeOK, Effect
<1>5. wrote' \in [Client -> Effect]
  BY <1>1, <1>4 DEF Typed, TypeOK
<1> QED
  BY <1>2, <1>3, <1>5 DEF Typed, TypeOK, Write, closeVars

LEMMA NextTyped == Typed /\ [Next]_vars => Typed'
<1> SUFFICES ASSUME Typed, [Next]_vars PROVE Typed'
  OBVIOUS
<1>0. NextId \in Nat /\ RootFSTypeOK /\ LowerChoices \subseteq Seq(Dir) /\ NoEffect \in Effect
  BY TypedFacts DEF NoEffect, Effect
<1> USE ClientConstants
<1>1. ASSUME NEW c \in Client, Prepare(c) PROVE Typed'
  <2>1. PICK lowers \in Seq(Dir) : PrepareOverlay(lowers) \/ PrepareFallback(lowers)
    BY <1>0, <1>1 DEF Prepare
  <2>2. RootFSTypeOK'
    BY <1>0, <2>1, PrepareType
  <2>3. IsFiniteSet(DOMAIN mounts)'
    BY <1>0, <2>1, PrepareEffect, TableGrows
  <2>4. prepares' \in 0..MaxPrepares
    BY <1>1 DEF Prepare, Typed, TypeOK
  <2> QED
    BY <1>0, <1>1, <2>2, <2>3, <2>4 DEF Prepare, Typed, TypeOK, closeVars
<1>2. ASSUME NEW c \in Client, PrepareFails(c) PROVE Typed'
  <2>1. PICK lowers \in Seq(Dir) : PrepareError(lowers)
    BY <1>0, <1>2 DEF PrepareFails
  <2>2. RootFSTypeOK' /\ UNCHANGED mounts
    BY <1>0, <2>1, PrepareType DEF PrepareError
  <2>4. prepares' \in 0..MaxPrepares
    BY <1>2 DEF PrepareFails, Typed, TypeOK
  <2> QED
    BY <1>0, <1>2, <2>2, <2>4 DEF PrepareFails, Typed, TypeOK, closeVars
<1>3. ASSUME NEW c \in Client, Write(c) PROVE Typed'
  BY <1>3, WriteTyped
<1>4. ASSUME NEW c \in Client, Forget(c) PROVE Typed'
  <2>1. ForgetMount(Merged(held[c])) /\ UNCHANGED disk
    BY <1>4 DEF Forget
  <2>2. RootFSTypeOK' /\ IsFiniteSet(DOMAIN mounts)'
    BY <1>0, <2>1, ForgetType, TableShrinks
  <2> QED
    BY <1>4, <2>2 DEF Forget, Typed, TypeOK, closeVars
<1>5. ASSUME NEW c \in Client, ForgetNothing(c) PROVE Typed'
  BY <1>5 DEF ForgetNothing, Typed, TypeOK, RootFSTypeOK, closeVars, rootfsVars
<1>6. ASSUME NEW c \in Client, RemoveDirs(c) PROVE Typed'
  <2>1. RootFSTypeOK'
    BY <1>0, <1>6, RemoveType DEF RemoveDirs
  <2> QED
    BY <1>6, <2>1 DEF RemoveDirs, Typed, TypeOK, closeVars
<1>7. CASE CloseStarts
  BY <1>7 DEF CloseStarts, Typed, TypeOK, RootFSTypeOK, rootfsVars
<1>8. CASE CloseForget
  <2>1. PICK m \in closing : /\ closing' = closing \ {m}
                             /\ removing' = IF m \in DOMAIN mounts THEN {m.id} ELSE {}
                             /\ ForgetMount(m)
    BY <1>8 DEF CloseForget
  <2>2. RootFSTypeOK' /\ IsFiniteSet(DOMAIN mounts)'
    BY <1>0, <1>8, <2>1, ForgetType, TableShrinks DEF CloseForget
  <2>3. m.id \in Nat
    BY <2>1 DEF Typed, TypeOK, Dir
  <2> QED
    BY <1>8, <2>1, <2>2, <2>3 DEF CloseForget, Typed, TypeOK
<1>9. CASE CloseRemove
  <2>1. RootFSTypeOK'
    BY <1>0, <1>9, RemoveType DEF CloseRemove
  <2> QED
    BY <1>9, <2>1 DEF CloseRemove, Typed, TypeOK
<1>10. CASE UNCHANGED vars
  BY <1>10 DEF vars, clientVars, rootfsVars, closeVars, Typed, TypeOK, RootFSTypeOK
<1> QED
  BY <1>1, <1>2, <1>3, <1>4, <1>5, <1>6, <1>7, <1>8, <1>9, <1>10
     DEF Next, Step, CloseOne

-----------------------------------------------------------------------------
(* Whatever the scopes do, no upper directory is forgotten.                *)

\* where an upper directory is accounted for
Accounted(i) ==
    \/ Merged(i) \in DOMAIN mounts
    \/ \E c \in Client : pc[c] = "forgotten" /\ held[c] = i
    \/ i \in failed \cup removing

LEMMA LeaksStep ==
    ASSUME Typed, Typed', OneAtATime, NoUpperLeaks, [Next]_vars
    PROVE  OneAtATime' /\ NoUpperLeaks'
<1> DEFINE Uppers == {i \in Nat : Upper(i) \in DOMAIN disk}
<1>0. /\ NextId \in Nat /\ LowerChoices \subseteq Seq(Dir)
      /\ \A c \in Client : held[c] \in Nat
  BY TypedFacts
<1>a. \A i \in Uppers : Accounted(i)
  BY DEF NoUpperLeaks, Accounted, Upper
<1>b. ASSUME \A i \in Nat : Upper(i) \in DOMAIN disk' => Accounted(i)'
      PROVE  NoUpperLeaks'
  <2> SUFFICES ASSUME NEW d \in DOMAIN disk', d.part = "upper"
               PROVE  Accounted(d.id)'
    BY DEF NoUpperLeaks, Accounted
  <2>1. d.id \in Nat /\ d = Upper(d.id)
    BY DEF Typed, TypeOK, RootFSTypeOK, Dir, Upper
  <2> QED
    BY <1>b, <2>1
<1>c. ASSUME UNCHANGED closeVars PROVE OneAtATime'
  BY <1>c DEF OneAtATime, closeVars
<1>1. ASSUME NEW c \in Client, Prepare(c)
      PROVE  OneAtATime' /\ NoUpperLeaks'
  <2>1. PICK lowers \in Seq(Dir) : PrepareOverlay(lowers) \/ PrepareFallback(lowers)
    BY <1>0, <1>1 DEF Prepare
  <2>2. /\ DOMAIN disk' = DOMAIN disk \cup {Upper(NextId), Merged(NextId)}
        /\ DOMAIN mounts' = DOMAIN mounts \cup {Merged(NextId)}
    BY <1>0, <2>1, PrepareEffect, TableGrows
  <2>3. /\ UNCHANGED <<closeVars, removing>> /\ failed' = failed \ {NextId}
        /\ \A d \in Client : pc[d] = "forgotten" => pc'[d] = "forgotten" /\ held'[d] = held[d]
    BY <1>1 DEF Prepare, closeVars, Typed, TypeOK
  <2>4. \A i \in Nat : Upper(i) \in DOMAIN disk' => Accounted(i)'
    BY <1>0, <1>a, <2>2, <2>3, NamesDiffer DEF Accounted
  <2> QED
    BY <1>b, <1>c, <2>3, <2>4
<1>2. ASSUME NEW c \in Client, PrepareFails(c)
      PROVE  OneAtATime' /\ NoUpperLeaks'
  <2>1. PICK lowers \in Seq(Dir) : PrepareError(lowers)
    BY <1>0, <1>2 DEF PrepareFails
  <2>2. /\ DOMAIN disk' \subseteq DOMAIN disk \cup {Upper(NextId), Merged(NextId)}
        /\ UNCHANGED mounts
    BY <2>1, PrepareErrorEffect
  <2>3. UNCHANGED <<closeVars, removing, pc, held>> /\ failed' = failed \cup {NextId}
    BY <1>2 DEF PrepareFails, closeVars
  <2>4. \A i \in Nat : Upper(i) \in DOMAIN disk' => Accounted(i)'
    BY <1>0, <1>a, <2>2, <2>3, NamesDiffer DEF Accounted
  <2> QED
    BY <1>b, <1>c, <2>3, <2>4
<1>3. ASSUME NEW c \in Client, Write(c)
      PROVE  OneAtATime' /\ NoUpperLeaks'
  <2>1. DOMAIN disk' = DOMAIN disk /\ UNCHANGED <<closeVars, removing, pc, held, failed, mounts>>
    BY <1>3 DEF Write, WriteMerged, closeVars
  <2>2. \A i \in Nat : Upper(i) \in DOMAIN disk' => Accounted(i)'
    BY <1>a, <2>1 DEF Accounted
  <2> QED
    BY <1>b, <1>c, <2>1, <2>2
<1>4. ASSUME NEW c \in Client, Forget(c)
      PROVE  OneAtATime' /\ NoUpperLeaks'
  <2>1. /\ DOMAIN mounts' = DOMAIN mounts \ {Merged(held[c])}
        /\ UNCHANGED <<closeVars, removing, failed, held, disk>>
    BY <1>4, TableShrinks DEF Forget, closeVars
  <2>2. /\ pc'[c] = "forgotten"
        /\ \A d \in Client : pc[d] = "forgotten" => pc'[d] = "forgotten"
    BY <1>4 DEF Forget, Typed, TypeOK
  <2>3. \A i \in Nat : Upper(i) \in DOMAIN disk' => Accounted(i)'
    BY <1>0, <1>a, <2>1, <2>2, NamesDiffer DEF Accounted
  <2> QED
    BY <1>b, <1>c, <2>1, <2>3
<1>5. ASSUME NEW c \in Client, ForgetNothing(c)
      PROVE  OneAtATime' /\ NoUpperLeaks'
  <2>1. UNCHANGED <<closeVars, removing, failed, held, disk, mounts>>
    BY <1>5 DEF ForgetNothing, closeVars, rootfsVars
  <2>2. \A d \in Client : pc[d] = "forgotten" => pc'[d] = "forgotten"
    BY <1>5 DEF ForgetNothing, Typed, TypeOK
  <2>3. \A i \in Nat : Upper(i) \in DOMAIN disk' => Accounted(i)'
    BY <1>a, <2>1, <2>2 DEF Accounted
  <2> QED
    BY <1>b, <1>c, <2>1, <2>3
<1>6. ASSUME NEW c \in Client, RemoveDirs(c)
      PROVE  OneAtATime' /\ NoUpperLeaks'
  <2>1. /\ DOMAIN disk' \subseteq DOMAIN disk \ {Upper(held[c])}
        /\ UNCHANGED <<closeVars, removing, failed, held, mounts>>
    BY <1>6, RemoveEffect DEF RemoveDirs, closeVars
  <2>2. \A d \in Client : d # c /\ pc[d] = "forgotten" => pc'[d] = "forgotten"
    BY <1>6 DEF RemoveDirs, Typed, TypeOK
  <2>3. \A i \in Nat : Upper(i) \in DOMAIN disk' => Accounted(i)'
    BY <1>0, <1>a, <2>1, <2>2, NamesDiffer DEF Accounted
  <2> QED
    BY <1>b, <1>c, <2>1, <2>3
<1>7. CASE CloseStarts
  <2>1. UNCHANGED <<removing, failed, held, disk, mounts, pc>> /\ closed' = TRUE
    BY <1>7 DEF CloseStarts, rootfsVars
  <2>2. \A i \in Nat : Upper(i) \in DOMAIN disk' => Accounted(i)'
    BY <1>a, <2>1 DEF Accounted
  <2>3. OneAtATime'
    BY <2>1 DEF OneAtATime
  <2> QED
    BY <1>b, <2>2, <2>3
<1>8. CASE CloseForget
  <2>1. PICK m \in closing : /\ removing' = IF m \in DOMAIN mounts THEN {m.id} ELSE {}
                             /\ ForgetMount(m)
    BY <1>8 DEF CloseForget
  <2>2. DOMAIN mounts' = DOMAIN mounts \ {m}
    BY <2>1, TableShrinks
  <2>3. removing = {} /\ closed' /\ UNCHANGED <<failed, held, disk, pc>>
    BY <1>8, <2>1 DEF CloseForget, OneAtATime
  <2>4. \A i \in Nat : Merged(i) = m => m.id = i
    BY DEF Merged
  <2>5. \A i \in Nat : Upper(i) \in DOMAIN disk' => Accounted(i)'
    BY <1>a, <2>1, <2>2, <2>3, <2>4 DEF Accounted
  <2>6. OneAtATime'
    BY <2>1, <2>3 DEF OneAtATime
  <2> QED
    BY <1>b, <2>5, <2>6
<1>9. CASE CloseRemove
  <2>1. PICK i \in removing : \E mergedStays \in BOOLEAN : RemoveLayerDir(i, mergedStays)
    BY <1>9 DEF CloseRemove
  <2>2. /\ DOMAIN disk' \subseteq DOMAIN disk \ {Upper(i)}
        /\ removing' = {} /\ closed'
        /\ UNCHANGED <<failed, held, mounts, pc>>
    BY <1>9, <2>1, RemoveEffect DEF CloseRemove, OneAtATime
  <2>3. removing = {i}
    BY <2>1 DEF OneAtATime
  <2>4. \A j \in Nat : Upper(j) \in DOMAIN disk' => Accounted(j)'
    BY <1>a, <2>2, <2>3 DEF Accounted
  <2>5. OneAtATime'
    BY <2>2 DEF OneAtATime
  <2> QED
    BY <1>b, <2>4, <2>5
<1>10. CASE UNCHANGED vars
  <2>1. UNCHANGED <<closeVars, removing, failed, held, disk, mounts, pc>>
    BY <1>10 DEF vars, clientVars, rootfsVars, closeVars
  <2>2. \A i \in Nat : Upper(i) \in DOMAIN disk' => Accounted(i)'
    BY <1>a, <2>1 DEF Accounted
  <2> QED
    BY <1>b, <1>c, <2>1, <2>2
<1> QED
  BY <1>1, <1>2, <1>3, <1>4, <1>5, <1>6, <1>7, <1>8, <1>9, <1>10
     DEF Next, Step, CloseOne

-----------------------------------------------------------------------------
(* Scopes opened and closed like brackets.                                 *)

\* What is below a mount is not in the directories of a later one.
LEMMA BelowIsOutside ==
    ASSUME NEW i \in Nat, NEW j \in Nat, j <= i, NEW d \in Below(j)
    PROVE  d \in Dir /\ d \notin {Upper(i), Merged(i)}
<1>1. CASE d \in Base
  BY <1>1, ClientConstants DEF Upper, Merged
<1>2. CASE d \notin Base
  <2>1. PICK k \in Nat : k < j /\ d = Upper(k)
    BY <1>2 DEF Below
  <2> QED
    BY <2>1, NamesDiffer
<1> QED
  BY <1>1, <1>2

\* So a step of a later mount changes nothing of what it shows.
LEMMA BelowIsKept ==
    ASSUME NEW i \in Nat, OnlyAt(i), NEW j \in Nat, j <= i, NEW dirs \in Seq(Dir),
           \A k \in DOMAIN dirs : dirs[k] \in Below(j), NEW n
    PROVE  Leftmost(disk', dirs, n) = Leftmost(disk, dirs, n)
<1> DEFINE before == disk
           after  == disk'
<1>1. \A k \in DOMAIN dirs :
        /\ dirs[k] \in DOMAIN after <=> dirs[k] \in DOMAIN before
        /\ dirs[k] \in DOMAIN before => after[dirs[k]] = before[dirs[k]]
  BY BelowIsOutside DEF OnlyAt
<1> HIDE DEF before, after
<1>2. Leftmost(after, dirs, n) = Leftmost(before, dirs, n)
  BY <1>1, SameStack
<1> QED
  BY <1>2 DEF before, after

\* A mount in the table has a sequence of directories below it.
LEMMA InfoType ==
    ASSUME Typed, NEW m \in DOMAIN mounts
    PROVE  mounts[m].lowers \in Seq(Dir) /\ mounts[m].overlay \in BOOLEAN
BY DEF Typed, TypeOK, RootFSTypeOK, MountInfo

\* Another mount's step, of one opened later or not open.
LEMMA ScopeKept ==
    ASSUME Typed, NEW c \in Client, Scope(c), Merged(held[c]) \in DOMAIN mounts,
           NEW i \in Nat, OnlyAt(i), held[c] < i,
           held'[c] = held[c], wrote'[c] = wrote[c],
           mounts'[Merged(held[c])] = mounts[Merged(held[c])]
    PROVE  Scope(c)'
<1> DEFINE up   == Upper(held[c])
           m    == Merged(held[c])
           info == mounts[m]
<1>0. held[c] \in Nat /\ info.lowers \in Seq(Dir)
  BY TypedFacts, InfoType
<1>1. /\ up \in Dir /\ up \notin {Upper(i), Merged(i)}
      /\ m \in Dir /\ m \notin {Upper(i), Merged(i)}
  BY <1>0, NamesDiffer
<1>2. up \in DOMAIN disk' /\ m \in DOMAIN disk' /\ disk'[up] = disk[up]
  BY <1>1 DEF OnlyAt, Scope
<1>3. \A n \in Name : Leftmost(disk', info.lowers, n) = Leftmost(disk, info.lowers, n)
  BY <1>0, BelowIsKept DEF Scope
<1>4. \A n \in Name :
        Tells(disk'[up][n], wrote'[c][n], info.overlay, Leftmost(disk', info.lowers, n))
  BY <1>2, <1>3 DEF Scope
<1> QED
  BY <1>2, <1>4 DEF Scope

\* What the stack of brackets says to every step that follows.
LEMMA StackFacts ==
    ASSUME Typed, Stacked, Scopes
    PROVE  /\ Merged(NextId) \notin DOMAIN mounts
           /\ \A c \in Holders : /\ held[c] < NextId
                                 /\ Merged(held[c]) \in DOMAIN mounts
                                 /\ Scope(c)
<1>1. NextId \in Nat /\ \A c \in Client : held[c] \in Nat
  BY TypedFacts
<1>2. \A c \in Holders : held[c] < NextId /\ Merged(held[c]) \in DOMAIN mounts
  BY <1>1 DEF Stacked, Holders
<1>3. Merged(NextId) \notin DOMAIN mounts
  <2>1. ASSUME NEW c \in Holders PROVE Merged(held[c]) # Merged(NextId)
    BY <1>1, <1>2, NamesDiffer DEF Holders
  <2> QED
    BY <2>1 DEF Stacked
<1> QED
  BY <1>2, <1>3 DEF Scopes

LEMMA ChoicesAreBelow ==
    ASSUME Typed, Stacked, Scopes, NEW lowers \in LowerChoices, NEW k \in DOMAIN lowers
    PROVE  lowers[k] \in Below(NextId)
<1>1. \A c \in Holders : Upper(held[c]) \in Below(NextId)
  BY StackFacts, TypedFacts DEF Below, Holders
<1>2. Base \subseteq Below(NextId)
  BY DEF Below
<1>3. \/ lowers = <<>>
      \/ \E b \in Base : lowers = <<b>>
      \/ \E b \in Base, c \in Holders : lowers = <<b, Upper(held[c])>>
  BY SMT DEF LowerChoices
<1> QED
  BY <1>1, <1>2, <1>3

LEMMA PrepareBrackets ==
    ASSUME Typed, Stacked, UnusedIsEmpty, Scopes, NestedDirsUnique, Live,
           NEW c \in Client, Prepare(c)
    PROVE  UniqueDirs' /\ Stacked' /\ UnusedIsEmpty' /\ Scopes'
<1> DEFINE i == NextId
<1>0. /\ i \in Nat /\ LowerChoices \subseteq Seq(Dir)
      /\ \A d \in Client : held[d] \in Nat
  BY TypedFacts
<1>1. PICK lowers \in LowerChoices : PrepareOverlay(lowers) \/ PrepareFallback(lowers)
  BY DEF Prepare
<1>2. PICK overlay \in BOOLEAN : AddMount(i, lowers, overlay)
  BY <1>0, <1>1, PrepareEffect
<1>3. /\ OnlyAt(i)
      /\ {Upper(i), Merged(i)} \subseteq DOMAIN disk'
      /\ disk'[Upper(i)] = IF Upper(i) \in DOMAIN disk THEN disk[Upper(i)] ELSE EmptyTree
  BY <1>0, <1>1, PrepareEffect
<1>4. /\ pc[c] = "idle" /\ pc' = [pc EXCEPT ![c] = "held"]
      /\ held' = [held EXCEPT ![c] = i]
      /\ wrote' = [wrote EXCEPT ![c] = NoEffect]
      /\ \A d \in Client : pc[d] # "forgotten"
  BY DEF Prepare, MayRun, Live
<1>5. /\ Merged(i) \notin DOMAIN mounts
      /\ \A d \in Holders : held[d] < i /\ Merged(held[d]) \in DOMAIN mounts /\ Scope(d)
  BY StackFacts
<1>6. NextId' = i + 1
  BY <1>0, <1>2, <1>5, TableGrows
<1>7. /\ Holders' = Holders \cup {c} /\ c \notin Holders
      /\ held'[c] = i /\ wrote'[c] = NoEffect
      /\ \A d \in Holders : held'[d] = held[d] /\ wrote'[d] = wrote[d]
      /\ \A d \in Client : pc'[d] # "forgotten"
  BY <1>4 DEF Holders, Typed, TypeOK
<1>8. /\ DOMAIN mounts' = DOMAIN mounts \cup {Merged(i)}
      /\ mounts'[Merged(i)] = [upper |-> Upper(i), lowers |-> lowers, overlay |-> overlay]
      /\ \A m \in DOMAIN mounts : m # Merged(i) => mounts'[m] = mounts[m]
  BY <1>2 DEF AddMount
<1>9. UniqueDirs'
  <2>1. \A d \in Holders : held'[d] # i
    BY <1>0, <1>5, <1>7 DEF Holders
  <2> QED
    BY <1>7, <2>1 DEF NestedDirsUnique, UniqueDirs, Live
<1>10. Stacked'
  <2>1. DOMAIN mounts' = {Merged(held'[d]) : d \in Holders'}
    <3>1. {Merged(held'[d]) : d \in Holders'} = {Merged(held[d]) : d \in Holders} \cup {Merged(i)}
      BY <1>7
    <3> QED
      BY <1>8, <3>1 DEF Stacked
  <2>2. \A j \in Nat : j < i + 1 <=> \E d \in Holders' : held'[d] = j
    BY <1>0, <1>5, <1>7 DEF Stacked
  <2> QED
    BY <1>6, <1>7, <2>1, <2>2 DEF Stacked
<1>11. disk'[Upper(i)] = EmptyTree
  BY <1>0, <1>3, <1>4 DEF UnusedIsEmpty
<1>12. UnusedIsEmpty'
  <2> SUFFICES ASSUME NEW j \in Nat, i + 1 <= j, Upper(j) \in DOMAIN disk'
               PROVE  disk'[Upper(j)] = EmptyTree
    BY <1>6 DEF UnusedIsEmpty
  <2>1. Upper(j) \in Dir /\ Upper(j) \notin {Upper(i), Merged(i)}
    BY <1>0, NamesDiffer
  <2>2. Upper(j) \in DOMAIN disk /\ disk'[Upper(j)] = disk[Upper(j)]
    BY <1>3, <2>1 DEF OnlyAt
  <2>3. i <= j
    BY <1>0
  <2> QED
    BY <1>4, <2>2, <2>3 DEF UnusedIsEmpty
<1>13. Scopes'
  <2>1. ASSUME NEW d \in Holders PROVE Scope(d)'
    <3>1. d \in Client /\ Merged(held[d]) # Merged(i)
      BY <1>5 DEF Holders
    <3>2. mounts'[Merged(held[d])] = mounts[Merged(held[d])]
      BY <1>5, <1>8, <3>1
    <3> QED
      BY <1>0, <1>3, <1>5, <1>7, <3>1, <3>2, ScopeKept
  <2>2. Scope(c)'
    <3>1. \A k \in DOMAIN lowers : lowers[k] \in Below(i)
      BY ChoicesAreBelow
    <3>2. \A n \in Name : EmptyTree[n] = Absent /\ NoEffect[n] = Keep
      BY DEF EmptyTree, NoEffect
    <3>3. \A n \in Name :
            Tells(disk'[Upper(i)][n], wrote'[c][n], overlay, Leftmost(disk', lowers, n))
      BY <1>7, <1>8, <1>11, <3>2, MarksAreNoValues DEF Tells
    <3> QED
      BY <1>3, <1>7, <1>8, <3>1, <3>3 DEF Scope
  <2> QED
    BY <1>7, <2>1, <2>2 DEF Scopes
<1> QED
  BY <1>9, <1>10, <1>12, <1>13

LEMMA PrepareFailsBrackets ==
    ASSUME Typed, Stacked, UnusedIsEmpty, Scopes, Live, NEW c \in Client, PrepareFails(c)
    PROVE  Stacked' /\ UnusedIsEmpty' /\ Scopes'
<1> DEFINE i == NextId
<1>0. /\ i \in Nat /\ LowerChoices \subseteq Seq(Dir)
      /\ \A d \in Client : held[d] \in Nat
  BY TypedFacts
<1>1. PICK lowers \in Seq(Dir) : PrepareError(lowers)
  BY <1>0 DEF PrepareFails
<1>2. /\ OnlyAt(i) /\ UNCHANGED mounts
      /\ Upper(i) \in DOMAIN disk' =>
           disk'[Upper(i)] = IF Upper(i) \in DOMAIN disk THEN disk[Upper(i)] ELSE EmptyTree
  BY <1>1, PrepareErrorEffect
<1>3. UNCHANGED <<pc, held, wrote>> /\ \A d \in Client : pc[d] # "forgotten"
  BY DEF PrepareFails, MayRun, Live
<1>4. NextId' = i /\ Holders' = Holders
  BY <1>2, <1>3 DEF NextId, Holders
<1>5. Stacked'
  BY <1>2, <1>3, <1>4 DEF Stacked
<1>6. UnusedIsEmpty'
  <2> SUFFICES ASSUME NEW j \in Nat, i <= j, Upper(j) \in DOMAIN disk'
               PROVE  disk'[Upper(j)] = EmptyTree
    BY <1>4 DEF UnusedIsEmpty
  <2>1. CASE j = i
    BY <1>2, <1>3, <2>1 DEF UnusedIsEmpty
  <2>2. CASE j # i
    <3>1. Upper(j) \in Dir /\ Upper(j) \notin {Upper(i), Merged(i)}
      BY <1>0, <2>2, NamesDiffer
    <3>2. Upper(j) \in DOMAIN disk /\ disk'[Upper(j)] = disk[Upper(j)]
      BY <1>2, <3>1 DEF OnlyAt
    <3> QED
      BY <1>3, <3>2 DEF UnusedIsEmpty
  <2> QED
    BY <2>1, <2>2
<1>7. Scopes'
  <2>1. ASSUME NEW d \in Holders PROVE Scope(d)'
    <3>1. d \in Client /\ held[d] < i /\ Merged(held[d]) \in DOMAIN mounts /\ Scope(d)
      BY StackFacts DEF Holders
    <3> QED
      BY <1>0, <1>2, <1>3, <3>1, ScopeKept
  <2> QED
    BY <1>4, <2>1 DEF Scopes
<1> QED
  BY <1>5, <1>6, <1>7

LEMMA WriteBrackets ==
    ASSUME Typed, Stacked, UnusedIsEmpty, Scopes, NestedDirsUnique, Live,
           NEW c \in Client, Write(c)
    PROVE  Stacked' /\ UnusedIsEmpty' /\ Scopes'
<1> DEFINE i    == held[c]
           m    == Merged(i)
           up   == Upper(i)
           info == mounts[m]
           target == IF info.overlay THEN info.upper ELSE m
<1>0. /\ NextId \in Nat /\ \A d \in Client : held[d] \in Nat
  BY TypedFacts
<1>1. PICK e \in Effects : /\ WriteMerged(m, e)
                           /\ wrote' = [wrote EXCEPT ![c] =
                                [n \in Name |-> IF e[n] = Keep THEN @[n] ELSE e[n]]]
  BY DEF Write
<1>2. /\ c \in Holders /\ m \in DOMAIN mounts /\ \A d \in Holders : held[d] <= i
      /\ UNCHANGED <<mounts, pc, held>>
      /\ \A d \in Client : pc[d] # "forgotten"
  BY DEF Write, MayRun, Live, Holders, Innermost
<1>3. NextId' = NextId /\ Holders' = Holders
  BY <1>2 DEF NextId, Holders
<1>4. /\ i < NextId /\ Scope(c) /\ info.upper = up /\ {up, m} \subseteq DOMAIN disk
      /\ info.lowers \in Seq(Dir) /\ info.overlay \in BOOLEAN
      /\ \A k \in DOMAIN info.lowers : info.lowers[k] \in Below(i)
  BY <1>2, StackFacts, InfoType DEF Scope
<1>5. /\ DOMAIN disk' = DOMAIN disk
      /\ \A d \in DOMAIN disk : d # target => disk'[d] = disk[d]
      /\ \A n \in Name : disk'[target][n] =
           CASE e[n] = Keep   -> disk[target][n]
             [] e[n] = Absent -> IF /\ info.overlay
                                    /\ Leftmost(disk, info.lowers, n) \notin {Absent, Whiteout}
                                 THEN Whiteout ELSE Absent
             [] OTHER         -> e[n]
  BY <1>1, <1>4 DEF WriteMerged
<1>6. OnlyAt(i)
  BY <1>4, <1>5 DEF OnlyAt
<1>7. Stacked'
  BY <1>2, <1>3 DEF Stacked
<1>8. UnusedIsEmpty'
  <2> SUFFICES ASSUME NEW j \in Nat, NextId <= j, Upper(j) \in DOMAIN disk'
               PROVE  disk'[Upper(j)] = EmptyTree
    BY <1>3 DEF UnusedIsEmpty
  <2>1. i \in Nat /\ i # j
    BY <1>0, <1>4
  <2>2. Upper(j) \in Dir /\ Upper(j) \notin {Upper(i), Merged(i)}
    BY <2>1, NamesDiffer
  <2>3. Upper(j) \in DOMAIN disk /\ disk'[Upper(j)] = disk[Upper(j)]
    BY <1>6, <2>2 DEF OnlyAt
  <2> QED
    BY <1>2, <2>3 DEF UnusedIsEmpty
<1>9. ASSUME NEW d \in Holders, d # c PROVE Scope(d)'
  <2>1. d \in Client /\ held[d] < i
    <3>1. d \in Client /\ held[d] <= i /\ held[d] # held[c]
      BY <1>2, <1>9 DEF Holders, NestedDirsUnique, UniqueDirs, Live
    <3> QED
      BY <1>0, <3>1
  <2>2. Merged(held[d]) \in DOMAIN mounts /\ Scope(d)
    BY StackFacts
  <2>3. held'[d] = held[d] /\ wrote'[d] = wrote[d]
    BY <1>1, <1>2, <1>9, <2>1 DEF Typed, TypeOK
  <2>4. mounts'[Merged(held[d])] = mounts[Merged(held[d])]
    BY <1>2
  <2> QED
    BY <1>0, <1>6, <2>1, <2>2, <2>3, <2>4, ScopeKept
<1>10. Scope(c)'
  <2>1. \A n \in Name : /\ e[n] \in Val \cup {Absent, Keep}
                        /\ wrote'[c][n] = IF e[n] = Keep THEN wrote[c][n] ELSE e[n]
    BY <1>1, ClientConstants DEF Typed, TypeOK, Effect
  <2>2. \A n \in Name : Leftmost(disk', info.lowers, n) = Leftmost(disk, info.lowers, n)
    BY <1>0, <1>4, <1>6, BelowIsKept
  <2>3. \A n \in Name : Tells(disk[up][n], wrote[c][n], info.overlay, Leftmost(disk, info.lowers, n))
    BY <1>4 DEF Scope
  <2>4. up # m
    BY <1>0, NamesDiffer
  <2>5. \A n \in Name : disk'[up][n] =
          IF info.overlay
          THEN CASE e[n] = Keep   -> disk[up][n]
                 [] e[n] = Absent -> IF Leftmost(disk, info.lowers, n) \notin {Absent, Whiteout}
                                     THEN Whiteout ELSE Absent
                 [] OTHER         -> e[n]
          ELSE disk[up][n]
    <3>1. CASE info.overlay
      <4>1. target = up
        BY <1>4, <3>1
      <4> QED
        BY <1>5, <3>1, <4>1
    <3>2. CASE ~info.overlay
      <4>1. up \in DOMAIN disk /\ up # target
        BY <1>4, <2>4, <3>2
      <4> QED
        BY <1>5, <3>2, <4>1
    <3> QED
      BY <3>1, <3>2
  <2> HIDE DEF info, up
  <2>6. \A n \in Name :
          Tells(disk'[up][n], wrote'[c][n], info.overlay, Leftmost(disk', info.lowers, n))
    <3> SUFFICES ASSUME NEW n \in Name
                 PROVE  Tells(disk'[up][n], wrote'[c][n], info.overlay,
                              Leftmost(disk', info.lowers, n))
      OBVIOUS
    <3> DEFINE below == Leftmost(disk, info.lowers, n)
               entry2 == disk'[up][n]
    <3>1. Tells(disk[up][n], wrote[c][n], info.overlay, below)
      BY <2>3
    <3>2. entry2 = IF info.overlay
                   THEN CASE e[n] = Keep   -> disk[up][n]
                          [] e[n] = Absent -> IF below \notin {Absent, Whiteout}
                                              THEN Whiteout ELSE Absent
                          [] OTHER         -> e[n]
                   ELSE disk[up][n]
      BY <2>5
    <3> HIDE DEF below, entry2
    <3>3. Tells(entry2, IF e[n] = Keep THEN wrote[c][n] ELSE e[n], info.overlay, below)
      BY <1>4, <2>1, <3>1, <3>2, MarksAreNoValues DEF Tells
    <3> QED
      BY <2>1, <2>2, <3>3 DEF below, entry2
  <2> USE DEF info, up
  <2> QED
    BY <1>2, <1>4, <1>5, <2>6 DEF Scope
<1> QED
  BY <1>3, <1>7, <1>8, <1>9, <1>10 DEF Scopes

LEMMA ForgetBrackets ==
    ASSUME Typed, Stacked, UnusedIsEmpty, Scopes, NestedDirsUnique, Live,
           NEW c \in Client, Forget(c)
    PROVE  Stacked' /\ UnusedIsEmpty' /\ Scopes'
<1> DEFINE i == held[c]
<1>0. /\ NextId \in Nat /\ \A d \in Client : held[d] \in Nat
  BY TypedFacts
<1>1. /\ c \in Holders /\ Merged(i) \in DOMAIN mounts /\ \A d \in Holders : held[d] <= i
      /\ ForgetMount(Merged(i)) /\ pc' = [pc EXCEPT ![c] = "forgotten"]
      /\ UNCHANGED <<disk, held, wrote>>
      /\ \A d \in Client : pc[d] # "forgotten"
  BY DEF Forget, MayRun, Live, Holders, Innermost
<1>2. i < NextId /\ \A j \in Nat : j < NextId => \E d \in Holders : held[d] = j
  BY <1>1, StackFacts DEF Stacked
<1>3. i = NextId - 1
  <2>1. NextId - 1 \in Nat /\ NextId - 1 < NextId
    BY <1>0, <1>2
  <2>2. PICK d \in Holders : held[d] = NextId - 1
    BY <1>2, <2>1
  <2> QED
    BY <1>0, <1>1, <1>2, <2>2
<1>4. /\ DOMAIN mounts' = DOMAIN mounts \ {Merged(i)} /\ NextId' = NextId - 1
      /\ \A x \in DOMAIN mounts' : mounts'[x] = mounts[x]
  BY <1>1, TableShrinks
<1>5. /\ Holders' = Holders \ {c}
      /\ \A d \in Client : pc'[d] = "forgotten" <=> d = c
  BY <1>1 DEF Holders, Typed, TypeOK
<1>6. \A d \in Holders : d # c => held[d] < i /\ Merged(held[d]) # Merged(i)
  <2> SUFFICES ASSUME NEW d \in Holders, d # c PROVE held[d] < i /\ Merged(held[d]) # Merged(i)
    OBVIOUS
  <2>1. held[d] # held[c] /\ held[d] <= i /\ held[d] \in Nat
    BY <1>0, <1>1 DEF Holders, NestedDirsUnique, UniqueDirs, Live
  <2> QED
    BY <1>0, <2>1, NamesDiffer
<1>7. Stacked'
  <2>1. DOMAIN mounts' = {Merged(held[d]) : d \in Holders'}
    BY <1>1, <1>4, <1>5, <1>6 DEF Stacked
  <2>2. \A j \in Nat : j < NextId - 1 <=> \E d \in Holders' : held[d] = j
    <3>1. ASSUME NEW j \in Nat, j < NextId - 1 PROVE \E d \in Holders' : held[d] = j
      BY <1>0, <1>2, <1>3, <1>5, <3>1
    <3>2. ASSUME NEW d \in Holders' PROVE held[d] < NextId - 1
      BY <1>3, <1>5, <1>6
    <3> QED
      BY <3>1, <3>2
  <2> QED
    BY <1>1, <1>3, <1>4, <1>5, <2>1, <2>2 DEF Stacked
<1>8. UnusedIsEmpty'
  <2> SUFFICES ASSUME NEW j \in Nat, NextId - 1 <= j, Upper(j) \in DOMAIN disk, held[c] # j
               PROVE  disk[Upper(j)] = EmptyTree
    BY <1>1, <1>4, <1>5 DEF UnusedIsEmpty, Holders
  <2>1. NextId <= j
    BY <1>0, <1>3
  <2> QED
    BY <1>1, <2>1 DEF UnusedIsEmpty
<1>9. Scopes'
  <2>1. ASSUME NEW d \in Holders, d # c PROVE Scope(d)'
    <3>1. Scope(d) /\ Merged(held[d]) \in DOMAIN mounts'
      BY <1>4, <1>6, <2>1, StackFacts
    <3>2. mounts'[Merged(held[d])] = mounts[Merged(held[d])]
      BY <1>4, <3>1
    <3> QED
      BY <1>1, <3>1, <3>2 DEF Scope
  <2> QED
    BY <1>5, <2>1 DEF Scopes
<1> QED
  BY <1>7, <1>8, <1>9

LEMMA RemoveBrackets ==
    ASSUME Typed, Stacked, UnusedIsEmpty, Scopes, Live, NEW c \in Client, RemoveDirs(c)
    PROVE  Stacked' /\ UnusedIsEmpty' /\ Scopes'
<1> DEFINE i == held[c]
<1>0. /\ NextId \in Nat /\ \A d \in Client : held[d] \in Nat
  BY TypedFacts
<1>1. PICK mergedStays \in BOOLEAN : RemoveLayerDir(i, mergedStays)
  BY DEF RemoveDirs
<1>2. /\ OnlyAt(i)
      /\ DOMAIN disk' \subseteq DOMAIN disk \ {Upper(i)}
      /\ \A d \in DOMAIN disk' : disk'[d] = disk[d]
  BY <1>1, RemoveEffect
<1>3. /\ pc[c] = "forgotten" /\ pc' = [pc EXCEPT ![c] = "idle"]
      /\ UNCHANGED <<mounts, held, wrote>>
  BY DEF RemoveDirs
<1>4. i = NextId /\ \A d \in Client : pc[d] = "forgotten" <=> d = c
  BY <1>3 DEF Stacked
<1>5. /\ NextId' = NextId /\ Holders' = Holders
      /\ \A d \in Client : pc'[d] # "forgotten"
  BY <1>3, <1>4 DEF NextId, Holders, Typed, TypeOK
<1>6. Stacked'
  BY <1>3, <1>5 DEF Stacked
<1>7. UnusedIsEmpty'
  <2> SUFFICES ASSUME NEW j \in Nat, NextId <= j, Upper(j) \in DOMAIN disk'
               PROVE  disk'[Upper(j)] = EmptyTree
    BY <1>5 DEF UnusedIsEmpty
  <2>1. Upper(j) \in DOMAIN disk /\ disk'[Upper(j)] = disk[Upper(j)] /\ i # j
    BY <1>2
  <2> QED
    BY <1>4, <2>1 DEF UnusedIsEmpty
<1>8. Scopes'
  <2>1. ASSUME NEW d \in Holders PROVE Scope(d)'
    <3>1. d \in Client /\ held[d] < i /\ Merged(held[d]) \in DOMAIN mounts /\ Scope(d)
      BY <1>4, StackFacts DEF Holders
    <3> QED
      BY <1>0, <1>2, <1>3, <3>1, ScopeKept
  <2> QED
    BY <1>5, <2>1 DEF Scopes
<1> QED
  BY <1>6, <1>7, <1>8

\* Outside the brackets, or once Close has started, nothing is claimed; and
\* no step goes back.
LEMMA BracketsStep ==
    ASSUME Typed, OneAtATime, NestedDirsUnique, Brackets, [Next]_vars
    PROVE  NestedDirsUnique' /\ Brackets'
<1>0. UNCHANGED nested /\ (closed => closed')
  BY DEF Next, Step, Prepare, PrepareFails, Write, Forget, ForgetNothing, RemoveDirs,
         CloseStarts, CloseOne, CloseForget, CloseRemove, vars, clientVars, closeVars
<1>1. ASSUME Holders' \subseteq Holders, UNCHANGED held PROVE NestedDirsUnique'
  BY <1>0, <1>1 DEF NestedDirsUnique, UniqueDirs
<1>2. CASE UNCHANGED vars
  BY <1>2 DEF vars, clientVars, rootfsVars, closeVars, NestedDirsUnique, UniqueDirs, Brackets,
              Live, Holders, Stacked, NextId, UnusedIsEmpty, Scopes, Scope
<1>3. CASE CloseStarts \/ CloseOne
  <2>1. closed' /\ UNCHANGED <<pc, held>>
    BY <1>3 DEF CloseStarts, CloseOne, CloseForget, CloseRemove, OneAtATime
  <2>2. Holders' = Holders
    BY <2>1 DEF Holders
  <2> QED
    BY <1>1, <2>1, <2>2 DEF Brackets, Live
<1>4. ASSUME NEW c \in Client, Step(c)
      PROVE  NestedDirsUnique' /\ Brackets'
  <2>1. Live' => Live
    BY <1>0, <1>4 DEF Live, Step, Prepare, PrepareFails, Write, Forget, ForgetNothing,
                      RemoveDirs, closeVars
  <2>2. CASE Prepare(c)
    <3>1. nested => Live
      BY <2>2 DEF Prepare, MayRun, Live
    <3>2. Live => UniqueDirs' /\ Stacked' /\ UnusedIsEmpty' /\ Scopes'
      BY <2>2, PrepareBrackets DEF Brackets
    <3> QED
      BY <1>0, <2>1, <3>1, <3>2 DEF NestedDirsUnique, Brackets
  <2>3. CASE PrepareFails(c)
    <3>1. Holders' = Holders /\ UNCHANGED held
      BY <2>3 DEF PrepareFails, Holders
    <3>2. Live => Stacked' /\ UnusedIsEmpty' /\ Scopes'
      BY <2>3, PrepareFailsBrackets DEF Brackets
    <3> QED
      BY <1>1, <2>1, <3>1, <3>2 DEF Brackets
  <2>4. CASE Write(c)
    <3>1. Holders' = Holders /\ UNCHANGED held
      BY <2>4 DEF Write, Holders
    <3>2. Live => Stacked' /\ UnusedIsEmpty' /\ Scopes'
      BY <2>4, WriteBrackets DEF Brackets
    <3> QED
      BY <1>1, <2>1, <3>1, <3>2 DEF Brackets
  <2>5. CASE Forget(c)
    <3>1. Holders' \subseteq Holders /\ UNCHANGED held
      BY <2>5 DEF Forget, Holders, Typed, TypeOK
    <3>2. Live => Stacked' /\ UnusedIsEmpty' /\ Scopes'
      BY <2>5, ForgetBrackets DEF Brackets
    <3> QED
      BY <1>1, <2>1, <3>1, <3>2 DEF Brackets
  <2>6. CASE ForgetNothing(c)
    <3>1. Holders' \subseteq Holders /\ UNCHANGED held
      BY <2>6 DEF ForgetNothing, Holders, Typed, TypeOK
    <3>2. ~Live
      BY <2>6, StackFacts DEF ForgetNothing, Holders, Brackets
    <3> QED
      BY <1>1, <2>1, <3>1, <3>2 DEF Brackets
  <2>7. CASE RemoveDirs(c)
    <3>1. Holders' \subseteq Holders /\ UNCHANGED held
      BY <2>7 DEF RemoveDirs, Holders, Typed, TypeOK
    <3>2. Live => Stacked' /\ UnusedIsEmpty' /\ Scopes'
      BY <2>7, RemoveBrackets DEF Brackets
    <3> QED
      BY <1>1, <2>1, <3>1, <3>2 DEF Brackets
  <2> QED
    BY <1>4, <2>2, <2>3, <2>4, <2>5, <2>6, <2>7 DEF Step
<1> QED
  BY <1>2, <1>3, <1>4 DEF Next

LEMMA InvInit == Init => Inv
<1> SUFFICES ASSUME Init PROVE Inv
  OBVIOUS
<1>1. Typed /\ NextId = 0
  BY InitTyped, FS_EmptySet DEF Init, NextId
<1>2. Holders = {} /\ DOMAIN mounts = {} /\ DOMAIN disk = Base
  BY DEF Init, Holders
<1>3. \A d \in DOMAIN disk : d.part # "upper"
  BY <1>2, ClientConstants
<1>4. OneAtATime /\ NoUpperLeaks /\ NestedDirsUnique
  BY <1>2, <1>3 DEF Init, OneAtATime, NoUpperLeaks, NestedDirsUnique, UniqueDirs
<1>5. Stacked
  BY <1>1, <1>2 DEF Init, Stacked
<1>6. UnusedIsEmpty
  BY <1>3 DEF UnusedIsEmpty, Upper
<1>7. Scopes
  BY <1>2 DEF Scopes
<1> QED
  BY <1>1, <1>4, <1>5, <1>6, <1>7 DEF Inv, Brackets

LEMMA InvHolds == Spec => []Inv
<1>1. Inv /\ [Next]_vars => Inv'
  <2> SUFFICES ASSUME Inv, [Next]_vars PROVE Inv'
    OBVIOUS
  <2>1. Typed'
    BY NextTyped DEF Inv
  <2> QED
    BY <2>1, LeaksStep, BracketsStep DEF Inv
<1> QED
  BY <1>1, InvInit, PTL DEF Spec

-----------------------------------------------------------------------------
(* The two backends.                                                       *)

\* Copied into an empty directory, every file is as the last of the
\* directories that has it says.
LEMMA PlainCopies ==
    ASSUME NEW dirs \in Seq(Dir), NEW m \in DOMAIN disk, NEW n \in Name,
           \A k \in DOMAIN dirs : dirs[k] # m
    PROVE  CopyLowers([disk EXCEPT ![m] = EmptyTree], m, dirs)[m][n] = Rightmost(disk, dirs, n)
<1> DEFINE plain == [disk EXCEPT ![m] = EmptyTree]
<1>1. /\ DOMAIN plain = DOMAIN disk /\ plain[m] = EmptyTree
      /\ \A k \in DOMAIN dirs : plain[dirs[k]] = disk[dirs[k]]
  OBVIOUS
<1> HIDE DEF plain
<1>2. Hits(plain, dirs, n) = Hits(disk, dirs, n)
  BY <1>1 DEF Hits
<1>3. CASE Hits(disk, dirs, n) # {}
  <2> DEFINE last == Max(Hits(disk, dirs, n))
  <2>1. Hits(disk, dirs, n) \subseteq 1..Len(dirs) /\ Len(dirs) \in Nat
    BY DEF Hits
  <2>2. last \in DOMAIN dirs
    BY <1>3, <2>1, EndsExist
  <2>3. Rightmost(plain, dirs, n) = plain[dirs[last]][n] /\ Rightmost(disk, dirs, n) = disk[dirs[last]][n]
    BY <1>2, <1>3 DEF Rightmost
  <2> HIDE DEF last
  <2>4. CopyLowers(plain, m, dirs)[m][n] = Rightmost(plain, dirs, n)
    BY <1>1, <1>2, <1>3 DEF CopyLowers
  <2> QED
    BY <1>1, <2>2, <2>3, <2>4 DEF plain
<1>4. CASE Hits(disk, dirs, n) = {}
  <2>1. CopyLowers(plain, m, dirs)[m][n] = Absent /\ Rightmost(disk, dirs, n) = Absent
    BY <1>1, <1>2, <1>4 DEF CopyLowers, EmptyTree, Rightmost
  <2> QED
    BY <2>1 DEF plain
<1> QED
  BY <1>3, <1>4

\* The leftmost and the rightmost say the same of a file exactly when the
\* ends of the directories that have it agree.
LEMMA OrderMatters ==
    ASSUME NEW dirs \in Seq(Dir), NEW n \in Name,
           \A k \in DOMAIN dirs : Copyable(disk, dirs[k])
    PROVE  /\ Leftmost(disk, dirs, n) # Whiteout
           /\ Leftmost(disk, dirs, n) = Rightmost(disk, dirs, n) <=> EndsAgree(dirs, n)
<1> DEFINE hits == Hits(disk, dirs, n)
<1>1. CASE hits = {}
  BY <1>1, MarksAreNoValues DEF Leftmost, Rightmost, EndsAgree
<1>2. CASE hits # {}
  <2>1. PICK i \in hits, j \in hits :
           /\ \A k \in hits : i <= k /\ k <= j
           /\ Leftmost(disk, dirs, n) = disk[dirs[i]][n]
           /\ Rightmost(disk, dirs, n) = disk[dirs[j]][n]
    BY <1>2, FirstAndLast
  <2>2. \A k \in hits : k \in Nat /\ k \in DOMAIN dirs
    BY DEF Hits
  <2>3. disk[dirs[i]][n] # Whiteout
    BY <2>2 DEF Copyable
  <2>4. \A x, y \in hits : (\A k \in hits : x <= k /\ k <= y) => x = i /\ y = j
    BY <2>1, <2>2
  <2>5. EndsAgree(dirs, n) <=> disk[dirs[i]][n] = disk[dirs[j]][n]
    <3> HIDE DEF hits
    <3>1. EndsAgree(dirs, n) <=>
            \A x, y \in hits : (\A k \in hits : x <= k /\ k <= y)
                                 => disk[dirs[x]][n] = disk[dirs[y]][n]
      BY DEF EndsAgree, hits
    <3> QED
      BY <2>1, <2>4, <3>1
  <2> QED
    BY <2>1, <2>3, <2>5
<1> QED
  BY <1>1, <1>2

-----------------------------------------------------------------------------
(* The theorems.                                                           *)

\* The table and the directories stay well formed, also when goroutines that
\* number their mounts alike work in the same directories.
THEOREM ManagerTypes == Spec => []TypeOK
<1>1. Inv => TypeOK
  BY DEF Inv, Typed
<1> QED
  BY <1>1, InvHolds, PTL

\* Every upper directory on disk belongs to a mount of the table, to a
\* Cleanup under way or to a Prepare that failed, however the calls of
\* Prepare, Cleanup and Close interleave.
THEOREM NoUpperIsForgotten == Spec => []NoUpperLeaks
<1>1. Inv => NoUpperLeaks
  BY DEF Inv
<1> QED
  BY <1>1, InvHolds, PTL

\* Scopes that nest get directories of their own from a number that is the
\* count of the mounts in the table.
THEOREM NestingKeepsDirsApart == Spec => []NestedDirsUnique
<1>1. Inv => NestedDirsUnique
  BY DEF Inv
<1> QED
  BY <1>1, InvHolds, PTL

\* A nested scope can commit: its mount is in the table and its directories
\* are on disk, whatever scopes inside it did and cleaned up.
THEOREM HeldStaysMounted == Spec => []HeldIsMounted
<1>1. Inv => HeldIsMounted
  <2> SUFFICES ASSUME Inv, Live, NEW c \in Holders
               PROVE  /\ Committable(Merged(held[c]))
                      /\ {Upper(held[c]), Merged(held[c])} \subseteq DOMAIN disk
    BY DEF HeldIsMounted, Live
  <2> QED
    BY StackFacts DEF Inv, Brackets, Committable, Scope
<1> QED
  BY <1>1, InvHolds, PTL

\* The upper directory Commit hands over holds what the scope wrote, nothing
\* that an earlier user of the number left, and under overlayfs all of it.
THEOREM UpperHoldsOwnDiff == Spec => []UpperIsOwnDiff
<1>1. Inv => UpperIsOwnDiff
  <2> SUFFICES ASSUME Inv, Live, NEW c \in Holders, NEW n \in Name
               PROVE  LET entry == disk[Upper(held[c])][n]
                      IN  /\ entry \in Val => wrote[c][n] = entry
                          /\ mounts[Merged(held[c])].overlay /\ wrote[c][n] \in Val =>
                                entry = wrote[c][n]
    BY DEF UpperIsOwnDiff, Live
  <2> DEFINE info == mounts[Merged(held[c])]
  <2>1. Tells(disk[Upper(held[c])][n], wrote[c][n], info.overlay, Leftmost(disk, info.lowers, n))
    BY StackFacts DEF Inv, Brackets, Scope
  <2>2. wrote[c][n] \in Val \cup {Absent, Keep}
    BY DEF Inv, Typed, TypeOK, Holders, Effect
  <2> QED
    BY <2>1, <2>2, MarksAreNoValues DEF Tells
<1> QED
  BY <1>1, InvHolds, PTL

\* What a scope sees below its merged directory is what it wrote, less what
\* it deleted; and of the directories it was given what the fallback would
\* have copied exactly when their order does not matter for the file.
THEOREM BackendsCompared == Spec => []OverlayAgainstCopies
<1>1. Inv => OverlayAgainstCopies
  <2> DEFINE m(c) == Merged(held[c])
             below(c) == mounts[m(c)].lowers
             plain(c) == [disk EXCEPT ![m(c)] = EmptyTree]
             readable(c) == \A k \in DOMAIN below(c) : Copyable(disk, below(c)[k])
  <2> SUFFICES ASSUME Inv, Live, NEW c \in Holders, NEW n \in Name, mounts[m(c)].overlay
               PROVE  /\ wrote[c][n] # Keep => View(m(c))[n] = wrote[c][n]
                      /\ wrote[c][n] = Keep /\ readable(c) =>
                           (View(m(c))[n] = CopyLowers(plain(c), m(c), below(c))[m(c)][n]
                              <=> EndsAgree(below(c), n))
    BY DEF OverlayAgainstCopies, Live
  <2> DEFINE up    == Upper(held[c])
             entry == disk[up][n]
             shown == Leftmost(disk, below(c), n)
             stack == <<up>> \o below(c)
  <2>1. /\ m(c) \in DOMAIN mounts /\ {up, m(c)} \subseteq DOMAIN disk /\ mounts[m(c)].upper = up
        /\ Tells(entry, wrote[c][n], TRUE, shown)
        /\ \A k \in DOMAIN below(c) : below(c)[k] \in Below(held[c])
    BY StackFacts DEF Inv, Brackets, Scope
  <2>2. below(c) \in Seq(Dir) /\ up \in Dir /\ wrote[c][n] \in Val \cup {Absent, Keep}
    BY <2>1, InfoType DEF Inv, Typed, TypeOK, RootFSTypeOK, Holders, Effect
  <2>3. /\ entry # Absent => Leftmost(disk, stack, n) = entry
        /\ entry = Absent => Leftmost(disk, stack, n) = shown
    BY <2>1, <2>2, UpperWins
  <2>4. View(m(c))[n] = IF Leftmost(disk, stack, n) = Whiteout
                        THEN Absent ELSE Leftmost(disk, stack, n)
    BY <2>1 DEF View
  <2>5. \A k \in DOMAIN below(c) : below(c)[k] # m(c)
    <3>1. held[c] \in Nat
      BY TypedFacts DEF Inv, Holders
    <3> QED
      BY <2>1, <3>1, BelowIsOutside
  <2>6. CopyLowers(plain(c), m(c), below(c))[m(c)][n] = Rightmost(disk, below(c), n)
    BY <2>1, <2>2, <2>5, PlainCopies
  <2>7. readable(c) => (shown # Whiteout /\ (shown = Rightmost(disk, below(c), n)
                                                <=> EndsAgree(below(c), n)))
    BY <2>2, OrderMatters
  <2> HIDE DEF entry, shown, stack, below, m, plain, readable
  <2>8. wrote[c][n] # Keep => View(m(c))[n] = wrote[c][n]
    BY <2>1, <2>2, <2>3, <2>4, MarksAreNoValues DEF Tells
  <2>9. wrote[c][n] = Keep => View(m(c))[n] = IF shown = Whiteout THEN Absent ELSE shown
    BY <2>1, <2>3, <2>4 DEF Tells
  <2> QED
    BY <2>6, <2>7, <2>8, <2>9
<1> QED
  BY <1>1, InvHolds, PTL
=============================================================================
