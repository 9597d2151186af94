--------------------------- MODULE RootFS_proofs ---------------------------
(***************************************************************************)
(* The operations of the rootfs Manager keep its two variables typed,      *)
(* whoever calls them and with whatever arguments.                         *)
(***************************************************************************)
EXTENDS RootFS, SequenceLemmas, FiniteSetTheorems

\* What a stack of directories shows of a file is one of the trees' entries,
\* or nothing; so for overlayfs, and for the copies of prepareFallback.
LEMMA ShownType ==
    ASSUME NEW trees, trees \in [DOMAIN trees -> Tree],
           NEW dirs \in Seq(Dir), NEW n \in Name
    PROVE  /\ Leftmost(trees, dirs, n) \in Val \cup {Absent, Whiteout}
           /\ Rightmost(trees, dirs, n) \in Val \cup {Absent, Whiteout}
<1> DEFINE hits == Hits(trees, dirs, n)
<1>1. ASSUME NEW i \in hits
      PROVE  trees[dirs[i]][n] \in Val \cup {Absent, Whiteout}
  BY <1>1 DEF Hits, Tree
<1>2. CASE hits = {}
  BY <1>2 DEF Leftmost, Rightmost
<1>3. CASE hits # {}
  <2>1. hits \subseteq 1..Len(dirs) /\ Len(dirs) \in Nat
    BY DEF Hits
  <2>2. Min(hits) \in hits /\ Max(hits) \in hits
    BY <1>3, <2>1, EndsExist
  <2> QED
    BY <1>1, <1>3, <2>2 DEF Leftmost, Rightmost
<1> QED
  BY <1>2, <1>3

LEMMA MinIs ==
    ASSUME NEW S, S \subseteq Nat, NEW x \in S, \A y \in S : x <= y
    PROVE  Min(S) = x
<1>1. \A z \in S : (\A y \in S : z <= y) => z = x
  OBVIOUS
<1> QED
  BY <1>1 DEF Min

\* The upper directory of a stack hides what is below, where it has an entry.
LEMMA UpperWins ==
    ASSUME NEW trees, NEW up \in Dir, up \in DOMAIN trees, NEW dirs \in Seq(Dir), NEW n
    PROVE  /\ trees[up][n] # Absent => Leftmost(trees, <<up>> \o dirs, n) = trees[up][n]
           /\ trees[up][n] = Absent =>
                Leftmost(trees, <<up>> \o dirs, n) = Leftmost(trees, dirs, n)
<1> DEFINE stack == <<up>> \o dirs
           here  == Hits(trees, stack, n)
           under == Hits(trees, dirs, n)
<1>1. /\ Len(dirs) \in Nat /\ DOMAIN dirs = 1..Len(dirs)
      /\ DOMAIN stack = 1..(Len(dirs) + 1)
      /\ stack[1] = up
      /\ \A k \in 1..Len(dirs) : stack[k + 1] = dirs[k]
  OBVIOUS
<1> HIDE DEF stack
<1>2. here \subseteq 1..(Len(dirs) + 1) /\ under \subseteq 1..Len(dirs)
  BY <1>1 DEF Hits
<1>3. \A k \in 1..Len(dirs) : k + 1 \in here <=> k \in under
  BY <1>1 DEF Hits
<1>4. CASE trees[up][n] # Absent
  <2>1. 1 \in here
    BY <1>1, <1>4 DEF Hits
  <2>2. Min(here) = 1
    BY <1>2, <2>1, MinIs
  <2> QED
    BY <1>1, <1>4, <2>1, <2>2 DEF Leftmost, stack
<1>5. CASE trees[up][n] = Absent
  <2>1. 1 \notin here
    BY <1>1, <1>5 DEF Hits
  <2>2. \A k \in here : k - 1 \in under
    BY <1>2, <1>3, <2>1
  <2>3. CASE under = {}
    <3>1. here = {}
      BY <2>2, <2>3
    <3> QED
      BY <1>5, <2>3, <3>1 DEF Leftmost, stack
  <2>4. CASE under # {}
    <3> DEFINE k == Min(under)
    <3>1. k \in under /\ \A j \in under : k <= j
      BY <1>1, <1>2, <2>4, EndsExist
    <3>2. k + 1 \in here /\ \A j \in here : k + 1 <= j
      BY <1>2, <1>3, <2>2, <3>1
    <3>3. Min(here) = k + 1
      <4> HIDE DEF k
      <4>1. here \subseteq Nat
        BY <1>2
      <4> QED
        BY <3>2, <4>1, MinIs
    <3>4. stack[k + 1] = dirs[k] /\ here # {}
      BY <1>1, <1>2, <3>1, <3>2
    <3> QED
      BY <1>5, <2>4, <3>3, <3>4 DEF Leftmost, stack
  <2> QED
    BY <2>3, <2>4
<1> QED
  BY <1>4, <1>5

\* What a stack shows depends on the trees in it only.
LEMMA SameStack ==
    ASSUME NEW before, NEW after, NEW dirs \in Seq(Dir), NEW n,
           \A k \in DOMAIN dirs :
              /\ dirs[k] \in DOMAIN after <=> dirs[k] \in DOMAIN before
              /\ dirs[k] \in DOMAIN before => after[dirs[k]] = before[dirs[k]]
    PROVE  Leftmost(after, dirs, n) = Leftmost(before, dirs, n)
<1>1. Hits(after, dirs, n) = Hits(before, dirs, n)
  BY DEF Hits
<1>2. CASE Hits(before, dirs, n) = {}
  BY <1>1, <1>2 DEF Leftmost
<1>3. CASE Hits(before, dirs, n) # {}
  <2>1. Hits(before, dirs, n) \subseteq 1..Len(dirs) /\ Len(dirs) \in Nat
    BY DEF Hits
  <2>2. Min(Hits(before, dirs, n)) \in Hits(before, dirs, n)
    BY <1>3, <2>1, EndsExist
  <2>3. LET k == Min(Hits(before, dirs, n))
        IN  k \in DOMAIN dirs /\ dirs[k] \in DOMAIN before
    BY <2>2 DEF Hits
  <2> QED
    BY <1>1, <1>3, <2>3 DEF Leftmost
<1> QED
  BY <1>2, <1>3

\* overlayfs shows what the first directory that has a file says of it, the
\* copies leave what the last one says.
LEMMA FirstAndLast ==
    ASSUME NEW trees, NEW dirs \in Seq(Dir), NEW n, Hits(trees, dirs, n) # {}
    PROVE  \E i, j \in Hits(trees, dirs, n) :
              /\ \A k \in Hits(trees, dirs, n) : i <= k /\ k <= j
              /\ Leftmost(trees, dirs, n) = trees[dirs[i]][n]
              /\ Rightmost(trees, dirs, n) = trees[dirs[j]][n]
<1> DEFINE hits == Hits(trees, dirs, n)
<1>1. hits \subseteq 1..Len(dirs) /\ Len(dirs) \in Nat
  BY DEF Hits
<1>2. /\ Min(hits) \in hits /\ Max(hits) \in hits
      /\ \A k \in hits : Min(hits) <= k /\ k <= Max(hits)
  BY <1>1, EndsExist
<1>3. /\ Leftmost(trees, dirs, n) = trees[dirs[Min(hits)]][n]
      /\ Rightmost(trees, dirs, n) = trees[dirs[Max(hits)]][n]
  BY DEF Leftmost, Rightmost
<1> QED
  BY <1>2, <1>3

\* MkdirAll and the copies of prepareFallback leave well-formed trees.
LEMMA TreesType ==
    ASSUME RootFSTypeOK, NEW dirs \in SUBSET Dir, NEW m \in Dir, NEW lowers \in Seq(Dir)
    PROVE  /\ Mkdirs(dirs) \in [DOMAIN disk \cup dirs -> Tree]
           /\ CopyLowers(Mkdirs(dirs), m, lowers) \in [DOMAIN disk \cup dirs -> Tree]
           /\ \A d \in Dir : \A part \in SUBSET FilesIn(Mkdirs(dirs), d) :
                 CopyPart(CopyLowers(Mkdirs(dirs), m, lowers), m, d, part)
                    \in [DOMAIN disk \cup dirs -> Tree]
<1> DEFINE trees == Mkdirs(dirs)
<1>1. trees \in [DOMAIN disk \cup dirs -> Tree]
  BY DEF Mkdirs, RootFSTypeOK, EmptyTree, Tree
<1>2. CopyLowers(trees, m, lowers) \in [DOMAIN disk \cup dirs -> Tree]
  <2>1. trees \in [DOMAIN trees -> Tree] /\ DOMAIN trees = DOMAIN disk \cup dirs
    BY <1>1
  <2>2. \A n \in Name : Rightmost(trees, lowers, n) \in Val \cup {Absent, Whiteout}
    BY <2>1, ShownType
  <2>3. m \in DOMAIN trees =>
          [n \in Name |-> IF Hits(trees, lowers, n) = {} THEN trees[m][n]
                          ELSE Rightmost(trees, lowers, n)] \in Tree
    BY <2>1, <2>2 DEF Tree
  <2> HIDE DEF trees
  <2> QED
    BY <2>1, <2>3 DEF CopyLowers
<1>3. ASSUME NEW copied \in [DOMAIN disk \cup dirs -> Tree], NEW d \in Dir,
             NEW part \in SUBSET FilesIn(trees, d),
             \A n \in part : copied[d][n] \in Val \cup {Absent, Whiteout}
      PROVE  CopyPart(copied, m, d, part) \in [DOMAIN disk \cup dirs -> Tree]
  <2>1. m \in DOMAIN copied =>
          [n \in Name |-> IF n \in part THEN copied[d][n] ELSE copied[m][n]] \in Tree
    BY <1>3 DEF Tree
  <2> QED
    BY <2>1 DEF CopyPart
<1>4. ASSUME NEW d \in Dir, NEW part \in SUBSET FilesIn(trees, d), NEW n \in part
      PROVE  CopyLowers(trees, m, lowers)[d][n] \in Val \cup {Absent, Whiteout}
  <2>1. n \in Name /\ d \in DOMAIN trees
    BY DEF FilesIn
  <2> HIDE DEF trees
  <2>2. CopyLowers(trees, m, lowers)[d] \in Tree
    BY <1>1, <1>2, <2>1
  <2> QED
    BY <2>1, <2>2 DEF Tree
<1> HIDE DEF trees
<1> QED
  <2>1. \A d \in Dir : \A part \in SUBSET FilesIn(trees, d) :
           CopyPart(CopyLowers(trees, m, lowers), m, d, part) \in [DOMAIN disk \cup dirs -> Tree]
    BY <1>2, <1>3, <1>4
  <2> QED
    BY <1>1, <1>2, <2>1 DEF trees

\* Prepare's upper and merged directories have their names in Dir.
LEMMA DirTypes ==
    ASSUME NEW i \in Nat
    PROVE  Upper(i) \in Dir /\ Merged(i) \in Dir
BY DEF Upper, Merged, Dir

\* The Manager's variables stay typed when the trees and the table do.
LEMMA TreesSuffice ==
    ASSUME RootFSTypeOK, NEW dirs \in SUBSET Dir, disk' \in [DOMAIN disk \cup dirs -> Tree],
           DOMAIN mounts' \subseteq Dir, mounts' \in [DOMAIN mounts' -> MountInfo]
    PROVE  RootFSTypeOK'
BY DEF RootFSTypeOK

\* The entry Prepare adds is a MountInfo, whatever its lower directories.
LEMMA AddMountType ==
    ASSUME RootFSTypeOK, NEW i \in Nat, NEW lowers \in Seq(Dir), NEW overlay \in BOOLEAN,
           AddMount(i, lowers, overlay)
    PROVE  DOMAIN mounts' \subseteq Dir /\ mounts' \in [DOMAIN mounts' -> MountInfo]
BY DirTypes DEF AddMount, RootFSTypeOK, MountInfo

\* Manager.Prepare, on each of its three outcomes.
LEMMA PrepareType ==
    ASSUME RootFSTypeOK, NextId \in Nat, NEW lowers \in Seq(Dir),
           PrepareOverlay(lowers) \/ PrepareFallback(lowers) \/ PrepareError(lowers)
    PROVE  RootFSTypeOK'
<1> DEFINE i == NextId
           both == {Upper(i), Merged(i)}
<1>0. both \in SUBSET Dir /\ Merged(i) \in Dir /\ Upper(i) \in Dir
  BY DirTypes
<1>1. CASE PrepareOverlay(lowers)
  <2>1. disk' = Mkdirs(both) /\ AddMount(i, lowers, TRUE)
    BY <1>1 DEF PrepareOverlay
  <2>2. DOMAIN mounts' \subseteq Dir /\ mounts' \in [DOMAIN mounts' -> MountInfo]
    BY <2>1, AddMountType
  <2> QED
    BY <1>0, <2>1, <2>2, TreesType, TreesSuffice
<1>2. CASE PrepareFallback(lowers)
  <2>1. disk' = CopyLowers(Mkdirs(both), Merged(i), lowers) /\ AddMount(i, lowers, FALSE)
    BY <1>2 DEF PrepareFallback
  <2>2. DOMAIN mounts' \subseteq Dir /\ mounts' \in [DOMAIN mounts' -> MountInfo]
    BY <2>1, AddMountType
  <2> QED
    BY <1>0, <2>1, <2>2, TreesType, TreesSuffice
<1>3. CASE PrepareError(lowers)
  <2>2. DOMAIN mounts' \subseteq Dir /\ mounts' \in [DOMAIN mounts' -> MountInfo]
    BY <1>3 DEF PrepareError, RootFSTypeOK
  <2>3. CASE \E made \in {{}, {Upper(i)}, both} : disk' = Mkdirs(made)
    <3>1. PICK made \in SUBSET Dir : disk' = Mkdirs(made)
      BY <1>0, <2>3
    <3> QED
      BY <2>2, <3>1, <1>0, TreesType, TreesSuffice
  <2>4. CASE \E k \in DOMAIN lowers : \E part \in SUBSET FilesIn(Mkdirs(both), lowers[k]) :
                disk' = CopyPart(CopyLowers(Mkdirs(both), Merged(i), SubSeq(lowers, 1, k - 1)),
                                 Merged(i), lowers[k], part)
    <3>0. PICK k \in DOMAIN lowers : \E part \in SUBSET FilesIn(Mkdirs(both), lowers[k]) :
                disk' = CopyPart(CopyLowers(Mkdirs(both), Merged(i), SubSeq(lowers, 1, k - 1)),
                                 Merged(i), lowers[k], part)
      BY <2>4
    <3>1. PICK part \in SUBSET FilesIn(Mkdirs(both), lowers[k]) :
                disk' = CopyPart(CopyLowers(Mkdirs(both), Merged(i), SubSeq(lowers, 1, k - 1)),
                                 Merged(i), lowers[k], part)
      BY <3>0
    <3>2. k \in 1..Len(lowers) /\ Len(lowers) \in Nat /\ lowers[k] \in Dir
      BY LenProperties, ElementOfSeq
    <3>3. SubSeq(lowers, 1, k - 1) \in Seq(Dir)
      BY <3>2, SubSeqProperties, ElementOfSeq
    <3>4. disk' \in [DOMAIN disk \cup both -> Tree]
      <4> HIDE DEF i, both
      <4> QED
        BY <1>0, <3>1, <3>2, <3>3, TreesType
    <3> QED
      BY <2>2, <3>4, <1>0, TreesSuffice
  <2> QED
    BY <1>3, <2>3, <2>4 DEF PrepareError
<1> QED
  BY <1>1, <1>2, <1>3

\* An instruction that writes below a merged directory that is mounted.
LEMMA WriteType ==
    ASSUME RootFSTypeOK, NEW m \in DOMAIN mounts, NEW effect \in Effect,
           WriteMerged(m, effect), UNCHANGED mounts
    PROVE  RootFSTypeOK'
<1> DEFINE target == IF mounts[m].overlay THEN mounts[m].upper ELSE m
           tree == [n \in Name |->
                     CASE effect[n] = Keep   -> disk[target][n]
                       [] effect[n] = Absent ->
                            IF mounts[m].overlay
                               /\ Leftmost(disk, mounts[m].lowers, n) \notin {Absent, Whiteout}
                            THEN Whiteout ELSE Absent
                       [] OTHER              -> effect[n]]
<1>1. disk' = [disk EXCEPT ![target] = tree]
  BY DEF WriteMerged
<1>2. target \in DOMAIN disk => tree \in Tree
  BY DEF Tree, Effect, RootFSTypeOK
<1> HIDE DEF tree, target
<1>3. DOMAIN disk' = DOMAIN disk /\ disk' \in [DOMAIN disk -> Tree]
  BY <1>1, <1>2 DEF RootFSTypeOK
<1> QED
  BY <1>3 DEF RootFSTypeOK

\* Manager.Cleanup, its two halves together.
LEMMA CleanupType ==
    ASSUME RootFSTypeOK, NEW m, NEW i, NEW mergedStays,
           ForgetMount(m), RemoveLayerDir(i, mergedStays)
    PROVE  RootFSTypeOK'
BY DEF RootFSTypeOK, ForgetMount, RemoveLayerDir, Restrict
=============================================================================
