---------------------------- MODULE Layers_proofs ----------------------------
(***************************************************************************)
(* For any number of writers and pooled objects, any trees, and wherever a *)
(* writer fails: no pooled object has two users (PoolInv), a blob's names  *)
(* are its digests (BlobInv), a layer shows what the upper directory said  *)
(* when it was read (LayerInv), and everything has its type (TypeInv).     *)
(* Between them, of DiffTwoDirs alone: what it returns makes of the names  *)
(* its walks have found in the old tree what they are in the new one.      *)
(***************************************************************************)
EXTENDS Layers, SequenceLemmas, FiniteSetTheorems

Steps   == {"diff", "create", "open", "entry", "body", "copy", "gzclose",
            "flush", "sum", "put", "return", "rename", "done", "failed"}
Working == {"entry", "body", "copy", "gzclose", "flush", "sum", "put", "return"}

\* w uses o in role r: after GiveBack only its copy buffer
Uses(w, r, o) ==
    /\ w \in using /\ r \in Roles
    /\ held[w][r] = o
    /\ r = "large" \/ pc[w] # "return"

\* an object of the right pool in every role
Taken(h) == /\ h["uncomp"] \in Hashes /\ h["comp"] \in Hashes /\ h["gz"] \in Gzips
            /\ h["buf"] \in Bufs /\ h["large"] \in Larges

\* the types, and using is exactly the writers between Open and the last return
Bookkeeping ==
    /\ pooled \in [Objects -> {0, 1}]
    /\ held \in [Writers -> [Roles -> Objects \cup {Nothing}]]
    /\ pc \in [Writers -> Steps]
    /\ using = {w \in Writers : pc[w] \in Working}
    /\ \A w \in using : Taken(held[w])

\* an object has one user, in one role
OneUser ==
    \A o \in Objects, w, v \in Writers, r, q \in Roles :
        Uses(w, r, o) /\ Uses(v, q, o) => w = v /\ r = q

\* an object in use is not in its pool
NotPooled == \A o \in Objects, w \in Writers, r \in Roles : Uses(w, r, o) => pooled[o] = 0

\* the inductive invariant behind NeverShared
PoolInv == Bookkeeping /\ OneUser /\ NotPooled

-----------------------------------------------------------------------------

\* The invariant says of each object what NeverShared counts.
LEMMA CountsAreSmall ==
    ASSUME PoolInv PROVE NeverShared
<1> SUFFICES ASSUME NEW o \in Objects
             PROVE  pooled[o] + Cardinality(InUse(o)) <= 1
  BY DEF NeverShared
<1>1. \A u \in InUse(o) : /\ u = <<u[1], u[2]>> /\ u[1] \in Writers /\ u[2] \in Roles
                          /\ Uses(u[1], u[2], o)
  BY DEF InUse, Uses, PoolInv, Bookkeeping
<1>2. pooled[o] \in {0, 1}
  BY DEF PoolInv, Bookkeeping
<1>3. CASE InUse(o) = {}
  BY <1>2, <1>3, FS_EmptySet
<1>4. CASE InUse(o) # {}
  <2>1. PICK u \in InUse(o) : TRUE
    BY <1>4
  <2>2. InUse(o) = {u}
    BY <1>1 DEF PoolInv, OneUser
  <2>3. pooled[o] = 0
    BY <1>1 DEF PoolInv, NotPooled
  <2>4. Cardinality(InUse(o)) = 1
    BY <2>2, FS_Singleton
  <2> QED
    BY <2>3, <2>4
<1> QED
  BY <1>3, <1>4

\* The invariant holds before anyone has taken an object.
LEMMA PoolInvInit == ASSUME Init PROVE PoolInv
BY DEF Init, PoolsInit, PoolInv, Bookkeeping, OneUser, NotPooled, Uses, Steps, Working, Taken

\* A step that takes and gives nothing, and does not enter or leave "return".
LEMMA NothingMoves ==
    ASSUME PoolInv, UNCHANGED <<pooled, using, held>>, pc' \in [Writers -> Steps],
           \A v \in Writers : /\ pc'[v] \in Working <=> pc[v] \in Working
                              /\ pc'[v] = "return" <=> pc[v] = "return"
    PROVE  PoolInv'
<1>1. Bookkeeping'
  BY DEF PoolInv, Bookkeeping, Taken
<1>2. \A v \in Writers, q \in Roles, o \in Objects : Uses(v, q, o)' => Uses(v, q, o)
  BY DEF Uses
<1> QED
  BY <1>1, <1>2 DEF PoolInv, OneUser, NotPooled

\* A step in which w gives back what it has in some roles, and ends its use.
LEMMA GivesBack ==
    ASSUME PoolInv, NEW w \in using, NEW S \in SUBSET Roles, Put(w, S), held' = held,
           \A r \in S : r = "large" \/ pc[w] # "return",
           \A v \in Writers, q \in Roles, o \in Objects :
               Uses(v, q, o)' => Uses(v, q, o) /\ ~(v = w /\ q \in S)
    PROVE  /\ pooled' \in [Objects -> {0, 1}]
           /\ OneUser' /\ NotPooled'
<1>0. w \in Writers
  BY DEF PoolInv, Bookkeeping
<1>1. OneUser'
  BY DEF OneUser, PoolInv
<1>2. ASSUME NEW o \in Objects
      PROVE  /\ pooled'[o] \in {0, 1}
             /\ \A v \in Writers, q \in Roles : Uses(v, q, o)' => pooled'[o] = 0
  <2> DEFINE R == {r \in S : held[w][r] = o}
  <2>1. pooled'[o] = pooled[o] + Cardinality(R) /\ pooled[o] \in {0, 1}
    BY DEF Put, PoolInv, Bookkeeping
  <2>2. \A r \in R : r \in Roles /\ Uses(w, r, o)
    BY DEF Uses
  <2> HIDE DEF R
  <2>3. CASE R = {}
    <3>1. pooled'[o] = pooled[o]
      BY <2>1, <2>3, FS_EmptySet
    <3> QED
      BY <2>1, <3>1 DEF PoolInv, NotPooled
  <2>4. CASE R # {}
    <3>1. PICK r \in R : TRUE
      BY <2>4
    <3>2. R = {r}
      BY <1>0, <2>2 DEF PoolInv, OneUser
    <3>3. pooled[o] = 0
      BY <1>0, <2>2, <3>1 DEF PoolInv, NotPooled
    <3>4. pooled'[o] = 1
      <4>1. Cardinality(R) = 1
        BY <3>2, FS_Singleton
      <4> QED
        BY <2>1, <3>3, <4>1
    <3>5. \A v \in Writers, q \in Roles : ~ Uses(v, q, o)'
      <4>1. r \in S
        BY <3>1 DEF R
      <4>2. r \in Roles /\ Uses(w, r, o)
        BY <2>2, <3>1
      <4>3. ASSUME NEW v \in Writers, NEW q \in Roles, Uses(v, q, o)'
            PROVE  FALSE
        <5>1. Uses(v, q, o) /\ ~(v = w /\ q \in S)
          BY <4>3
        <5>2. w = v /\ r = q
          BY <1>0, <4>2, <5>1 DEF PoolInv, OneUser
        <5> QED
          BY <4>1, <5>1, <5>2
      <4> QED
        BY <4>3
    <3> QED
      BY <3>4, <3>5
  <2> QED
    BY <2>3, <2>4
<1>3. pooled' \in [Objects -> {0, 1}]
  <2>1. pooled' = [o \in Objects |-> pooled'[o]]
    BY DEF Put
  <2> QED
    BY <1>2, <2>1
<1> QED
  BY <1>1, <1>2, <1>3 DEF NotPooled

-----------------------------------------------------------------------------
(* Open: what the pools hand out, nobody uses.                             *)

\* An object nobody can reach has no user.
LEMMA UnreachableIsUnused ==
    ASSUME PoolInv, NEW o \in Objects, ~Reachable(o)
    PROVE  \A v \in Writers, q \in Roles : ~Uses(v, q, o)
BY DEF Reachable, Range, Uses, PoolInv, Bookkeeping

\* An object in its pool has no user.
LEMMA PooledIsUnused ==
    ASSUME PoolInv, NEW o \in Objects, pooled[o] > 0
    PROVE  \A v \in Writers, q \in Roles : ~Uses(v, q, o)
BY DEF PoolInv, NotPooled, Bookkeeping

\* What a Get of a pool gives has no user.
LEMMA Obtained ==
    ASSUME PoolInv, NEW pool \in SUBSET Objects, NEW o \in Obtainable(pool)
    PROVE  o \in pool /\ \A v \in Writers, q \in Roles : ~Uses(v, q, o)
BY UnreachableIsUnused, PooledIsUnused DEF Obtainable

\* So do the two hashes of one Get.
LEMMA ObtainedPair ==
    ASSUME PoolInv, NEW pool \in SUBSET Objects, NEW p \in ObtainablePairs(pool)
    PROVE  /\ p[1] \in pool /\ p[2] \in pool /\ p[1] # p[2]
           /\ \A v \in Writers, q \in Roles : ~Uses(v, q, p[1]) /\ ~Uses(v, q, p[2])
<1>1. p[1] \in Obtainable(pool) /\ p[2] \in pool
  BY DEF ObtainablePairs, Obtainable
<1>2. p[1] \in pool /\ \A v \in Writers, q \in Roles : ~Uses(v, q, p[1])
  BY <1>1, Obtained
<1>3. pooled[p[1]] \in {0, 1}
  BY <1>2 DEF PoolInv, Bookkeeping
<1>4. p[1] # p[2] /\ (pooled[p[2]] > 0 \/ ~Reachable(p[2]))
  BY <1>3 DEF ObtainablePairs
<1>5. \A v \in Writers, q \in Roles : ~Uses(v, q, p[2])
  BY <1>1, <1>4, UnreachableIsUnused, PooledIsUnused
<1> QED
  BY <1>1, <1>2, <1>4, <1>5

\* Open keeps the invariant: what it takes had no user.
LEMMA Opens ==
    ASSUME PoolInv, NEW w \in Writers, Open(w)
    PROVE  PoolInv'
<1>1. PICK b \in Obtainable(Bufs), g \in Obtainable(Gzips), l \in Obtainable(Larges),
           h \in ObtainablePairs(Hashes) :
        Take(w, [buf |-> b, comp |-> h[1], gz |-> g, uncomp |-> h[2], large |-> l])
  BY DEF Open, NewStreamingPipeline
<1> DEFINE t == [buf |-> b, comp |-> h[1], gz |-> g, uncomp |-> h[2], large |-> l]
           T(o) == {r \in Roles : t[r] = o /\ pooled[o] > 0}
<1>2. /\ b \in Bufs /\ g \in Gzips /\ l \in Larges
      /\ h[1] \in Hashes /\ h[2] \in Hashes /\ h[1] # h[2]
  BY Obtained, ObtainedPair DEF Objects
<1>3. /\ \A r \in Roles : t[r] \in Objects
      /\ \A r, q \in Roles : t[r] = t[q] => r = q
  BY <1>2, PoolsDiffer DEF Roles, Objects
<1>4. \A r \in Roles, v \in Writers, q \in Roles : ~Uses(v, q, t[r])
  <2>1. \A v \in Writers, q \in Roles :
            ~Uses(v, q, b) /\ ~Uses(v, q, g) /\ ~Uses(v, q, l)
    BY Obtained DEF Objects
  <2>2. \A v \in Writers, q \in Roles : ~Uses(v, q, h[1]) /\ ~Uses(v, q, h[2])
    BY ObtainedPair DEF Objects
  <2> QED
    BY <2>1, <2>2 DEF Roles
<1>5. /\ t \in [Roles -> Objects \cup {Nothing}]
      /\ Taken(t)
  BY <1>2, <1>3 DEF Roles, Taken
<1>6. /\ held' = [held EXCEPT ![w] = t]
      /\ using' = using \cup {w}
      /\ pooled' = [o \in Objects |-> pooled[o] - Cardinality(T(o))]
  BY <1>1 DEF Take
<1>7. pc[w] = "open" /\ pc' = [pc EXCEPT ![w] = "entry"]
  BY DEF Open, Goto
<1> HIDE DEF t
<1>8. ASSUME NEW o \in Objects
      PROVE  /\ pooled'[o] \in {0, 1}
             /\ pooled'[o] > 0 => pooled[o] > 0 /\ \A r \in Roles : t[r] # o
  <2>1. pooled'[o] = pooled[o] - Cardinality(T(o)) /\ pooled[o] \in {0, 1}
    BY <1>6 DEF PoolInv, Bookkeeping
  <2>2. CASE T(o) = {}
    <3>1. Cardinality(T(o)) = 0
      BY <2>2, FS_EmptySet
    <3> QED
      BY <2>1, <2>2, <3>1
  <2>3. CASE T(o) # {}
    <3>1. PICK r \in T(o) : TRUE
      BY <2>3
    <3>2. T(o) = {r}
      BY <1>3
    <3>3. Cardinality(T(o)) = 1
      BY <3>2, FS_Singleton
    <3>4. pooled[o] = 1
      BY <2>1, <3>1
    <3> QED
      BY <2>1, <3>3, <3>4
  <2> QED
    BY <2>2, <2>3
<1>9. \A v \in Writers, q \in Roles, o \in Objects :
          Uses(v, q, o)' => IF v = w THEN t[q] = o ELSE Uses(v, q, o)
  BY <1>6, <1>7 DEF Uses, PoolInv, Bookkeeping
<1>10. Bookkeeping'
  <2>1. pooled' \in [Objects -> {0, 1}]
    BY <1>6, <1>8
  <2>2. held' \in [Writers -> [Roles -> Objects \cup {Nothing}]]
    BY <1>5, <1>6 DEF PoolInv, Bookkeeping
  <2>3. pc' \in [Writers -> Steps]
    BY <1>7 DEF PoolInv, Bookkeeping, Steps
  <2>4. using' = {v \in Writers : pc'[v] \in Working}
    BY <1>6, <1>7 DEF PoolInv, Bookkeeping, Working
  <2>5. \A v \in using' : Taken(held'[v])
    BY <1>5, <1>6 DEF PoolInv, Bookkeeping
  <2> QED
    BY <2>1, <2>2, <2>3, <2>4, <2>5 DEF Bookkeeping
<1>11. OneUser'
  BY <1>3, <1>4, <1>9 DEF PoolInv, OneUser
<1>12. NotPooled'
  <2> SUFFICES ASSUME NEW o \in Objects, NEW v \in Writers, NEW q \in Roles, Uses(v, q, o)'
               PROVE  pooled'[o] = 0
    BY DEF NotPooled
  <2>1. ~(pooled'[o] > 0)
    BY <1>8, <1>9 DEF PoolInv, NotPooled
  <2> QED
    BY <1>8, <2>1
<1> QED
  BY <1>10, <1>11, <1>12 DEF PoolInv

-----------------------------------------------------------------------------
(* The other actions.                                                      *)

\* Close gives back all but the copy buffer.
LEMMA ClosesPipeline ==
    ASSUME PoolInv, NEW w \in Writers, GiveBack(w)
    PROVE  PoolInv'
<1>1. /\ pc[w] = "put" /\ Put(w, Roles \ {"large"})
      /\ pc' = [pc EXCEPT ![w] = "return"] /\ UNCHANGED <<using, held>>
  BY DEF GiveBack, PutAll, Goto
<1>2. w \in using
  BY <1>1 DEF PoolInv, Bookkeeping, Working
<1>3. \A v \in Writers, q \in Roles, o \in Objects :
          Uses(v, q, o)' => Uses(v, q, o) /\ ~(v = w /\ q \in Roles \ {"large"})
  BY <1>1 DEF Uses, PoolInv, Bookkeeping
<1>4. pooled' \in [Objects -> {0, 1}] /\ OneUser' /\ NotPooled'
  BY <1>1, <1>2, <1>3, GivesBack
<1>5. Bookkeeping'
  BY <1>1, <1>4 DEF PoolInv, Bookkeeping, Working, Steps, Taken
<1> QED
  BY <1>4, <1>5 DEF PoolInv

\* WriteTarLayer returns, after an error or without one: of all w held only
\* the copy buffer goes back, and nothing of w is used any more.
LEMMA LeavesPipeline ==
    ASSUME PoolInv, NEW w \in Writers, pc[w] \in Working, PutLargeBuffer(w), held' = held,
           NEW s \in Steps \ Working, pc' = [pc EXCEPT ![w] = s]
    PROVE  PoolInv'
<1>1. w \in using /\ Put(w, {"large"}) /\ using' = using \ {w}
  BY DEF PutLargeBuffer, PoolInv, Bookkeeping
<1>2. \A v \in Writers, q \in Roles, o \in Objects :
          Uses(v, q, o)' => Uses(v, q, o) /\ ~(v = w /\ q \in {"large"})
  BY <1>1 DEF Uses, PoolInv, Bookkeeping
<1>3. {"large"} \in SUBSET Roles
  BY DEF Roles
<1>4. pooled' \in [Objects -> {0, 1}] /\ OneUser' /\ NotPooled'
  BY <1>1, <1>2, <1>3, GivesBack
<1>5. Bookkeeping'
  BY <1>1, <1>4 DEF PoolInv, Bookkeeping, Taken
<1> QED
  BY <1>4, <1>5 DEF PoolInv

\* Each step keeps the invariant: Open and GiveBack move objects, no other step does.
LEMMA PoolInvNext ==
    ASSUME PoolInv, [Next]_vars
    PROVE  PoolInv'
<1>1. CASE UNCHANGED vars
  <2>1. UNCHANGED <<pooled, using, held>> /\ pc' = pc
    BY <1>1 DEF vars, poolVars, snapshotVars
  <2> QED
    BY <2>1, NothingMoves DEF PoolInv, Bookkeeping
<1>2. ASSUME NEW w \in Writers, Leftover(w) PROVE PoolInv'
  <2>1. UNCHANGED <<pooled, using, held>> /\ pc' = pc
    BY <1>2 DEF Leftover, poolVars, snapshotVars
  <2> QED
    BY <2>1, NothingMoves DEF PoolInv, Bookkeeping
<1>3. ASSUME NEW w \in Writers, Snapshot(w) PROVE PoolInv'
  <2>0. pc \in [Writers -> Steps]
    BY DEF PoolInv, Bookkeeping
  <2> DEFINE Idle(from, to) == /\ UNCHANGED <<pooled, using, held>>
                               /\ pc[w] = from /\ pc' = [pc EXCEPT ![w] = to]
  <2>1. ASSUME NEW from \in Steps \ {"return"}, NEW to \in Steps \ {"return"},
               from \in Working <=> to \in Working, Idle(from, to)
        PROVE  PoolInv'
    <3>1. pc' \in [Writers -> Steps]
      BY <2>0, <2>1
    <3>2. \A v \in Writers : /\ pc'[v] \in Working <=> pc[v] \in Working
                             /\ pc'[v] = "return" <=> pc[v] = "return"
      BY <2>0, <2>1
    <3> QED
      BY <2>1, <3>1, <3>2, NothingMoves
  <2>2. CASE Diff(w)
    <3>1. Idle("diff", "create")
      BY <2>2 DEF Diff, Goto, poolVars
    <3> QED
      BY <2>1, <3>1 DEF Steps, Working
  <2>3. CASE CreateTemp(w)
    <3>1. Idle("create", "open")
      BY <2>3 DEF CreateTemp, Goto, poolVars
    <3> QED
      BY <2>1, <3>1 DEF Steps, Working
  <2>4. CASE EarlyError(w)
    <3>1. Idle("diff", "failed") \/ Idle("create", "failed")
      BY <2>4 DEF EarlyError, Goto, poolVars
    <3> QED
      BY <2>1, <3>1 DEF Steps, Working
  <2>5. CASE Open(w)
    BY <2>5, Opens
  <2>6. CASE SkipChange(w)
    <3>1. UNCHANGED <<pooled, using, held>> /\ pc' = pc
      BY <2>6 DEF SkipChange, poolVars
    <3> QED
      BY <2>0, <3>1, NothingMoves
  <2>7. CASE WriteHeader(w)
    <3>1. Idle("entry", "body") \/ (UNCHANGED <<pooled, using, held>> /\ pc' = pc)
      BY <2>7 DEF WriteHeader, More, Write, Goto
    <3>2. CASE Idle("entry", "body")
      BY <2>1, <3>2 DEF Steps, Working
    <3>3. CASE UNCHANGED <<pooled, using, held>> /\ pc' = pc
      BY <2>0, <3>3, NothingMoves
    <3> QED
      BY <3>1, <3>2, <3>3
  <2>8. CASE OpenFile(w) \/ EndCopy(w)
    <3>1. Idle("body", "copy") \/ Idle("copy", "entry")
      BY <2>8 DEF OpenFile, EndCopy, Goto, poolVars
    <3> QED
      BY <2>1, <3>1 DEF Steps, Working
  <2>17. CASE CopyBlock(w)
    <3>1. UNCHANGED <<pooled, using, held>> /\ pc' = pc
      BY <2>17 DEF CopyBlock, Write
    <3> QED
      BY <2>0, <3>1, NothingMoves
  <2>9. CASE CloseTar(w)
    <3>1. Idle("entry", "gzclose")
      BY <2>9 DEF CloseTar, Write, Goto
    <3> QED
      BY <2>1, <3>1 DEF Steps, Working
  <2>10. CASE FinishGzip(w)
    <3>1. Idle("gzclose", "flush")
      BY <2>10 DEF FinishGzip, CloseGzip, Goto
    <3> QED
      BY <2>1, <3>1 DEF Steps, Working
  <2>11. CASE FinishBuf(w)
    <3>1. Idle("flush", "sum")
      BY <2>11 DEF FinishBuf, Flush, Goto
    <3> QED
      BY <2>1, <3>1 DEF Steps, Working
  <2>12. CASE Sum(w)
    <3>1. Idle("sum", "put")
      BY <2>12 DEF Sum, Goto, poolVars
    <3> QED
      BY <2>1, <3>1 DEF Steps, Working
  <2>13. CASE GiveBack(w)
    BY <2>13, ClosesPipeline
  <2>14. CASE Return(w)
    <3>1. /\ pc[w] \in Working /\ PutLargeBuffer(w) /\ held' = held
          /\ pc' = [pc EXCEPT ![w] = "rename"]
      BY <2>14 DEF Return, Goto, Working
    <3>2. "rename" \in Steps \ Working
      BY DEF Steps, Working
    <3> QED
      BY <3>1, <3>2, LeavesPipeline
  <2>15. CASE WriteError(w)
    <3>1. /\ pc[w] \in Working /\ PutLargeBuffer(w) /\ held' = held
          /\ pc' = [pc EXCEPT ![w] = "failed"]
      BY <2>15 DEF WriteError, Goto, Working
    <3>2. "failed" \in Steps \ Working
      BY DEF Steps, Working
    <3> QED
      BY <3>1, <3>2, LeavesPipeline
  <2>16. CASE Rename(w)
    <3>1. Idle("rename", "done")
      BY <2>16 DEF Rename, Goto
    <3> QED
      BY <2>1, <3>1 DEF Steps, Working
  <2> QED
    BY <1>3, <2>2, <2>3, <2>4, <2>5, <2>6, <2>7, <2>8, <2>9, <2>10, <2>11, <2>12, <2>13,
       <2>14, <2>15, <2>16, <2>17 DEF Snapshot
<1> QED
  BY <1>1, <1>2, <1>3 DEF Next

\* In every run of any number of writers over pools of any size, an object
\* has at most one user and is never pooled while it has one: Close, the
\* deferred PutLargeBuffer and every error return give back at most once.
THEOREM PoolsAreSafe == Spec => []NeverShared
<1>1. Init => PoolInv
  BY PoolInvInit
<1>2. PoolInv /\ [Next]_vars => PoolInv'
  BY PoolInvNext
<1>3. PoolInv => NeverShared
  BY CountsAreSmall
<1> QED
  BY <1>1, <1>2, <1>3, PTL DEF Spec

-----------------------------------------------------------------------------
(* What a pipeline carries.                                                *)

\* a sequence, of whatever
IsSeq(s) == s \in Seq(Range(s))

\* A sequence over a set is a sequence.
LEMMA SeqIsSeq == ASSUME NEW S, NEW s \in Seq(S) PROVE IsSeq(s)
<1>1. \A i \in DOMAIN s : s[i] \in Range(s)
  BY DEF Range
<1> QED
  BY <1>1 DEF IsSeq

\* Concatenation under a name: the provers then reason by the facts below.
Cat(s, t) == s \o t

\* Gzip keeps the number of pieces and changes each alone.
LEMMA GzipFacts ==
    ASSUME NEW S, NEW s \in Seq(S)
    PROVE  /\ Gzip(s) \in Seq({[gzip |-> x] : x \in S})
           /\ DOMAIN Gzip(s) = 1..Len(s) /\ Len(Gzip(s)) = Len(s)
           /\ \A i \in 1..Len(s) : Gzip(s)[i] = [gzip |-> s[i]]
<1> DEFINE Z == {[gzip |-> x] : x \in S}
<1>1. /\ DOMAIN Gzip(s) = 1..Len(s)
      /\ \A i \in 1..Len(s) : Gzip(s)[i] = [gzip |-> s[i]]
      /\ Gzip(s) = [i \in 1..Len(s) |-> Gzip(s)[i]]
  BY DEF Gzip
<1>2. \A i \in 1..Len(s) : Gzip(s)[i] \in Z
  BY <1>1
<1> HIDE DEF Z
<1>3. Gzip(s) \in [1..Len(s) -> Z] /\ Len(s) \in Nat
  BY <1>1, <1>2
<1>4. Gzip(s) \in Seq(Z)
  BY <1>3
<1>5. Len(Gzip(s)) = Len(s)
  BY <1>1, <1>3, <1>4
<1> QED
  BY <1>1, <1>4, <1>5 DEF Z

\* A concatenation has the elements of one and then those of the other.
LEMMA ConcatFacts ==
    ASSUME NEW s, NEW t, IsSeq(s), IsSeq(t)
    PROVE  /\ IsSeq(Cat(s, t))
           /\ Gzip(Cat(s, t)) = Cat(Gzip(s), Gzip(t))
           /\ IsSeq(Gzip(s))
<1> DEFINE S == Range(s) \cup Range(t)
           Z == {[gzip |-> x] : x \in S}
           st == Cat(s, t)
           g  == Cat(Gzip(s), Gzip(t))
<1>1. s \in Seq(S) /\ t \in Seq(S) /\ st \in Seq(S) /\ Len(st) = Len(s) + Len(t)
  BY DEF IsSeq, Cat
<1>2. \A i \in 1..(Len(s) + Len(t)) : st[i] = IF i <= Len(s) THEN s[i] ELSE t[i - Len(s)]
  BY <1>1 DEF Cat
<1> HIDE DEF S, st
<1>3. IsSeq(st)
  BY <1>1, SeqIsSeq
<1>4. /\ Gzip(s) \in Seq(Z) /\ Gzip(t) \in Seq(Z) /\ Gzip(st) \in Seq(Z)
      /\ Len(Gzip(s)) = Len(s) /\ Len(Gzip(t)) = Len(t) /\ Len(Gzip(st)) = Len(s) + Len(t)
      /\ \A i \in 1..Len(s) : Gzip(s)[i] = [gzip |-> s[i]]
      /\ \A i \in 1..Len(t) : Gzip(t)[i] = [gzip |-> t[i]]
      /\ \A i \in 1..(Len(s) + Len(t)) : Gzip(st)[i] = [gzip |-> st[i]]
  BY <1>1, GzipFacts
<1> HIDE DEF Z
<1>5. g \in Seq(Z) /\ Len(g) = Len(s) + Len(t)
  BY <1>4 DEF Cat
<1>6. \A i \in 1..(Len(s) + Len(t)) :
          g[i] = IF i <= Len(s) THEN Gzip(s)[i] ELSE Gzip(t)[i - Len(s)]
  BY <1>4 DEF Cat
<1>7. Len(s) \in Nat /\ Len(t) \in Nat
  BY <1>1
<1> HIDE DEF g
<1>8. ASSUME NEW i \in 1..(Len(s) + Len(t)) PROVE Gzip(st)[i] = g[i]
  <2>1. CASE i <= Len(s)
    BY <1>2, <1>4, <1>6, <1>7, <2>1
  <2>2. CASE ~(i <= Len(s))
    <3>1. i - Len(s) \in 1..Len(t)
      BY <1>7, <2>2
    <3> QED
      BY <1>2, <1>4, <1>6, <2>2, <3>1
  <2> QED
    BY <2>1, <2>2
<1>9. Gzip(st) = g
  BY <1>4, <1>5, <1>8, SeqEqual
<1>10. IsSeq(Gzip(s))
  BY <1>4, SeqIsSeq
<1> QED
  BY <1>3, <1>9, <1>10 DEF st, g

\* Concatenation is associative.
LEMMA ConcatAssoc ==
    ASSUME NEW r, NEW s, NEW t, IsSeq(r), IsSeq(s), IsSeq(t)
    PROVE  Cat(Cat(r, s), t) = Cat(r, Cat(s, t))
<1> DEFINE S == Range(r) \cup Range(s) \cup Range(t)
<1>1. r \in Seq(S) /\ s \in Seq(S) /\ t \in Seq(S)
  BY DEF IsSeq
<1> HIDE DEF S
<1> QED
  BY <1>1 DEF Cat

\* The empty sequence and the trailer.
LEMMA EmptyFacts ==
    /\ IsSeq(<<>>) /\ Gzip(<<>>) = <<>> /\ IsSeq(<<Trailer>>)
    /\ \A s : IsSeq(s) => Cat(s, <<>>) = s
<1>1. \A s : IsSeq(s) => Cat(s, <<>>) = s
  BY DEF IsSeq, Cat
<1>2. Gzip(<<>>) = <<>>
  BY DEF Gzip
<1>3. <<>> \in Seq({Trailer}) /\ <<Trailer>> \in Seq({Trailer})
  OBVIOUS
<1> QED
  BY <1>1, <1>2, <1>3, SeqIsSeq

\* What has been hashed above, hashed below, and is held back by gzip and by
\* bufio, and what has come to the file, while the tar is written ...
Carries(u, c, g, b, f) ==
    /\ IsSeq(u) /\ IsSeq(c) /\ IsSeq(g) /\ IsSeq(b) /\ IsSeq(f)
    /\ c = Cat(f, b)
    /\ Cat(c, Gzip(g)) = Gzip(u)

\* ... and once gzip has been closed.
Carried(u, c, b, f) ==
    /\ IsSeq(u) /\ IsSeq(c) /\ IsSeq(b) /\ IsSeq(f)
    /\ c = Cat(f, b)
    /\ c = Cat(Gzip(u), <<Trailer>>)

\* What gzip keeps to itself leaves the pipe carrying what was written.
LEMMA GzipKeeps ==
    ASSUME NEW u, NEW c, NEW g, NEW b, NEW f, Carries(u, c, g, b, f), NEW x, IsSeq(x)
    PROVE  Carries(Cat(u, x), c, Cat(g, x), b, f)
<1>1. IsSeq(Cat(u, x)) /\ IsSeq(Cat(g, x)) /\ IsSeq(Gzip(g)) /\ IsSeq(Gzip(x))
  BY ConcatFacts DEF Carries
<1>2. Gzip(Cat(g, x)) = Cat(Gzip(g), Gzip(x)) /\ Gzip(Cat(u, x)) = Cat(Gzip(u), Gzip(x))
  BY ConcatFacts DEF Carries
<1>3. Cat(Cat(c, Gzip(g)), Gzip(x)) = Cat(c, Cat(Gzip(g), Gzip(x)))
  BY <1>1, ConcatAssoc DEF Carries
<1> QED
  BY <1>1, <1>2, <1>3 DEF Carries

\* bufio keeps what comes, or all goes to the file
LEMMA BufferOrFile ==
    ASSUME NEW c, NEW b, NEW f, IsSeq(c), IsSeq(b), IsSeq(f), c = Cat(f, b), NEW out, IsSeq(out)
    PROVE  /\ IsSeq(Cat(c, out)) /\ IsSeq(Cat(b, out)) /\ IsSeq(Cat(Cat(f, b), out))
           /\ Cat(c, out) = Cat(f, Cat(b, out))
           /\ Cat(c, out) = Cat(Cat(Cat(f, b), out), <<>>)
BY ConcatFacts, ConcatAssoc, EmptyFacts

\* So does what it gives out.
LEMMA GzipGivesOut ==
    ASSUME NEW u, NEW c, NEW g, NEW b, NEW f, Carries(u, c, g, b, f), NEW x, IsSeq(x)
    PROVE  LET out == Gzip(Cat(g, x))
           IN  /\ Carries(Cat(u, x), Cat(c, out), <<>>, Cat(b, out), f)
               /\ Carries(Cat(u, x), Cat(c, out), <<>>, <<>>, Cat(Cat(f, b), out))
<1> DEFINE out == Gzip(Cat(g, x))
<1>1. Carries(Cat(u, x), c, Cat(g, x), b, f)
  BY GzipKeeps
<1>2. IsSeq(Cat(g, x)) /\ Cat(c, out) = Gzip(Cat(u, x)) /\ IsSeq(Cat(u, x))
  BY <1>1 DEF Carries
<1>3. IsSeq(out)
  BY <1>2, ConcatFacts
<1> HIDE DEF out
<1>4. /\ IsSeq(Cat(c, out)) /\ IsSeq(Cat(b, out)) /\ IsSeq(Cat(Cat(f, b), out))
      /\ Cat(c, out) = Cat(f, Cat(b, out))
      /\ Cat(c, out) = Cat(Cat(Cat(f, b), out), <<>>)
  BY <1>3, BufferOrFile DEF Carries
<1>5. IsSeq(<<>>) /\ Cat(Cat(c, out), Gzip(<<>>)) = Cat(c, out)
  BY <1>4, EmptyFacts
<1>6. IsSeq(f)
  BY DEF Carries
<1> QED
  BY <1>2, <1>4, <1>5, <1>6 DEF Carries, out

\* Closed, gzip has given out everything and its trailer.
LEMMA GzipCloses ==
    ASSUME NEW u, NEW c, NEW g, NEW b, NEW f, Carries(u, c, g, b, f)
    PROVE  LET out == Cat(Gzip(g), <<Trailer>>)
           IN  /\ Carried(u, Cat(c, out), Cat(b, out), f)
               /\ Carried(u, Cat(c, out), <<>>, Cat(Cat(f, b), out))
<1> DEFINE out == Cat(Gzip(g), <<Trailer>>)
<1>1. IsSeq(Gzip(g)) /\ IsSeq(<<Trailer>>)
  BY ConcatFacts, EmptyFacts DEF Carries
<1>2. IsSeq(out)
  BY <1>1, ConcatFacts
<1>3. Cat(c, out) = Cat(Gzip(u), <<Trailer>>)
  BY <1>1, ConcatAssoc DEF Carries
<1> HIDE DEF out
<1>4. /\ IsSeq(Cat(c, out)) /\ IsSeq(Cat(b, out)) /\ IsSeq(Cat(Cat(f, b), out))
      /\ Cat(c, out) = Cat(f, Cat(b, out))
      /\ Cat(c, out) = Cat(Cat(Cat(f, b), out), <<>>)
  BY <1>2, BufferOrFile DEF Carries
<1> QED
  BY <1>3, <1>4, EmptyFacts DEF Carries, Carried, out

-----------------------------------------------------------------------------
(* The blob under a digest.                                                *)

Writing  == {"entry", "body", "copy", "gzclose", "flush", "sum"}
Returned == {"put", "return", "rename", "done"}

\* The pipeline of a writer leads to its own file and loses nothing.
Flow(w) ==
    LET h == held[w] IN
    /\ gz[h["gz"]].to = w /\ buf[h["buf"]].to = w
    /\ IF pc[w] \in {"entry", "body", "copy", "gzclose"}
       THEN Carries(sum[h["uncomp"]], sum[h["comp"]], gz[h["gz"]].data, buf[h["buf"]].data, file[w])
       ELSE Carried(sum[h["uncomp"]], sum[h["comp"]], buf[h["buf"]].data, file[w])
    /\ pc[w] = "sum" => file[w] = sum[h["comp"]]

\* A layer names its own bytes, and they are in the file until they have a name.
Named(w) ==
    /\ DOMAIN layer[w] = {"diffID", "digest", "renamed"}
    /\ layer[w].digest = Cat(Gzip(layer[w].diffID), <<Trailer>>)
    /\ layer[w].renamed \in BOOLEAN
    /\ pc[w] # "done" => ~layer[w].renamed
    /\ IF layer[w].renamed THEN layer[w].digest \in DOMAIN named
                           ELSE file[w] = layer[w].digest

\* what the hashes and the file of a writer hold at each of its steps
WriterInv(w) ==
    /\ pc[w] \in {"diff", "create", "open"} => file[w] = <<>>
    /\ pc[w] \in Writing => Flow(w)
    /\ pc[w] \in Returned => Named(w)

\* the types the pipes need
Shapes ==
    /\ DOMAIN sum = Hashes /\ DOMAIN gz = Gzips /\ DOMAIN buf = Bufs
    /\ \A g \in Gzips : DOMAIN gz[g] = {"to", "data"}
    /\ \A b \in Bufs : DOMAIN buf[b] = {"to", "data"}
    /\ DOMAIN file = Writers /\ DOMAIN layer = Writers
    /\ Active \subseteq Writers

\* the inductive invariant behind DigestNamesBlob
BlobInv ==
    /\ PoolInv /\ Shapes
    /\ \A w \in Writers : WriterInv(w)
    /\ \A d \in DOMAIN named : named[d] = d

\* The step of another writer: nothing v uses or has made is touched.
Untouched(v) ==
    LET h == held[v] IN
    /\ pc'[v] = pc[v] /\ file'[v] = file[v] /\ layer'[v] = layer[v]
    /\ DOMAIN named \subseteq DOMAIN named'
    /\ pc[v] \in Writing =>
         /\ held'[v] = h
         /\ sum'[h["uncomp"]] = sum[h["uncomp"]] /\ sum'[h["comp"]] = sum[h["comp"]]
         /\ gz'[h["gz"]] = gz[h["gz"]] /\ buf'[h["buf"]] = buf[h["buf"]]

\* A writer whose objects and file stay as they are keeps its invariant.
LEMMA UntouchedKeeps ==
    ASSUME NEW v, WriterInv(v), Untouched(v)
    PROVE  WriterInv(v)'
<1>1. pc[v] \in Writing => Flow(v)'
  BY DEF WriterInv, Untouched, Flow
<1>2. pc[v] \in Returned => Named(v)'
  BY DEF WriterInv, Untouched, Named
<1> QED
  BY <1>1, <1>2 DEF WriterInv, Untouched

\* The objects of a pipeline are of their pools, and no other writer's.
LEMMA OwnObjects ==
    ASSUME PoolInv, NEW w \in Writers, pc[w] \in Writing
    PROVE  /\ Taken(held[w])
           /\ held[w]["uncomp"] # held[w]["comp"]
           /\ \A v \in Writers : v # w /\ pc[v] \in Writing =>
                /\ Taken(held[v])
                /\ held[v]["uncomp"] \notin {held[w]["uncomp"], held[w]["comp"]}
                /\ held[v]["comp"] \notin {held[w]["uncomp"], held[w]["comp"]}
                /\ held[v]["gz"] # held[w]["gz"]
                /\ held[v]["buf"] # held[w]["buf"]
<1>1. ASSUME NEW v \in Writers, pc[v] \in Writing
      PROVE  /\ Taken(held[v])
             /\ \A r \in Roles : held[v][r] \in Objects /\ Uses(v, r, held[v][r])
  <2>1. v \in using /\ pc[v] # "return"
    BY <1>1 DEF PoolInv, Bookkeeping, Writing, Working
  <2>2. Taken(held[v])
    BY <2>1 DEF PoolInv, Bookkeeping
  <2> QED
    BY <2>1, <2>2 DEF Taken, Uses, Roles, Objects
<1>2. "uncomp" \in Roles /\ "comp" \in Roles /\ "gz" \in Roles /\ "buf" \in Roles
  BY DEF Roles
<1>3. ASSUME NEW v \in Writers, pc[v] \in Writing, NEW r \in Roles, NEW q \in Roles,
             held[v][r] = held[w][q]
      PROVE  v = w /\ r = q
  BY <1>1, <1>3 DEF PoolInv, OneUser
<1> QED
  BY <1>1, <1>2, <1>3

\* What changes of the pools' objects and the files belongs to w.
OnlyOwn(w) ==
    LET h == held[w] IN
    /\ \A x \in Hashes : x \notin {h["uncomp"], h["comp"]} => sum'[x] = sum[x]
    /\ \A x \in Gzips : x # h["gz"] => gz'[x] = gz[x]
    /\ \A x \in Bufs : x # h["buf"] => buf'[x] = buf[x]
    /\ \A x \in Writers : x # w => file'[x] = file[x]

\* the domains of the pipes
PipeShapes ==
    /\ DOMAIN sum = Hashes /\ DOMAIN gz = Gzips /\ DOMAIN buf = Bufs
    /\ \A g \in Gzips : DOMAIN gz[g] = {"to", "data"}
    /\ \A b \in Bufs : DOMAIN buf[b] = {"to", "data"}
    /\ DOMAIN file = Writers

\* A write of the tar writer goes into the hash and through gzip.
LEMMA WriteFlow ==
    ASSUME PoolInv, Shapes, NEW w \in Writers, pc[w] \in {"entry", "body", "copy"}, Flow(w),
           NEW x, IsSeq(x), Write(w, x)
    PROVE  /\ OnlyOwn(w) /\ PipeShapes'
           /\ LET h == held[w]
              IN  /\ gz'[h["gz"]].to = w /\ buf'[h["buf"]].to = w
                  /\ Carries(sum'[h["uncomp"]], sum'[h["comp"]], gz'[h["gz"]].data,
                             buf'[h["buf"]].data, file'[w])
                  /\ sum'[h["uncomp"]] = Cat(sum[h["uncomp"]], x)
<1> DEFINE h == held[w]
           uo == h["uncomp"]
           co == h["comp"]
           go == h["gz"]
           bo == h["buf"]
           u == sum[uo]
           c == sum[co]
           g == gz[go].data
           b == buf[bo].data
           f == file[w]
           out == Gzip(Cat(g, x))
<1>1. uo \in Hashes /\ co \in Hashes /\ uo # co /\ go \in Gzips /\ bo \in Bufs
  BY OwnObjects DEF Writing, Taken
<1>2. gz[go].to = w /\ buf[bo].to = w /\ Carries(u, c, g, b, f)
  BY DEF Flow
<1>3. /\ Pipe(w).gz = go /\ Pipe(w).uncomp = uo
      /\ Lower(w).comp = co /\ Lower(w).buf = bo
  BY <1>2 DEF Pipe, Lower
<1>4. CASE /\ gz' = [gz EXCEPT ![go].data = Cat(@, x)]
           /\ sum' = [sum EXCEPT ![uo] = Cat(@, x)]
           /\ UNCHANGED <<buf, file>>
  <2>1. Carries(Cat(u, x), c, Cat(g, x), b, f)
    BY <1>2, GzipKeeps
  <2>2. /\ sum'[uo] = Cat(u, x) /\ sum'[co] = c
        /\ gz'[go].data = Cat(g, x) /\ gz'[go].to = w
        /\ buf'[bo] = buf[bo] /\ file'[w] = f
    BY <1>1, <1>2, <1>4 DEF Shapes
  <2>3. OnlyOwn(w) /\ PipeShapes'
    BY <1>1, <1>4 DEF OnlyOwn, PipeShapes, Shapes
  <2> QED
    BY <1>2, <2>1, <2>2, <2>3
<1>5. CASE /\ gz' = [gz EXCEPT ![go].data = <<>>]
           /\ LowerTee(w, out, [sum EXCEPT ![uo] = Cat(@, x)])
  <2>1. /\ Carries(Cat(u, x), Cat(c, out), <<>>, Cat(b, out), f)
        /\ Carries(Cat(u, x), Cat(c, out), <<>>, <<>>, Cat(Cat(f, b), out))
    BY <1>2, GzipGivesOut
  <2> HIDE DEF out
  <2>2. /\ sum' = [[sum EXCEPT ![uo] = Cat(@, x)] EXCEPT ![co] = Cat(@, out)]
        /\ \/ /\ buf' = [buf EXCEPT ![bo].data = Cat(@, out)]
              /\ UNCHANGED file
           \/ /\ file' = [file EXCEPT ![w] = Cat(Cat(@, b), out)]
              /\ buf' = [buf EXCEPT ![bo].data = <<>>]
    BY <1>2, <1>3, <1>5 DEF LowerTee, Cat
  <2>3. /\ sum'[uo] = Cat(u, x) /\ sum'[co] = Cat(c, out)
        /\ gz'[go].data = <<>> /\ gz'[go].to = w /\ buf'[bo].to = w
        /\ \/ buf'[bo].data = Cat(b, out) /\ file'[w] = f
           \/ buf'[bo].data = <<>> /\ file'[w] = Cat(Cat(f, b), out)
    <3>1. sum'[uo] = Cat(u, x) /\ sum'[co] = Cat(c, out)
      BY <1>1, <2>2 DEF Shapes
    <3>2. gz'[go].data = <<>> /\ gz'[go].to = w
      BY <1>1, <1>2, <1>5 DEF Shapes
    <3>3. \/ buf'[bo].data = Cat(b, out) /\ buf'[bo].to = w /\ file'[w] = f
          \/ buf'[bo].data = <<>> /\ buf'[bo].to = w /\ file'[w] = Cat(Cat(f, b), out)
      BY <1>1, <1>2, <2>2 DEF Shapes
    <3> QED
      BY <3>1, <3>2, <3>3
  <2>4. OnlyOwn(w) /\ PipeShapes'
    BY <1>1, <1>5, <2>2, SMTT(30) DEF OnlyOwn, PipeShapes, Shapes
  <2>5. Carries(sum'[uo], sum'[co], gz'[go].data, buf'[bo].data, file'[w])
    <3> HIDE DEF uo, co, go, bo, u, c, g, b, f
    <3> QED
      BY <2>1, <2>3
  <2> QED
    BY <2>3, <2>4, <2>5
<1> QED
  BY <1>3, <1>4, <1>5 DEF Write, Cat

\* Closing gzip leaves the rest to bufio.
LEMMA CloseGzipFlow ==
    ASSUME PoolInv, Shapes, NEW w \in Writers, pc[w] = "gzclose", Flow(w), CloseGzip(w)
    PROVE  /\ OnlyOwn(w) /\ PipeShapes'
           /\ LET h == held[w]
              IN  /\ gz'[h["gz"]].to = w /\ buf'[h["buf"]].to = w
                  /\ Carried(sum'[h["uncomp"]], sum'[h["comp"]], buf'[h["buf"]].data, file'[w])
                  /\ sum'[h["uncomp"]] = sum[h["uncomp"]]
<1> DEFINE h == held[w]
           uo == h["uncomp"]
           co == h["comp"]
           go == h["gz"]
           bo == h["buf"]
           u == sum[uo]
           c == sum[co]
           g == gz[go].data
           b == buf[bo].data
           f == file[w]
           out == Cat(Gzip(g), <<Trailer>>)
<1>1. uo \in Hashes /\ co \in Hashes /\ uo # co /\ go \in Gzips /\ bo \in Bufs
  BY OwnObjects DEF Writing, Taken
<1>2. gz[go].to = w /\ buf[bo].to = w /\ Carries(u, c, g, b, f)
  BY DEF Flow
<1>3. Pipe(w).gz = go /\ Lower(w).comp = co /\ Lower(w).buf = bo
  BY <1>2 DEF Pipe, Lower
<1>4. gz' = [gz EXCEPT ![go].data = <<>>] /\ LowerTee(w, out, sum)
  BY <1>3 DEF CloseGzip, Cat
<1>5. Carried(u, Cat(c, out), Cat(b, out), f) /\ Carried(u, Cat(c, out), <<>>, Cat(Cat(f, b), out))
  BY <1>2, GzipCloses
<1> HIDE DEF out
<1>6. /\ sum' = [sum EXCEPT ![co] = Cat(@, out)]
      /\ \/ /\ buf' = [buf EXCEPT ![bo].data = Cat(@, out)]
            /\ UNCHANGED file
         \/ /\ file' = [file EXCEPT ![w] = Cat(Cat(@, b), out)]
            /\ buf' = [buf EXCEPT ![bo].data = <<>>]
  BY <1>2, <1>3, <1>4 DEF LowerTee, Cat
<1>7. /\ sum'[uo] = u /\ sum'[co] = Cat(c, out) /\ gz'[go].to = w /\ buf'[bo].to = w
      /\ \/ buf'[bo].data = Cat(b, out) /\ file'[w] = f
         \/ buf'[bo].data = <<>> /\ file'[w] = Cat(Cat(f, b), out)
  BY <1>1, <1>2, <1>4, <1>6 DEF Shapes
<1>8. OnlyOwn(w) /\ PipeShapes'
  BY <1>1, <1>4, <1>6 DEF OnlyOwn, PipeShapes, Shapes
<1> QED
  BY <1>2, <1>5, <1>7, <1>8

\* Flushing bufio leaves everything in the file.
LEMMA FlushFlow ==
    ASSUME PoolInv, Shapes, NEW w \in Writers, pc[w] = "flush", Flow(w), Flush(w)
    PROVE  /\ OnlyOwn(w) /\ PipeShapes'
           /\ LET h == held[w]
              IN  /\ gz'[h["gz"]].to = w /\ buf'[h["buf"]].to = w
                  /\ Carried(sum'[h["uncomp"]], sum'[h["comp"]], buf'[h["buf"]].data, file'[w])
                  /\ sum'[h["uncomp"]] = sum[h["uncomp"]]
                  /\ file'[w] = sum'[h["comp"]]
<1> DEFINE h == held[w]
           uo == h["uncomp"]
           co == h["comp"]
           go == h["gz"]
           bo == h["buf"]
           u == sum[uo]
           c == sum[co]
           b == buf[bo].data
           f == file[w]
<1>1. uo \in Hashes /\ co \in Hashes /\ go \in Gzips /\ bo \in Bufs
  BY OwnObjects DEF Writing, Taken
<1>2. gz[go].to = w /\ buf[bo].to = w /\ Carried(u, c, b, f)
  BY DEF Flow
<1>3. /\ file' = [file EXCEPT ![w] = Cat(@, b)]
      /\ buf' = [buf EXCEPT ![bo].data = <<>>]
      /\ UNCHANGED <<sum, gz>>
  BY <1>2 DEF Flush, Pipe, Cat
<1>4. Cat(f, b) = c /\ Carried(u, c, <<>>, c)
  BY <1>2, EmptyFacts DEF Carried
<1>5. /\ sum'[uo] = u /\ sum'[co] = c /\ gz'[go].to = w /\ buf'[bo].to = w
      /\ buf'[bo].data = <<>> /\ file'[w] = c
  BY <1>1, <1>2, <1>3, <1>4 DEF Shapes
<1>6. OnlyOwn(w) /\ PipeShapes'
  BY <1>1, <1>3 DEF OnlyOwn, PipeShapes, Shapes
<1> QED
  BY <1>4, <1>5, <1>6

\* A step of w changes nothing of another writer, if it writes only to its
\* own objects.
LEMMA OthersUntouched ==
    ASSUME PoolInv, NEW w \in Writers, pc[w] \in Writing, OnlyOwn(w),
           UNCHANGED <<held, layer, named>>, NEW s, pc' = [pc EXCEPT ![w] = s],
           NEW v \in Writers, v # w
    PROVE  Untouched(v)
<1>1. pc'[v] = pc[v] /\ file'[v] = file[v]
  BY DEF OnlyOwn, PoolInv, Bookkeeping
<1>2. CASE pc[v] \in Writing
  <2>1. /\ Taken(held[v])
        /\ held[v]["uncomp"] \notin {held[w]["uncomp"], held[w]["comp"]}
        /\ held[v]["comp"] \notin {held[w]["uncomp"], held[w]["comp"]}
        /\ held[v]["gz"] # held[w]["gz"] /\ held[v]["buf"] # held[w]["buf"]
    BY <1>2, OwnObjects
  <2> QED
    BY <1>1, <2>1 DEF OnlyOwn, Taken, Untouched
<1>3. CASE pc[v] \notin Writing
  BY <1>1, <1>3 DEF Untouched
<1> QED
  BY <1>2, <1>3

\* Headers and the bytes of files are sequences of pieces.
LEMMA HeadersAreSeqs == \A c : IsSeq(HeaderOf(c))
<1>1. \A x : IsSeq(<<x>>)
  <2>1. \A x : <<x>> \in Seq({x})
    OBVIOUS
  <2> QED
    BY <2>1, SeqIsSeq
<1> QED
  BY <1>1, EmptyFacts DEF HeaderOf

\* One piece is a sequence.
LEMMA PiecesAreSeqs == \A x : IsSeq(<<x>>) /\ IsSeq(<<>>)
<1>1. \A x : <<x>> \in Seq({x})
  OBVIOUS
<1> QED
  BY <1>1, SeqIsSeq, EmptyFacts

\* The invariant holds before anyone has written.
LEMMA BlobInvInit == Init => BlobInv
<1> SUFFICES ASSUME Init PROVE BlobInv
  OBVIOUS
<1>1. Shapes
  BY ScenariosAreTrees DEF Init, PoolsInit, Shapes, Active, Reset
<1>2. \A w \in Writers : pc[w] = "diff" /\ file[w] = <<>>
  BY DEF Init, PoolsInit
<1>3. \A w \in Writers : WriterInv(w)
  BY <1>2 DEF WriterInv, Writing, Returned
<1> QED
  BY <1>1, <1>3, PoolInvInit DEF BlobInv, Init

\* A step of w that writes x to the pipeline.
LEMMA WritesMore ==
    ASSUME BlobInv, NEW w \in Writers, pc[w] \in {"entry", "body", "copy"}, NEW x, IsSeq(x), Write(w, x),
           NEW s \in {"entry", "body", "copy", "gzclose"}, pc' = [pc EXCEPT ![w] = s],
           UNCHANGED <<layer, named, upper>>
    PROVE  Shapes' /\ \A v \in Writers : WriterInv(v)'
<1>1. Flow(w) /\ held' = held
  BY DEF BlobInv, WriterInv, Writing, Write
<1>2. /\ OnlyOwn(w) /\ PipeShapes'
      /\ LET h == held[w]
         IN  /\ gz'[h["gz"]].to = w /\ buf'[h["buf"]].to = w
             /\ Carries(sum'[h["uncomp"]], sum'[h["comp"]], gz'[h["gz"]].data,
                        buf'[h["buf"]].data, file'[w])
  BY <1>1, WriteFlow DEF BlobInv
<1>3. Shapes'
  BY <1>2 DEF PipeShapes, Shapes, BlobInv, Active
<1>4. pc'[w] = s
  BY DEF BlobInv, PoolInv, Bookkeeping
<1>5. WriterInv(w)'
  BY <1>1, <1>2, <1>4 DEF WriterInv, Flow, Writing, Returned
<1>6. ASSUME NEW v \in Writers, v # w PROVE WriterInv(v)'
  <2>1. Untouched(v)
    BY <1>1, <1>2, <1>6, OthersUntouched DEF BlobInv, Writing
  <2> QED
    BY <2>1, UntouchedKeeps DEF BlobInv
<1> QED
  BY <1>3, <1>5, <1>6

\* A new pipeline is empty, as is the file it will fill.
LEMMA OpensEmpty ==
    ASSUME BlobInv, NEW w \in Writers, Open(w)
    PROVE  /\ Shapes' /\ \A v \in Writers : WriterInv(v)'
           /\ \A v \in Writers : v # w => Untouched(v)
           /\ sum'[held'[w]["uncomp"]] = <<>>
<1>0. PoolInv /\ Shapes
  BY DEF BlobInv
<1>1. /\ pc[w] = "open" /\ pc' = [pc EXCEPT ![w] = "entry"]
      /\ UNCHANGED <<upper, layer, named, file>>
  BY DEF Open, Goto, NewStreamingPipeline
<1>2. PICK b \in Obtainable(Bufs), g \in Obtainable(Gzips), l \in Obtainable(Larges),
           h \in ObtainablePairs(Hashes) :
        /\ Take(w, [buf |-> b, comp |-> h[1], gz |-> g, uncomp |-> h[2], large |-> l])
        /\ DOMAIN buf' = DOMAIN buf /\ DOMAIN gz' = DOMAIN gz /\ DOMAIN sum' = DOMAIN sum
        /\ \A x \in DOMAIN buf : buf'[x] = IF x = b THEN Reset(w) ELSE buf[x]
        /\ \A x \in DOMAIN gz : gz'[x] = IF x = g THEN Reset(w) ELSE gz[x]
        /\ \A x \in DOMAIN sum : sum'[x] = IF x \in {h[1], h[2]} THEN <<>> ELSE sum[x]
  BY DEF Open, NewStreamingPipeline, GetHash, GetGzipWriter, GetBufWriter
<1>3. /\ b \in Bufs /\ g \in Gzips /\ h[1] \in Hashes /\ h[2] \in Hashes /\ h[1] # h[2]
      /\ \A v \in Writers, q \in Roles :
            ~Uses(v, q, b) /\ ~Uses(v, q, g) /\ ~Uses(v, q, h[1]) /\ ~Uses(v, q, h[2])
  <2>1. b \in Bufs /\ g \in Gzips /\ \A v \in Writers, q \in Roles : ~Uses(v, q, b) /\ ~Uses(v, q, g)
    BY <1>0, Obtained DEF Objects
  <2>2. /\ h[1] \in Hashes /\ h[2] \in Hashes /\ h[1] # h[2]
        /\ \A v \in Writers, q \in Roles : ~Uses(v, q, h[1]) /\ ~Uses(v, q, h[2])
    BY <1>0, ObtainedPair DEF Objects
  <2> QED
    BY <2>1, <2>2
<1>4. /\ DOMAIN held = Writers
      /\ held' = [held EXCEPT ![w] =
           [buf |-> b, comp |-> h[1], gz |-> g, uncomp |-> h[2], large |-> l]]
      /\ pc'[w] = "entry" /\ \A v \in Writers : v # w => pc'[v] = pc[v]
  BY <1>0, <1>1, <1>2 DEF Take, PoolInv, Bookkeeping
<1>5. Shapes'
  BY <1>0, <1>1, <1>2 DEF Shapes, Reset, Active
<1>6. WriterInv(w)' /\ sum'[held'[w]["uncomp"]] = <<>>
  <2>1. file'[w] = <<>>
    BY <1>1 DEF BlobInv, WriterInv
  <2>2. /\ held'[w]["uncomp"] = h[2] /\ held'[w]["comp"] = h[1]
        /\ held'[w]["gz"] = g /\ held'[w]["buf"] = b
    BY <1>4
  <2>3. /\ sum'[h[1]] = <<>> /\ sum'[h[2]] = <<>>
        /\ gz'[g] = Reset(w) /\ buf'[b] = Reset(w)
    BY <1>0, <1>2, <1>3 DEF Shapes
  <2>4. Carries(<<>>, <<>>, <<>>, <<>>, <<>>)
    BY EmptyFacts DEF Carries
  <2> QED
    BY <1>4, <2>1, <2>2, <2>3, <2>4 DEF WriterInv, Flow, Writing, Returned, Reset
<1>7. ASSUME NEW v \in Writers, v # w PROVE Untouched(v) /\ WriterInv(v)'
  <2>1. held'[v] = held[v] /\ pc'[v] = pc[v]
    BY <1>4, <1>7
  <2>2. ASSUME pc[v] \in Writing
        PROVE  LET o == held[v]
               IN  /\ o["uncomp"] \notin {h[1], h[2]} /\ o["comp"] \notin {h[1], h[2]}
                   /\ o["gz"] # g /\ o["buf"] # b
                   /\ Taken(o)
    <3>0. Taken(held[v])
      BY <1>0, <2>2, OwnObjects
    <3>1. \A r \in Roles : Uses(v, r, held[v][r])
      BY <1>0, <2>2 DEF Uses, PoolInv, Bookkeeping, Writing, Working
    <3>2. "uncomp" \in Roles /\ "comp" \in Roles /\ "gz" \in Roles /\ "buf" \in Roles
      BY DEF Roles
    <3> QED
      BY <1>3, <3>0, <3>1, <3>2
  <2>3. ASSUME pc[v] \in Writing
        PROVE  LET o == held[v]
               IN  /\ sum'[o["uncomp"]] = sum[o["uncomp"]] /\ sum'[o["comp"]] = sum[o["comp"]]
                   /\ gz'[o["gz"]] = gz[o["gz"]] /\ buf'[o["buf"]] = buf[o["buf"]]
    <3>1. /\ \A x \in Hashes : x \notin {h[1], h[2]} => sum'[x] = sum[x]
          /\ \A x \in Gzips : x # g => gz'[x] = gz[x]
          /\ \A x \in Bufs : x # b => buf'[x] = buf[x]
      BY <1>0, <1>2 DEF Shapes
    <3> QED
      BY <2>2, <2>3, <3>1 DEF Taken
  <2>4. Untouched(v)
    BY <1>1, <2>1, <2>3 DEF Untouched
  <2> QED
    BY <2>4, UntouchedKeeps DEF BlobInv
<1> QED
  BY <1>5, <1>6, <1>7

\* A step of w that leaves the pipelines of the others alone, and that
\* establishes what is said of w.
LEMMA OwnStep ==
    ASSUME BlobInv, NEW w \in Writers, UNCHANGED <<held, sum, gz, buf, upper>>,
           NEW s, pc' = [pc EXCEPT ![w] = s],
           \A v \in Writers : v # w => file'[v] = file[v] /\ layer'[v] = layer[v],
           DOMAIN named \subseteq DOMAIN named',
           DOMAIN file' = Writers, DOMAIN layer' = Writers,
           WriterInv(w)'
    PROVE  Shapes' /\ \A v \in Writers : WriterInv(v)'
<1>1. Shapes'
  BY DEF Shapes, BlobInv, Active
<1>2. ASSUME NEW v \in Writers, v # w PROVE WriterInv(v)'
  <2>1. pc'[v] = pc[v]
    BY <1>2 DEF BlobInv, PoolInv, Bookkeeping
  <2>2. Untouched(v)
    BY <1>2, <2>1 DEF Untouched
  <2> QED
    BY <2>2, UntouchedKeeps DEF BlobInv
<1> QED
  BY <1>1, <1>2

\* Each step keeps the invariant: the one who takes it by its flow, the others untouched.
LEMMA BlobInvNext == BlobInv /\ [Next]_vars => BlobInv'
<1> SUFFICES ASSUME BlobInv, [Next]_vars PROVE BlobInv'
  OBVIOUS
<1>0. /\ PoolInv /\ Shapes /\ \A v \in Writers : WriterInv(v)
      /\ \A d \in DOMAIN named : named[d] = d
      /\ pc \in [Writers -> Steps]
  BY DEF BlobInv, PoolInv, Bookkeeping
<1>1. SUFFICES /\ Shapes' /\ \A v \in Writers : WriterInv(v)'
               /\ \A d \in DOMAIN named' : named'[d] = d
  BY <1>0, PoolInvNext DEF BlobInv
<1>2. ASSUME UNCHANGED <<pc, held, sum, gz, buf, file, layer, named, upper>>
      PROVE  /\ Shapes' /\ \A v \in Writers : WriterInv(v)'
             /\ \A d \in DOMAIN named' : named'[d] = d
  <2>1. Shapes'
    BY <1>0, <1>2 DEF Shapes, Active
  <2>2. ASSUME NEW v \in Writers PROVE WriterInv(v)'
    <3>1. Untouched(v)
      BY <1>2 DEF Untouched
    <3> QED
      BY <1>0, <3>1, UntouchedKeeps
  <2> QED
    BY <1>0, <1>2, <2>1, <2>2
<1>3. CASE UNCHANGED vars
  BY <1>2, <1>3 DEF vars, poolVars, snapshotVars
<1>4. ASSUME NEW w \in Writers, Leftover(w)
      PROVE  /\ Shapes' /\ \A v \in Writers : WriterInv(v)'
             /\ \A d \in DOMAIN named' : named'[d] = d
  BY <1>2, <1>4 DEF Leftover, poolVars, snapshotVars
<1>5. ASSUME NEW w \in Writers, Snapshot(w)
      PROVE  /\ Shapes' /\ \A v \in Writers : WriterInv(v)'
             /\ \A d \in DOMAIN named' : named'[d] = d
  <2> DEFINE Goal == Shapes' /\ \A v \in Writers : WriterInv(v)'
             Calm(from, to) == /\ UNCHANGED <<held, sum, gz, buf, file, upper, named>>
                               /\ pc[w] = from /\ pc' = [pc EXCEPT ![w] = to]
  <2>0. DOMAIN file = Writers /\ DOMAIN layer = Writers /\ \A s : [pc EXCEPT ![w] = s][w] = s
    BY <1>0 DEF Shapes
  <2>1. CASE Diff(w) \/ CreateTemp(w) \/ EarlyError(w)
    <3>1. PICK from \in {"diff", "create"}, to \in {"create", "open", "failed"} :
            Calm(from, to) /\ UNCHANGED layer
      BY <2>1 DEF Diff, CreateTemp, EarlyError, Goto, poolVars
    <3>2. WriterInv(w)'
      BY <1>0, <2>0, <3>1 DEF WriterInv, Writing, Returned
    <3>3. Goal
      BY <2>0, <3>1, <3>2, OwnStep
    <3> QED
      BY <1>0, <3>1, <3>3
  <2>2. CASE Open(w)
    BY <1>0, <2>2, OpensEmpty DEF Open
  <2>3. CASE SkipChange(w)
    BY <1>2, <2>3 DEF SkipChange, poolVars
  <2>4. CASE WriteHeader(w)
    <3>1. /\ pc[w] = "entry" /\ Write(w, ToWrite(w)) /\ IsSeq(ToWrite(w))
          /\ UNCHANGED <<layer, named, upper>>
      BY <2>4, HeadersAreSeqs DEF WriteHeader, More, ToWrite
    <3>2. \E s \in {"entry", "body"} : pc' = [pc EXCEPT ![w] = s]
      BY <1>0, <2>4, <3>1 DEF WriteHeader, Goto
    <3>3. Goal
      BY <3>1, <3>2, WritesMore
    <3> QED
      BY <1>0, <3>1, <3>3
  <2>5. CASE CopyBlock(w)
    <3>1. PICK x : IsSeq(x) /\ Write(w, x)
      BY <2>5, PiecesAreSeqs DEF CopyBlock
    <3>2. /\ pc[w] = "copy" /\ pc' = [pc EXCEPT ![w] = "copy"]
          /\ UNCHANGED <<layer, named, upper>>
      BY <1>0, <2>5 DEF CopyBlock
    <3>3. Goal
      BY <3>1, <3>2, WritesMore
    <3> QED
      BY <1>0, <3>2, <3>3
  <2>12. CASE OpenFile(w) \/ EndCopy(w)
    <3>1. PICK from \in {"body", "copy"}, to \in {"copy", "entry"} :
            Calm(from, to) /\ UNCHANGED layer
      BY <2>12 DEF OpenFile, EndCopy, Goto, poolVars
    <3>2. WriterInv(w)'
      BY <1>0, <2>0, <3>1 DEF WriterInv, Flow, Writing, Returned
    <3>3. Goal
      BY <2>0, <3>1, <3>2, OwnStep
    <3> QED
      BY <1>0, <3>1, <3>3
  <2>6. CASE CloseTar(w)
    <3>1. Write(w, <<End>>) /\ IsSeq(<<End>>)
      BY <2>6, PiecesAreSeqs DEF CloseTar
    <3>2. /\ pc[w] = "entry" /\ pc' = [pc EXCEPT ![w] = "gzclose"]
          /\ UNCHANGED <<layer, named, upper>>
      BY <2>6 DEF CloseTar, Goto
    <3>3. Goal
      BY <3>1, <3>2, WritesMore
    <3> QED
      BY <1>0, <3>2, <3>3
  <2>7. CASE FinishGzip(w) \/ FinishBuf(w)
    <3>1. PICK s \in {"flush", "sum"} :
            /\ pc[w] = (IF s = "flush" THEN "gzclose" ELSE "flush")
            /\ pc' = [pc EXCEPT ![w] = s]
            /\ IF s = "flush" THEN CloseGzip(w) ELSE Flush(w)
            /\ UNCHANGED <<layer, named, upper>>
      BY <2>7 DEF FinishGzip, FinishBuf, Goto
    <3>2. Flow(w) /\ held' = held /\ pc[w] \in Writing
      BY <1>0, <3>1 DEF WriterInv, Writing, CloseGzip, Flush
    <3>3. /\ OnlyOwn(w) /\ PipeShapes'
          /\ LET h == held[w]
             IN  /\ gz'[h["gz"]].to = w /\ buf'[h["buf"]].to = w
                 /\ Carried(sum'[h["uncomp"]], sum'[h["comp"]], buf'[h["buf"]].data, file'[w])
                 /\ s = "sum" => file'[w] = sum'[h["comp"]]
      BY <1>0, <3>1, <3>2, CloseGzipFlow, FlushFlow
    <3>4. Shapes'
      BY <1>0, <3>1, <3>3 DEF PipeShapes, Shapes, Active
    <3>5. WriterInv(w)'
      BY <2>0, <3>1, <3>2, <3>3 DEF WriterInv, Flow, Writing, Returned
    <3>6. ASSUME NEW v \in Writers, v # w PROVE WriterInv(v)'
      <4>1. Untouched(v)
        BY <1>0, <3>1, <3>2, <3>3, <3>6, OthersUntouched
      <4> QED
        BY <1>0, <4>1, UntouchedKeeps
    <3> QED
      BY <1>0, <3>1, <3>4, <3>5, <3>6
  <2>8. CASE Sum(w)
    <3>1. Calm("sum", "put")
      BY <2>8 DEF Sum, Goto, poolVars
    <3>2. layer' = [layer EXCEPT ![w] = [diffID |-> sum[held[w]["uncomp"]],
                                         digest |-> sum[held[w]["comp"]], renamed |-> FALSE]]
      BY <2>8 DEF Sum, Pipe
    <3>3. /\ sum[held[w]["comp"]] = Cat(Gzip(sum[held[w]["uncomp"]]), <<Trailer>>)
          /\ file[w] = sum[held[w]["comp"]]
      BY <1>0, <3>1 DEF WriterInv, Writing, Flow, Carried
    <3>4. WriterInv(w)'
      <4>1. /\ DOMAIN layer'[w] = {"diffID", "digest", "renamed"}
            /\ layer'[w].diffID = sum[held[w]["uncomp"]]
            /\ layer'[w].digest = sum[held[w]["comp"]] /\ layer'[w].renamed = FALSE
        BY <2>0, <3>2
      <4>2. layer'[w].renamed \in BOOLEAN /\ ~layer'[w].renamed
        BY <4>1, Zenon
      <4>3. /\ layer'[w].digest = Cat(Gzip(layer'[w].diffID), <<Trailer>>)
            /\ file'[w] = layer'[w].digest
        BY <3>1, <3>3, <4>1
      <4>4. Named(w)'
        BY <4>1, <4>2, <4>3 DEF Named
      <4>5. pc'[w] = "put"
        BY <1>0, <3>1
      <4> QED
        BY <4>4, <4>5 DEF WriterInv, Writing
    <3>5. Goal
      BY <2>0, <3>1, <3>2, <3>4, OwnStep
    <3> QED
      BY <1>0, <3>1, <3>5
  <2>9. CASE GiveBack(w) \/ Return(w)
    <3>1. PICK from \in {"put", "return"}, to \in {"return", "rename"} :
            Calm(from, to) /\ UNCHANGED layer
      BY <2>9 DEF GiveBack, Return, Goto
    <3>2. WriterInv(w)'
      BY <1>0, <2>0, <3>1 DEF WriterInv, Writing, Returned, Named
    <3>3. Goal
      BY <2>0, <3>1, <3>2, OwnStep
    <3> QED
      BY <1>0, <3>1, <3>3
  <2>10. CASE WriteError(w)
    <3>1. /\ UNCHANGED <<held, sum, gz, buf, upper, named, layer>>
          /\ file' = [file EXCEPT ![w] = <<>>] /\ pc' = [pc EXCEPT ![w] = "failed"]
      BY <2>10 DEF WriteError, Goto
    <3>2. WriterInv(w)'
      <4>1. pc'[w] = "failed"
        BY <2>0, <3>1
      <4> QED
        BY <4>1 DEF WriterInv, Writing, Returned
    <3>3. Goal
      BY <2>0, <3>1, <3>2, OwnStep
    <3> QED
      BY <1>0, <3>1, <3>3
  <2>11. CASE Rename(w)
    <3>1. /\ UNCHANGED <<held, sum, gz, buf, upper>>
          /\ pc[w] = "rename" /\ pc' = [pc EXCEPT ![w] = "done"]
      BY <2>11 DEF Rename, Goto
    <3>2. Named(w) /\ ~layer[w].renamed /\ file[w] = layer[w].digest
      BY <1>0, <3>1 DEF WriterInv, Returned, Named
    <3>3. CASE UNCHANGED <<named, file, layer>>
      <4>1. WriterInv(w)'
        BY <2>0, <3>1, <3>2, <3>3 DEF WriterInv, Writing, Returned, Named
      <4>2. Goal
        BY <2>0, <3>1, <3>3, <4>1, OwnStep
      <4> QED
        BY <1>0, <3>3, <4>2
    <3>4. CASE /\ named' = [d \in DOMAIN named \cup {layer[w].digest} |->
                              IF d = layer[w].digest THEN file[w] ELSE named[d]]
               /\ file' = [file EXCEPT ![w] = <<>>]
               /\ layer' = [layer EXCEPT ![w].renamed = TRUE]
      <4>1. /\ DOMAIN layer'[w] = {"diffID", "digest", "renamed"}
            /\ layer'[w].diffID = layer[w].diffID /\ layer'[w].digest = layer[w].digest
            /\ layer'[w].renamed = TRUE
        BY <2>0, <3>2, <3>4 DEF Named
      <4>2. WriterInv(w)'
        <5>1. layer'[w].digest \in DOMAIN named' /\ pc'[w] = "done"
          BY <2>0, <3>1, <3>4, <4>1
        <5>2. Named(w)'
          BY <3>2, <4>1, <5>1 DEF Named
        <5> QED
          BY <5>1, <5>2 DEF WriterInv, Writing
      <4>3. Goal
        BY <2>0, <3>1, <3>4, <4>2, OwnStep
      <4> QED
        BY <1>0, <3>2, <3>4, <4>3
    <3> QED
      BY <2>11, <3>3, <3>4 DEF Rename
  <2> QED
    BY <1>5, <2>1, <2>2, <2>3, <2>4, <2>5, <2>6, <2>7, <2>8, <2>9, <2>10, <2>11,
       <2>12 DEF Snapshot
<1> QED
  BY <1>3, <1>4, <1>5 DEF Next

\* However many writers share the pools, and wherever gzip and bufio hold data
\* back or fail, the blob under a digest is what was hashed, and the digest is
\* that of the whole compressed form of the layer its diff ID names.
THEOREM DigestsNameBlobs == Spec => []DigestNamesBlob
<1>1. BlobInv => DigestNamesBlob
  <2> SUFFICES ASSUME BlobInv, NEW w \in Active, pc[w] = "done"
               PROVE  /\ layer[w].digest = Gzip(layer[w].diffID) \o <<Trailer>>
                      /\ IF layer[w].renamed THEN layer[w].digest \in DOMAIN named
                                             ELSE file[w] = layer[w].digest
    BY DEF DigestNamesBlob, BlobInv
  <2>1. Named(w)
    BY DEF BlobInv, Shapes, WriterInv, Returned
  <2> QED
    BY <2>1 DEF Named, Cat
<1> QED
  BY <1>1, BlobInvInit, BlobInvNext, PTL DEF Spec

-----------------------------------------------------------------------------
(* The walk.                                                               *)

\* what the recursion of InWalkOrder over the places in S satisfies
Follows(f, S, paths) ==
    f = [s \in SUBSET S |->
            IF s = {} THEN <<>>
            ELSE IF WalkOrder[Max(s)] \in paths
                 THEN Append(f[s \ {Max(s)}], WalkOrder[Max(s)])
                 ELSE f[s \ {Max(s)}]]

\* The recursion has a solution.
LEMMA FollowsExists ==
    ASSUME NEW paths, NEW n \in Nat
    PROVE  \E f : Follows(f, 1..n, paths)
<1> DEFINE T == {k \in Nat \ {0} : \E f : Follows(f, 1..(k - 1), paths)}
<1>1. 1 \in T
  <2> DEFINE g == [s \in SUBSET {} |-> <<>>]
  <2>1. \A s \in SUBSET {} : s = {}
    OBVIOUS
  <2>2. g = [s \in SUBSET {} |->
               IF s = {} THEN <<>>
               ELSE IF WalkOrder[Max(s)] \in paths
                    THEN Append(g[s \ {Max(s)}], WalkOrder[Max(s)])
                    ELSE g[s \ {Max(s)}]]
    BY <2>1
  <2> HIDE DEF g
  <2>3. 1..(1 - 1) = {} /\ 1 \in Nat \ {0}
    OBVIOUS
  <2> QED
    BY <2>2, <2>3 DEF Follows
<1>2. ASSUME NEW m \in Nat \ {0}, m \in T
      PROVE  m + 1 \in T
  <2>1. PICK k \in Nat : m = k + 1
    <3>1. m - 1 \in Nat /\ m = (m - 1) + 1
      OBVIOUS
    <3> QED
      BY <3>1
  <2>2. PICK f : Follows(f, 1..k, paths)
    <3>1. m - 1 = k
      BY <2>1
    <3> QED
      BY <1>2, <3>1
  <2> DEFINE body(g, s) == IF s = {} THEN <<>>
                           ELSE IF WalkOrder[Max(s)] \in paths
                                THEN Append(g[s \ {Max(s)}], WalkOrder[Max(s)])
                                ELSE g[s \ {Max(s)}]
             big == SUBSET (1..(k + 1))
             g == [s \in big |-> body(f, s)]
  <2>3. \A s \in SUBSET (1..k) : f[s] = body(f, s)
    BY <2>2 DEF Follows
  <2>4. \A s \in SUBSET (1..k) : s \in big /\ g[s] = f[s]
    <3>1. \A s \in SUBSET (1..k) : s \in big
      OBVIOUS
    <3> HIDE DEF body, big
    <3>2. \A s \in big : g[s] = body(f, s)
      OBVIOUS
    <3> QED
      BY <2>3, <3>1, <3>2
  <2>5. ASSUME NEW s \in big, s # {}
        PROVE  s \ {Max(s)} \in SUBSET (1..k)
    <3>1. CASE k + 1 \in s
      BY <3>1, LastOf
    <3>2. CASE ~(k + 1 \in s)
      <4>1. s \in SUBSET (1..k)
        BY <3>2
      <4> QED
        BY <2>5, <4>1, MaxInside
    <3> QED
      BY <3>1, <3>2
  <2>6. \A s \in big : body(f, s) = body(g, s)
    <3> HIDE DEF g, big
    <3> QED
      BY <2>4, <2>5
  <2>7. g = [s \in big |-> body(g, s)]
    <3>1. g = [s \in big |-> body(f, s)]
      OBVIOUS
    <3> HIDE DEF g, body, big
    <3> QED
      BY <2>6, <3>1
  <2>8. Follows(g, 1..((m + 1) - 1), paths)
    <3>1. (m + 1) - 1 = k + 1
      BY <2>1
    <3> HIDE DEF g
    <3> QED
      BY <2>7, <3>1 DEF Follows
  <2>9. m + 1 \in Nat \ {0}
    OBVIOUS
  <2> HIDE DEF g
  <2> QED
    BY <2>8, <2>9
<1>3. n + 1 \in T /\ (n + 1) - 1 = n
  <2> HIDE DEF T
  <2> QED
    BY <1>1, <1>2, SetInduction
<1> QED
  BY <1>3

\* InWalkOrder puts what it is given, as far as it is to be met, in a sequence.
LEMMA InWalkOrderIs ==
    ASSUME NEW paths
    PROVE  /\ InWalkOrder(paths) \in Seq(paths)
           /\ Range(InWalkOrder(paths)) = paths \cap Path
<1> DEFINE N == Len(WalkOrder)
           F == CHOOSE f : Follows(f, DOMAIN WalkOrder, paths)
           Places(k) == {WalkOrder[i] : i \in 1..k}
<1>1. N \in Nat /\ DOMAIN WalkOrder = 1..N
  BY WalkVisitsParentsFirst, LenProperties
<1>2. Follows(F, 1..N, paths)
  BY <1>1, FollowsExists
<1>3. InWalkOrder(paths) = F[1..N]
  BY <1>1 DEF InWalkOrder, FoldLeft, MapThenFoldSet, Follows
<1> HIDE DEF F
<1> DEFINE T == {k \in Nat \ {0} : k - 1 <= N =>
                   /\ F[1..(k - 1)] \in Seq(paths)
                   /\ Range(F[1..(k - 1)]) = paths \cap Places(k - 1)}
<1>4. 1 \in T
  <2>1. 1..(1 - 1) = {} /\ Places(1 - 1) = {}
    OBVIOUS
  <2>2. F[{}] = <<>>
    BY <1>2 DEF Follows
  <2>3. Range(<<>>) = {} /\ <<>> \in Seq(paths)
    BY DEF Range
  <2>4. F[1..(1 - 1)] = <<>> /\ paths \cap Places(1 - 1) = {}
    BY <2>1, <2>2
  <2>5. 1 \in Nat \ {0}
    OBVIOUS
  <2> HIDE DEF Places
  <2> QED
    BY <2>3, <2>4, <2>5
<1>5. ASSUME NEW m \in Nat \ {0}, m \in T
      PROVE  m + 1 \in T
  <2>1. PICK k \in Nat : m = k + 1 /\ m - 1 = k /\ (m + 1) - 1 = k + 1
    <3>1. m - 1 \in Nat /\ m = (m - 1) + 1 /\ (m + 1) - 1 = (m - 1) + 1
      OBVIOUS
    <3> QED
      BY <3>1
  <2>2. SUFFICES ASSUME k + 1 <= N
                 PROVE  /\ F[1..(k + 1)] \in Seq(paths)
                        /\ Range(F[1..(k + 1)]) = paths \cap Places(k + 1)
    <3> HIDE DEF Places
    <3> QED
      BY <2>1
  <2> DEFINE s == 1..(k + 1)
  <2>3. k + 1 \in s /\ s # {} /\ s \in SUBSET (1..N) /\ s \in SUBSET (1..(k + 1))
    <3>1. k + 1 \in 1..(k + 1)
      OBVIOUS
    <3>2. 1..(k + 1) \subseteq 1..N
      BY <1>1, <2>2
    <3> QED
      BY <3>1, <3>2
  <2>4. Max(s) = k + 1
    BY <2>3, LastOf
  <2>5. s \ {k + 1} = 1..k
    OBVIOUS
  <2>6. F[s] = IF WalkOrder[k + 1] \in paths THEN Append(F[1..k], WalkOrder[k + 1])
               ELSE F[1..k]
    <3> HIDE DEF s
    <3> QED
      BY <1>2, <2>3, <2>4, <2>5 DEF Follows
  <2>7. F[1..k] \in Seq(paths) /\ Range(F[1..k]) = paths \cap Places(k)
    <3>1. k <= N
      BY <1>1, <2>2
    <3> HIDE DEF Places
    <3> QED
      BY <1>5, <2>1, <3>1
  <2>8. Places(k + 1) = Places(k) \cup {WalkOrder[k + 1]}
    <3>1. 1..(k + 1) = (1..k) \cup {k + 1}
      OBVIOUS
    <3> QED
      BY <3>1
  <2>9. ASSUME WalkOrder[k + 1] \in paths
        PROVE  /\ Append(F[1..k], WalkOrder[k + 1]) \in Seq(paths)
               /\ Range(Append(F[1..k], WalkOrder[k + 1])) = Range(F[1..k]) \cup {WalkOrder[k + 1]}
    BY <2>7, <2>9, RangeOfAppend, AppendProperties
  <2> HIDE DEF s, Places
  <2> QED
    BY <2>6, <2>7, <2>8, <2>9 DEF s
<1>6. N + 1 \in T
  <2> HIDE DEF T
  <2> QED
    BY <1>1, <1>4, <1>5, SetInduction
<1>7. Places(N) = Path
  BY <1>1 DEF Path, Range
<1>8. (N + 1) - 1 = N /\ N <= N
  BY <1>1
<1> HIDE DEF Places, N
<1> QED
  BY <1>3, <1>6, <1>7, <1>8

-----------------------------------------------------------------------------
(* The names of markers.                                                   *)

\* The whiteout of what a marker hides is the marker.
LEMMA WhiteoutOfHidden ==
    ASSUME NEW p \in Path, IsWhiteout(p)
    PROVE  Whiteout(Hidden(p)) = p
<1> DEFINE n == CHOOSE n \in DOMAIN WhiteoutOf : WhiteoutOf[n] = Base(p)
           S == Range(p) \cup {n}
<1>1. p \in Seq(Range(p)) /\ p # <<>>
  BY WalkVisitsParentsFirst
<1>2. n \in DOMAIN WhiteoutOf /\ WhiteoutOf[n] = Base(p)
  <2>1. \E m \in DOMAIN WhiteoutOf : WhiteoutOf[m] = Base(p)
    BY Zenon DEF IsWhiteout, Range
  <2> QED
    BY <2>1, Zenon
<1> HIDE DEF n
<1>3. Front(p) \in Seq(S) /\ p = Front(p) \o <<Last(p)>>
  <2>1. Front(p) \in Seq(Range(p)) /\ p = Front(p) \o <<Last(p)>>
    BY <1>1, FrontAndLast
  <2>2. Range(p) \subseteq S
    OBVIOUS
  <2> HIDE DEF S
  <2> QED
    BY <2>1, <2>2, SeqMonotonic
<1>4. Front(Front(p) \o <<n>>) = Front(p) /\ Last(Front(p) \o <<n>>) = n
  <2> HIDE DEF S
  <2>1. n \in S
    BY DEF S
  <2> QED
    BY <1>3, <2>1, FrontOfAppend
<1>5. Hidden(p) = Front(p) \o <<n>>
  BY DEF Hidden, Dir, n
<1> QED
  BY <1>2, <1>3, <1>4, <1>5 DEF Whiteout, Dir, Base

-----------------------------------------------------------------------------
(* Headers.                                                                *)

\* a piece that starts an entry
IsHeader(h) == h.type \in {"dir", "reg", "link"}

\* the header of a path of the upper directory, if it has one
HeaderFor(up, p) == HeaderOf(ChangeAt(up, p))
HeadersOf(up, S) == {HeaderFor(up, p)[1] : p \in {q \in S : HeaderFor(up, q) # <<>>}}

\* what an upper directory may be
IsUpper(up) == IsTree(up) /\ \A p \in DOMAIN up : Base(p) = Opaque => up[p].kind = "file"

\* What a piece records; no header and no block of a file are the end mark.
LEMMA PieceFacts ==
    /\ \A n, t, s : /\ Header(n, t, s).name = n /\ Header(n, t, s).type = t
                    /\ Header(n, t, s).size = s
    /\ \A b : Body(b) # End /\ Body(b).type = "body" /\ Body(b).block = b
    /\ End.type = "end"
    /\ \A h : IsHeader(h) => h # End /\ h.type # "body"
BY DEF Header, Piece, Body, End, IsHeader

\* A change has one header or none.
LEMMA HeaderFacts ==
    ASSUME NEW c
    PROVE  /\ HeaderOf(c) = <<>> \/ \E h : HeaderOf(c) = <<h>>
           /\ \A h : HeaderOf(c) = <<h>> =>
                /\ IsHeader(h)
                /\ IsFile(c) => h.type = "reg" /\ h.size = c.info.size /\ h.name = c.path
                /\ ~IsFile(c) => (h.type = "reg" => h.size = 0)
           /\ IsFile(c) => \E h : HeaderOf(c) = <<h>>
<1>2. \A h, g : <<h>> = <<g>> => h = g
  OBVIOUS
<1>3. CASE c.delete
  <2>1. HeaderOf(c) = <<Header(Whiteout(c.path), "reg", 0)>> /\ ~IsFile(c)
    BY <1>3 DEF HeaderOf, IsFile
  <2> QED
    BY <1>2, <2>1, PieceFacts DEF IsHeader
<1>4. CASE ~c.delete /\ IsDir(c.info)
  <2>1. HeaderOf(c) = <<Header(c.path, "dir", 0)>> /\ ~IsFile(c)
    BY <1>4 DEF HeaderOf, IsFile, IsDir
  <2> QED
    BY <1>2, <2>1, PieceFacts DEF IsHeader
<1>5. CASE ~c.delete /\ c.info.kind = "file"
  <2>1. HeaderOf(c) = <<Header(c.path, "reg", c.info.size)>> /\ IsFile(c)
    BY <1>5 DEF HeaderOf, IsFile, IsDir
  <2> QED
    BY <1>2, <2>1, PieceFacts DEF IsHeader
<1>6. CASE ~c.delete /\ ~IsDir(c.info) /\ c.info.kind = "link"
  <2>1. HeaderOf(c) = <<Header(c.path, "link", 0)>> /\ ~IsFile(c)
    BY <1>6 DEF HeaderOf, IsFile, IsDir
  <2> QED
    BY <1>2, <2>1, PieceFacts DEF IsHeader
<1>7. CASE ~c.delete /\ ~IsDir(c.info) /\ c.info.kind \notin {"file", "link"}
  <2>1. HeaderOf(c) = <<>> /\ ~IsFile(c)
    BY <1>7 DEF HeaderOf, IsFile
  <2>2. \A h : <<h>> # <<>>
    OBVIOUS
  <2> QED
    BY <2>1, <2>2
<1> QED
  BY <1>3, <1>4, <1>5, <1>6, <1>7

\* One more path gives its header, if it has one.
LEMMA MoreHeaders ==
    ASSUME NEW up, NEW S, NEW p
    PROVE  /\ HeaderFor(up, p) = <<>> => HeadersOf(up, S \cup {p}) = HeadersOf(up, S)
           /\ \A h : HeaderFor(up, p) = <<h>> => HeadersOf(up, S \cup {p}) = HeadersOf(up, S) \cup {h}
<1>1. \A h : <<h>>[1] = h /\ <<h>> # <<>>
  OBVIOUS
<1> QED
  BY <1>1 DEF HeadersOf

\* An opaque marker has the header of a file.
LEMMA OpaqueFacts ==
    ASSUME NEW up, IsUpper(up), NEW p \in DOMAIN up, Base(p) = Opaque
    PROVE  /\ IsFile(ChangeAt(up, p)) /\ HeaderFor(up, p) # <<>>
           /\ ChangeAt(up, p).path \in DOMAIN up => IsDir(up[ChangeAt(up, p).path])
<1>1. /\ ChangeAt(up, p).path = Front(p) /\ ~ChangeAt(up, p).delete
      /\ ChangeAt(up, p).info = up[p]
  BY DEF ChangeAt, Dir
<1>2. IsFile(ChangeAt(up, p))
  BY <1>1 DEF IsFile, IsUpper
<1>3. HeaderFor(up, p) # <<>>
  <2>1. PICK h : HeaderFor(up, p) = <<h>>
    BY <1>2, HeaderFacts DEF HeaderFor
  <2> QED
    BY <2>1
<1>4. p \in Path /\ DOMAIN up \subseteq Path
  BY DEF IsUpper, IsTree
<1>5. IsStrictPrefix(Front(p), p)
  BY <1>4, FrontAndLast, WalkVisitsParentsFirst
<1> QED
  BY <1>1, <1>2, <1>3, <1>4, <1>5 DEF IsUpper, IsTree, Below

\* What the header of a path says, where no marker of opacity is.
LEMMA HeaderOfPath ==
    ASSUME NEW up, IsUpper(up), NEW p \in DOMAIN up, Base(p) # Opaque
    PROVE  /\ IsWhiteout(p) => HeaderFor(up, p) = <<Header(p, "reg", 0)>>
           /\ ~IsMarker(p) /\ up[p].kind = "dev" => HeaderFor(up, p) = <<>>
           /\ ~IsMarker(p) /\ IsDir(up[p]) => HeaderFor(up, p) = <<Header(p, "dir", 0)>>
           /\ ~IsMarker(p) /\ up[p].kind = "file" =>
                HeaderFor(up, p) = <<Header(p, "reg", up[p].size)>>
           /\ ~IsMarker(p) /\ up[p].kind = "link" => HeaderFor(up, p) = <<Header(p, "link", 0)>>
<1>1. p \in Path
  BY DEF IsUpper, IsTree
<1>2. ASSUME IsWhiteout(p)
      PROVE  HeaderFor(up, p) = <<Header(p, "reg", 0)>>
  <2>1. Base(p) \in Markers
    BY <1>2 DEF IsWhiteout, Markers
  <2>2. ChangeAt(up, p) = [path |-> Hidden(p), delete |-> TRUE, info |-> NoInfo]
    BY <2>1 DEF ChangeAt
  <2> QED
    BY <1>1, <1>2, <2>2, WhiteoutOfHidden DEF HeaderFor, HeaderOf
<1>3. ASSUME ~IsMarker(p)
      PROVE  /\ ChangeAt(up, p).path = p /\ ~ChangeAt(up, p).delete
             /\ ChangeAt(up, p).info = up[p]
  <2>1. ChangeAt(up, p) = [path |-> p, delete |-> FALSE, info |-> up[p]]
    BY <1>3 DEF ChangeAt, IsMarker
  <2> QED
    BY <2>1
<1> QED
  BY <1>2, <1>3 DEF HeaderFor, HeaderOf, IsDir

\* what is a header, and of which path
LEMMA HeadersArePaths ==
    ASSUME NEW up, IsUpper(up), \A p \in DOMAIN up : Base(p) # Opaque
    PROVE  /\ \A h \in HeadersOf(up, DOMAIN up) :
                h.name \in DOMAIN up /\ HeaderFor(up, h.name) = <<h>>
           /\ \A p \in DOMAIN up : \A h : HeaderFor(up, p) = <<h>> =>
                h \in HeadersOf(up, DOMAIN up)
<1>0. \A h, g : <<h>>[1] = h /\ <<h>> # <<>>
  OBVIOUS
<1>1. ASSUME NEW p \in DOMAIN up, NEW h, HeaderFor(up, p) = <<h>>
      PROVE  h.name = p
  <2>0. Base(p) \in Markers => IsMarker(p)
    BY DEF IsMarker
  <2>1. IsWhiteout(p) \/ ~IsMarker(p)
    BY DEF IsWhiteout, IsMarker, Markers
  <2>2. up[p].kind \in Kind
    BY DEF IsUpper, IsTree, Node
  <2>3. \E t, s : HeaderFor(up, p) = <<Header(p, t, s)>>
    BY <1>0, <1>1, <2>1, <2>2, HeaderOfPath DEF Kind, IsDir
  <2> QED
    BY <1>0, <1>1, <2>3, PieceFacts
<1>2. ASSUME NEW p \in DOMAIN up, HeaderFor(up, p) # <<>>
      PROVE  HeaderFor(up, p) = <<HeaderFor(up, p)[1]>>
  BY <1>0, <1>2, HeaderFacts DEF HeaderFor
<1> QED
  BY <1>0, <1>1, <1>2 DEF HeadersOf

\* If the entries of a tar are the headers of an upper directory that has no
\* marker of opacity, then unpacked over a tree of which no mark of overlayfs
\* hides anything it shows what the directory said.
LEMMA HeadersSayAll ==
    ASSUME NEW up, IsUpper(up), \A p \in DOMAIN up : Base(p) # Opaque,
           NEW tar, Entries(tar) = HeadersOf(up, DOMAIN up),
           NEW t, \A p \in DOMAIN t : ~MarkHides(up, p)
    PROVE  Unpack(tar, t) = Said(t, up)
<1> DEFINE E == Entries(tar)
           names == {h.name : h \in {e \in E : ~IsMarker(e.name)}}
           entry(p) == CHOOSE h \in E : h.name = p
           shown == {p \in DOMAIN up : ~IsMarker(p) /\ up[p].kind # "dev"}
           top == [p \in names |-> [kind |-> KindOf(entry(p).type), size |-> entry(p).size]]
           said == [p \in shown |-> IF IsDir(up[p]) THEN [kind |-> "dir", size |-> 0] ELSE up[p]]
           gone == {Hidden(h.name) : h \in {e \in E : IsWhiteout(e.name)}}
           hidden == {Hidden(p) : p \in {q \in DOMAIN up : IsWhiteout(q)}}
<1>1. /\ \A h \in E : h.name \in DOMAIN up /\ HeaderFor(up, h.name) = <<h>>
      /\ \A p \in DOMAIN up : \A h : HeaderFor(up, p) = <<h>> => h \in E
  BY HeadersArePaths
<1> HIDE DEF E
<1>2. \A h, g : <<h>> # <<>> /\ (<<h>> = <<g>> => h = g)
  OBVIOUS
<1>3. \A p \in DOMAIN up : /\ up[p] \in Node
                           /\ up[p].kind \in {"dir", "newdir", "file", "link", "dev"}
                           /\ up[p] = [kind |-> up[p].kind, size |-> up[p].size]
                           /\ up[p].kind # "file" => up[p].size = 0
  BY DEF IsUpper, IsTree, Node, Kind
<1>4. ASSUME NEW p \in shown
      PROVE  /\ p \in names
             /\ [kind |-> KindOf(entry(p).type), size |-> entry(p).size] =
                  IF IsDir(up[p]) THEN [kind |-> "dir", size |-> 0] ELSE up[p]
  <2>1. p \in DOMAIN up /\ ~IsMarker(p) /\ up[p].kind \in {"dir", "newdir", "file", "link"}
    BY <1>3
  <2>2. PICK ty, sz : /\ HeaderFor(up, p) = <<Header(p, ty, sz)>>
                      /\ [kind |-> KindOf(ty), size |-> sz] =
                           IF IsDir(up[p]) THEN [kind |-> "dir", size |-> 0] ELSE up[p]
    <3>1. CASE IsDir(up[p])
      <4>1. HeaderFor(up, p) = <<Header(p, "dir", 0)>>
        BY <2>1, <3>1, HeaderOfPath
      <4> QED
        BY <3>1, <4>1 DEF KindOf
    <3>2. CASE up[p].kind = "file"
      <4>1. HeaderFor(up, p) = <<Header(p, "reg", up[p].size)>> /\ ~IsDir(up[p])
        BY <2>1, <3>2, HeaderOfPath DEF IsDir
      <4>2. up[p] = [kind |-> KindOf("reg"), size |-> up[p].size]
        BY <1>3, <2>1, <3>2 DEF KindOf
      <4> QED
        BY <4>1, <4>2
    <3>3. CASE up[p].kind = "link"
      <4>1. HeaderFor(up, p) = <<Header(p, "link", 0)>> /\ ~IsDir(up[p])
        BY <2>1, <3>3, HeaderOfPath DEF IsDir
      <4>2. up[p] = [kind |-> KindOf("link"), size |-> 0]
        BY <1>3, <2>1, <3>3 DEF KindOf
      <4> QED
        BY <4>1, <4>2
    <3> QED
      BY <2>1, <3>1, <3>2, <3>3 DEF IsDir
  <2>3. Header(p, ty, sz) \in E /\ Header(p, ty, sz).name = p
    BY <1>1, <2>1, <2>2, PieceFacts
  <2>4. \A h \in E : h.name = p => h = Header(p, ty, sz)
    BY <1>1, <1>2, <2>2
  <2>5. entry(p) = Header(p, ty, sz)
    <3>1. entry(p) \in E /\ entry(p).name = p
      BY <2>3, Zenon
    <3> QED
      BY <2>4, <3>1, Zenon
  <2>6. entry(p).type = ty /\ entry(p).size = sz
    <3> HIDE DEF entry
    <3> QED
      BY <2>5, PieceFacts
  <2>7. p \in names
    BY <2>1, <2>3
  <2> HIDE DEF entry, names
  <2> QED
    BY <2>2, <2>6, <2>7
<1>5. \A p \in names : p \in shown
  <2> SUFFICES ASSUME NEW h \in E, ~IsMarker(h.name)
               PROVE  h.name \in shown
    OBVIOUS
  <2>1. h.name \in DOMAIN up /\ HeaderFor(up, h.name) # <<>>
    BY <1>1, <1>2
  <2>2. up[h.name].kind # "dev"
    BY <2>1, HeaderOfPath
  <2> QED
    BY <2>1, <2>2
<1>6. names = shown
  BY <1>4, <1>5
<1>7. top = said
  <2> HIDE DEF names, shown, entry
  <2> QED
    BY <1>4, <1>6
<1>8. gone = hidden
  <2>1. ASSUME NEW h \in E, IsWhiteout(h.name) PROVE Hidden(h.name) \in hidden
    BY <1>1, <2>1
  <2>2. ASSUME NEW p \in DOMAIN up, IsWhiteout(p) PROVE Hidden(p) \in gone
    <3>1. HeaderFor(up, p) = <<Header(p, "reg", 0)>>
      BY <2>2, HeaderOfPath
    <3>2. Header(p, "reg", 0) \in E /\ Header(p, "reg", 0).name = p
      BY <1>1, <3>1, PieceFacts
    <3> QED
      BY <2>2, <3>2
  <2>3. gone \subseteq hidden
    BY <2>1
  <2>4. hidden \subseteq gone
    <3> HIDE DEF gone
    <3> QED
      BY <2>2
  <2> QED
    BY <2>3, <2>4
<1>9. Unpack(tar, t) = Over(t, top, gone)
  BY DEF Unpack, E
<1>10. Said(t, up) = Over(t, said, hidden)
  <2> DEFINE marked == {p \in DOMAIN t : MarkHides(up, p)}
             opaque == {p \in DOMAIN t : \E m \in DOMAIN up : Base(m) = Opaque /\ Below(p, Dir(m))}
  <2>1. marked = {} /\ opaque = {}
    OBVIOUS
  <2>2. Said(t, up) = Over(t, said, hidden \cup marked \cup opaque)
    BY DEF Said
  <2> HIDE DEF marked, opaque, said, hidden
  <2>3. hidden \cup marked \cup opaque = hidden
    BY <2>1
  <2> QED
    BY <2>2, <2>3
<1> HIDE DEF top, said, gone, hidden
<1> QED
  BY <1>7, <1>8, <1>9, <1>10

-----------------------------------------------------------------------------
(* A tar that grows.                                                       *)

\* nothing has ended, every file has got its blocks, and every block has a file
FramedTo(u, was) ==
    \A i \in DOMAIN u : /\ u[i] # End
                        /\ u[i].type = "reg" => HasBlocks(u, i, was)
                        /\ u[i].type = "body" => HasHeader(u, i)

\* blocks that the file p has had, from its first on
IsBlocks(bs, p, was) ==
    /\ IsSeq(bs)
    /\ \A k \in 1..Len(bs) : bs[k].type = "body" /\ <<p, k, bs[k].block>> \in was

\* What some pieces written behind a tar change of it.
LEMMA AddsPieces ==
    ASSUME NEW u, IsSeq(u), NEW x, IsSeq(x)
    PROVE  /\ IsSeq(Cat(u, x)) /\ Len(Cat(u, x)) = Len(u) + Len(x)
           /\ Len(u) \in Nat /\ Len(x) \in Nat /\ DOMAIN u = 1..Len(u) /\ DOMAIN x = 1..Len(x)
           /\ DOMAIN Cat(u, x) = 1..(Len(u) + Len(x))
           /\ \A i \in 1..Len(u) : Cat(u, x)[i] = u[i]
           /\ \A k \in 1..Len(x) : Cat(u, x)[Len(u) + k] = x[k]
           /\ Range(Cat(u, x)) = Range(u) \cup Range(x)
<1> DEFINE S == Range(u) \cup Range(x)
           t == u \o x
<1>1. u \in Seq(S) /\ x \in Seq(S)
  <2>1. u \in Seq(Range(u)) /\ x \in Seq(Range(x))
    BY DEF IsSeq
  <2>2. Range(u) \subseteq S /\ Range(x) \subseteq S
    OBVIOUS
  <2> HIDE DEF S
  <2> QED
    BY <2>1, <2>2, SeqMonotonic
<1> HIDE DEF S
<1>2. /\ t \in Seq(S) /\ Len(t) = Len(u) + Len(x)
      /\ \A i \in 1..(Len(u) + Len(x)) : t[i] = IF i <= Len(u) THEN u[i] ELSE x[i - Len(u)]
  BY <1>1, ConcatProperties
<1>3. /\ Len(u) \in Nat /\ Len(x) \in Nat /\ DOMAIN u = 1..Len(u) /\ DOMAIN x = 1..Len(x)
      /\ DOMAIN t = 1..Len(t)
  BY <1>1, <1>2, LenProperties
<1>4. Range(t) = Range(u) \cup Range(x)
  BY <1>1, RangeConcatenation
<1>5. IsSeq(t)
  BY <1>2, SeqIsSeq
<1> HIDE DEF t
<1>6. \A i \in 1..Len(u) : t[i] = u[i]
  BY <1>2, <1>3
<1>7. ASSUME NEW k \in 1..Len(x)
      PROVE  t[Len(u) + k] = x[k]
  <2>1. /\ Len(u) + k \in 1..(Len(u) + Len(x)) /\ ~(Len(u) + k <= Len(u))
        /\ (Len(u) + k) - Len(u) = k
    BY <1>3
  <2> QED
    BY <1>2, <2>1
<1>8. Cat(u, x) = t
  BY DEF Cat, t
<1> QED
  BY <1>2, <1>3, <1>4, <1>5, <1>6, <1>7, <1>8

\* What a piece written behind a tar changes of it.
LEMMA AddsPiece ==
    ASSUME NEW u, IsSeq(u), NEW x
    PROVE  /\ IsSeq(Cat(u, <<x>>)) /\ Len(Cat(u, <<x>>)) = Len(u) + 1
           /\ Len(u) \in Nat /\ DOMAIN u = 1..Len(u)
           /\ DOMAIN Cat(u, <<x>>) = 1..(Len(u) + 1)
           /\ \A i \in 1..Len(u) : Cat(u, <<x>>)[i] = u[i]
           /\ Cat(u, <<x>>)[Len(u) + 1] = x
           /\ Range(Cat(u, <<x>>)) = Range(u) \cup {x}
           /\ Cat(u, <<x>>) # <<>>
<1> DEFINE S == Range(u) \cup {x}
           t == Append(u, x)
<1>1. u \in Seq(S) /\ x \in S
  <2>1. u \in Seq(Range(u)) /\ Range(u) \subseteq S
    BY DEF IsSeq
  <2> HIDE DEF S
  <2>2. u \in Seq(S)
    BY <2>1, SeqMonotonic
  <2> QED
    BY <2>2 DEF S
<1> HIDE DEF S
<1>2. Cat(u, <<x>>) = t
  BY <1>1, AppendIsConcat DEF Cat
<1>3. /\ t \in Seq(S) /\ t # <<>> /\ Len(t) = Len(u) + 1
      /\ \A i \in 1..Len(u) : t[i] = u[i]
      /\ t[Len(u) + 1] = x
      /\ Range(t) = Range(u) \cup {x}
  BY <1>1, AppendProperties, RangeOfAppend
<1>4. Len(u) \in Nat /\ DOMAIN u = 1..Len(u) /\ DOMAIN t = 1..Len(t)
  BY <1>1, <1>3, LenProperties
<1>5. IsSeq(t)
  BY <1>3, SeqIsSeq
<1> HIDE DEF t
<1> QED
  BY <1>2, <1>3, <1>4, <1>5

\* A header is one more entry; the blocks of a file and the end mark are none.
LEMMA EntriesAdd ==
    ASSUME NEW u, IsSeq(u)
    PROVE  /\ \A x : IsHeader(x) => Entries(Cat(u, <<x>>)) = Entries(u) \cup {x}
           /\ \A x : ~IsHeader(x) => Entries(Cat(u, <<x>>)) = Entries(u)
           /\ \A bs, p, was : IsBlocks(bs, p, was) => Entries(Cat(u, bs)) = Entries(u)
<1>1. \A x : Range(Cat(u, <<x>>)) = Range(u) \cup {x}
  BY AddsPiece
<1>2. ASSUME NEW bs, NEW p, NEW was, IsBlocks(bs, p, was)
      PROVE  Entries(Cat(u, bs)) = Entries(u)
  <2>1. /\ Range(Cat(u, bs)) = Range(u) \cup Range(bs)
        /\ DOMAIN bs = 1..Len(bs)
    BY <1>2, AddsPieces DEF IsBlocks
  <2>2. \A x \in Range(bs) : x.type = "body"
    BY <1>2, <2>1 DEF IsBlocks, Range
  <2> QED
    BY <2>1, <2>2 DEF Entries
<1>3. \A x : IsHeader(x) => Entries(Cat(u, <<x>>)) = Entries(u) \cup {x}
  BY <1>1 DEF Entries, IsHeader
<1>4. \A x : ~IsHeader(x) => Entries(Cat(u, <<x>>)) = Entries(u)
  BY <1>1 DEF Entries, IsHeader
<1> QED
  BY <1>2, <1>3, <1>4

\* What is framed stays so, whatever comes behind it.
LEMMA FramedKeeps ==
    ASSUME NEW u, NEW was, FramedTo(u, was), NEW t, NEW n \in Nat, NEW m \in Nat, n <= m,
           DOMAIN u = 1..n, DOMAIN t = 1..m, \A i \in 1..n : t[i] = u[i]
    PROVE  \A i \in 1..n : /\ t[i] # End
                           /\ t[i].type = "reg" => HasBlocks(t, i, was)
                           /\ t[i].type = "body" => HasHeader(t, i)
<1> SUFFICES ASSUME NEW i \in 1..n
             PROVE  /\ t[i] # End
                    /\ t[i].type = "reg" => HasBlocks(t, i, was)
                    /\ t[i].type = "body" => HasHeader(t, i)
  OBVIOUS
<1>1. t[i] = u[i] /\ i \in DOMAIN u
  OBVIOUS
<1>2. ASSUME t[i].type = "reg"
      PROVE  HasBlocks(t, i, was)
  <2>1. HasBlocks(u, i, was)
    BY <1>1, <1>2 DEF FramedTo
  <2>2. \A k \in 1..u[i].size : i + k \in DOMAIN u
    BY <2>1 DEF HasBlocks
  <2>3. \A k \in 1..u[i].size : i + k \in DOMAIN t /\ t[i + k] = u[i + k]
    BY <2>2
  <2> QED
    BY <1>1, <2>1, <2>3 DEF HasBlocks
<1>3. ASSUME t[i].type = "body"
      PROVE  HasHeader(t, i)
  <2>1. PICK j \in 1..(i - 1) : u[j].type = "reg" /\ i <= j + u[j].size
    BY <1>1, <1>3 DEF FramedTo, HasHeader
  <2>2. t[j] = u[j]
    OBVIOUS
  <2> QED
    BY <2>1, <2>2 DEF HasHeader
<1> QED
  BY <1>1, <1>2, <1>3 DEF FramedTo

\* A piece that promises no blocks and is no end leaves no gap.
LEMMA FramedAdd ==
    ASSUME NEW u, IsSeq(u), NEW was, FramedTo(u, was),
           NEW x, x # End, x.type # "body", x.type = "reg" => x.size = 0
    PROVE  FramedTo(Cat(u, <<x>>), was)
<1> DEFINE t == Cat(u, <<x>>)
           n == Len(u)
<1>1. /\ n \in Nat /\ DOMAIN u = 1..n /\ DOMAIN t = 1..(n + 1)
      /\ \A i \in 1..n : t[i] = u[i]
      /\ t[n + 1] = x
  BY AddsPiece
<1> HIDE DEF t, n
<1>2. \A i \in 1..n : /\ t[i] # End
                      /\ t[i].type = "reg" => HasBlocks(t, i, was)
                      /\ t[i].type = "body" => HasHeader(t, i)
  <2>1. n + 1 \in Nat /\ n <= n + 1
    BY <1>1
  <2> QED
    BY <1>1, <2>1, FramedKeeps
<1>3. x.type = "reg" => HasBlocks(t, n + 1, was)
  BY <1>1 DEF HasBlocks
<1>4. DOMAIN t = (1..n) \cup {n + 1}
  BY <1>1
<1> QED
  BY <1>1, <1>2, <1>3, <1>4 DEF FramedTo, t

\* The header of a file and as many blocks as it promises leave no gap.
LEMMA FramedAddFile ==
    ASSUME NEW u, IsSeq(u), NEW was, FramedTo(u, was), NEW h, h # End, h.type = "reg",
           NEW bs, IsBlocks(bs, h.name, was), Len(bs) = h.size
    PROVE  FramedTo(Cat(Cat(u, <<h>>), bs), was)
<1> DEFINE v == Cat(u, <<h>>)
           t == Cat(v, bs)
           n == Len(u)
           l == Len(bs)
<1>1. /\ n \in Nat /\ DOMAIN u = 1..n /\ Len(v) = n + 1
      /\ \A i \in 1..n : v[i] = u[i]
      /\ v[n + 1] = h /\ IsSeq(v)
  BY AddsPiece
<1> HIDE DEF v
<1>2. /\ DOMAIN t = 1..(Len(v) + l) /\ l \in Nat
      /\ \A i \in 1..Len(v) : t[i] = v[i]
      /\ \A k \in 1..l : t[Len(v) + k] = bs[k]
  <2>1. IsSeq(v) /\ IsSeq(bs)
    BY <1>1 DEF IsBlocks
  <2>2. /\ DOMAIN Cat(v, bs) = 1..(Len(v) + Len(bs)) /\ Len(bs) \in Nat
        /\ \A i \in 1..Len(v) : Cat(v, bs)[i] = v[i]
        /\ \A k \in 1..Len(bs) : Cat(v, bs)[Len(v) + k] = bs[k]
    <3> HIDE DEF n, l, t
    <3>1. DOMAIN Cat(v, bs) = 1..(Len(v) + Len(bs)) /\ Len(bs) \in Nat
      BY <2>1, AddsPieces
    <3>2. \A i \in 1..Len(v) : Cat(v, bs)[i] = v[i]
      BY <2>1, AddsPieces
    <3>3. \A k \in 1..Len(bs) : Cat(v, bs)[Len(v) + k] = bs[k]
      <4>1. \A a, b : IsSeq(a) /\ IsSeq(b) =>
                        \A k \in 1..Len(b) : Cat(a, b)[Len(a) + k] = b[k]
        BY AddsPieces
      <4> QED
        BY <2>1, <4>1
    <3> QED
      BY <3>1, <3>2, <3>3
  <2> QED
    BY <2>2
<1> HIDE DEF t, n, l
<1>3. /\ DOMAIN t = 1..(n + 1 + l)
      /\ \A i \in 1..n : t[i] = u[i]
      /\ t[n + 1] = h
      /\ \A k \in 1..l : t[n + 1 + k] = bs[k]
  <2>1. n + 1 \in 1..Len(v) /\ 1..n \subseteq 1..Len(v)
    BY <1>1
  <2> QED
    BY <1>1, <1>2, <2>1
<1>4. \A i \in 1..n : /\ t[i] # End
                      /\ t[i].type = "reg" => HasBlocks(t, i, was)
                      /\ t[i].type = "body" => HasHeader(t, i)
  <2>1. n + 1 + l \in Nat /\ n <= n + 1 + l
    BY <1>1, <1>2
  <2> QED
    BY <1>1, <1>3, <2>1, FramedKeeps
<1>5. HasBlocks(t, n + 1, was)
  <2>1. \A k \in 1..l : n + 1 + k \in 1..(n + 1 + l)
    BY <1>1, <1>2
  <2>2. \A k \in 1..l : bs[k].type = "body" /\ <<h.name, k, bs[k].block>> \in was
    BY DEF IsBlocks, l
  <2>3. h.size = l
    BY DEF l
  <2> QED
    BY <1>3, <2>1, <2>2, <2>3 DEF HasBlocks
<1>6. ASSUME NEW k \in 1..l
      PROVE  t[n + 1 + k].type = "body" /\ HasHeader(t, n + 1 + k)
  <2>1. t[n + 1 + k].type = "body"
    BY <1>3 DEF IsBlocks, l
  <2>2. n + 1 \in 1..((n + 1 + k) - 1) /\ n + 1 + k <= n + 1 + l
    BY <1>1, <1>2
  <2>3. t[n + 1].type = "reg" /\ t[n + 1].size = l
    BY <1>3 DEF l
  <2> QED
    BY <2>1, <2>2, <2>3 DEF HasHeader
<1>7. ASSUME NEW i \in DOMAIN t
      PROVE  /\ t[i] # End
             /\ t[i].type = "reg" => HasBlocks(t, i, was)
             /\ t[i].type = "body" => HasHeader(t, i)
  <2>1. CASE i \in 1..n
    BY <1>4, <2>1
  <2>2. CASE i = n + 1
    BY <1>3, <1>5, <2>2
  <2>3. CASE ~(i \in 1..n) /\ i # n + 1
    <3>1. i - (n + 1) \in 1..l /\ n + 1 + (i - (n + 1)) = i
      BY <1>1, <1>2, <1>3, <2>3
    <3>2. t[i].type = "body" /\ HasHeader(t, i)
      BY <1>6, <3>1
    <3> QED
      BY <3>2, PieceFacts
  <2> QED
    BY <2>1, <2>2, <2>3
<1> QED
  BY <1>7 DEF FramedTo, t, v

\* With the end mark a tar without gaps is a complete archive.
LEMMA FramedEnds ==
    ASSUME NEW u, IsSeq(u), NEW was, FramedTo(u, was)
    PROVE  /\ Framed(Cat(u, <<End>>), was)
           /\ Entries(Cat(u, <<End>>)) = Entries(u)
<1> DEFINE t == Cat(u, <<End>>)
           n == Len(u)
<1>1. /\ n \in Nat /\ DOMAIN u = 1..n /\ DOMAIN t = 1..(n + 1) /\ Len(t) = n + 1
      /\ \A i \in 1..n : t[i] = u[i]
      /\ t[n + 1] = End /\ t # <<>>
  BY AddsPiece
<1> HIDE DEF t, n
<1>2. \A i \in 1..n : /\ t[i] # End
                      /\ t[i].type = "reg" => HasBlocks(t, i, was)
                      /\ t[i].type = "body" => HasHeader(t, i)
  <2>1. n + 1 \in Nat /\ n <= n + 1
    BY <1>1
  <2> QED
    BY <1>1, <2>1, FramedKeeps
<1>3. End.type # "reg" /\ End.type # "body" /\ ~IsHeader(End)
  BY PieceFacts DEF IsHeader
<1>4. DOMAIN t = (1..n) \cup {n + 1}
  BY <1>1
<1>5. Last(t) = End
  BY <1>1 DEF Last
<1>6. Framed(t, was)
  BY <1>1, <1>2, <1>3, <1>4, <1>5 DEF Framed
<1> QED
  BY <1>3, <1>6, EntriesAdd DEF t

-----------------------------------------------------------------------------
(* The changes of an upper directory.                                      *)

Found(up)   == InWalkOrder(DOMAIN up \ {<<Opaque>>})
Upto(up, n) == {Found(up)[i] : i \in 1..n}

\* DiffDir returns one change for each path of the directory but the marker at
\* the root.
LEMMA DiffDirIs ==
    ASSUME NEW up, IsTree(up)
    PROVE  /\ Len(DiffDir(up)) \in Nat
           /\ \A i \in 1..Len(DiffDir(up)) :
                /\ DiffDir(up)[i] = ChangeAt(up, Found(up)[i])
                /\ Found(up)[i] \in DOMAIN up \ {<<Opaque>>}
           /\ Upto(up, Len(DiffDir(up))) = DOMAIN up \ {<<Opaque>>}
<1> DEFINE f == Found(up)
           n == Len(f)
           S == DOMAIN up \ {<<Opaque>>}
           cs == [i \in 1..n |-> ChangeAt(up, f[i])]
<1>1. f \in Seq(S) /\ Range(f) = S
  <2>1. S \cap Path = S
    BY DEF IsTree
  <2> QED
    BY <2>1, InWalkOrderIs DEF Found
<1> HIDE DEF f, S
<1>2. n \in Nat /\ DOMAIN f = 1..n /\ \A i \in 1..n : f[i] \in S
  BY <1>1, LenProperties, ElementOfSeq
<1>3. DiffDir(up) = cs
  BY <1>2 DEF DiffDir, Found, f
<1>4. Len(cs) = n /\ \A i \in 1..n : cs[i] = ChangeAt(up, f[i])
  <2> HIDE DEF n
  <2>1. cs \in [1..n -> {ChangeAt(up, f[i]) : i \in 1..n}]
    OBVIOUS
  <2>2. cs \in Seq({ChangeAt(up, f[i]) : i \in 1..n}) /\ DOMAIN cs = 1..n
    BY <1>2, <2>1, SeqDef
  <2>3. Len(cs) = n
    BY <1>2, <2>2, LenProperties
  <2> QED
    BY <2>3
<1>5. {f[i] : i \in 1..n} = S
  BY <1>1, <1>2 DEF Range
<1> HIDE DEF n, cs
<1> QED
  BY <1>2, <1>3, <1>4, <1>5 DEF Upto, f, S

\* One more change covers one more path.
LEMMA UptoNext ==
    ASSUME NEW up, NEW n \in Nat \ {0}
    PROVE  Upto(up, n) = Upto(up, n - 1) \cup {Found(up)[n]}
<1>1. 1..n = (1..(n - 1)) \cup {n}
  OBVIOUS
<1> QED
  BY <1>1 DEF Upto

-----------------------------------------------------------------------------
(* What a layer shows.                                                     *)

\* the tar so far has the headers of the paths in S and the blocks of their files
Written(u, up, S, was) == IsSeq(u) /\ FramedTo(u, was) /\ Entries(u) = HeadersOf(up, S)

\* behind that, the header of a file and n of its blocks
Copying(u, up, S, c, n, was) ==
    \E v, bs : /\ u = Cat(Cat(v, HeaderOf(c)), bs)
               /\ Written(v, up, S, was)
               /\ IsBlocks(bs, c.path, was) /\ Len(bs) = n

\* no marker of opacity among these paths
NoOpaque(S) == \A p \in S : Base(p) # Opaque

\* the tar is closed
Complete(u, up, was) ==
    /\ Framed(u, was)
    /\ Entries(u) = HeadersOf(up, DOMAIN up \ {<<Opaque>>})
    /\ NoOpaque(DOMAIN up \ {<<Opaque>>})

\* While a pipeline is open its tar holds what has been read: all of the
\* changes before the present one, unless blocks are missing, and then nothing
\* more is written; and of the present one what has been copied of its file.
Half(w) ==
    LET u == sum[held[w]["uncomp"]]
        c == changes[w][at[w]]
        before == Upto(upper[w], at[w] - 1)
    IN  /\ changes[w] = DiffDir(upper[w])
        /\ at[w] \in Nat \ {0} /\ at[w] <= Len(changes[w]) + 1
        /\ missing[w] \in Nat
        /\ NoOpaque(before)
        /\ pc[w] = "entry" /\ missing[w] = 0 => Written(u, upper[w], before, been[w])
        /\ pc[w] \in {"body", "copy"} =>
             /\ at[w] <= Len(changes[w]) /\ IsFile(c)
             /\ c.info.size \in Nat /\ missing[w] <= c.info.size
             /\ Copying(u, upper[w], before, c, c.info.size - missing[w], been[w])
        /\ pc[w] = "copy" => c.path \in DOMAIN live[w] /\ upper[w][c.path].kind = "file"

\* what the tar of a writer holds at each of its steps
TarInv(w) ==
    /\ pc[w] # "diff" => w \in Active
    /\ pc[w] \in {"diff", "create", "open"} => at[w] = 1 /\ missing[w] = 0
    /\ pc[w] \in {"create", "open"} => changes[w] = DiffDir(upper[w])
    /\ pc[w] \in {"entry", "body", "copy"} => Half(w)
    /\ pc[w] \in {"gzclose", "flush", "sum"} =>
         Complete(sum[held[w]["uncomp"]], upper[w], been[w])
    /\ pc[w] \in Returned => Complete(layer[w].diffID, upper[w], been[w])

\* What leftover processes do changes no kind, and been has all of their blocks.
Tree(up, now, was) ==
    /\ DOMAIN now \subseteq DOMAIN up
    /\ was \subseteq Path \X (1..MaxSize) \X (0..MaxTouch)
    /\ \A p \in DOMAIN now :
         /\ now[p] \in [kind : Kind, blocks : Seq(0..MaxTouch)]
         /\ now[p].kind = up[p].kind
         /\ \A k \in 1..Len(now[p].blocks) : <<p, k, now[p].blocks[k]>> \in was
Trees ==
    /\ upper \in Scenarios
    /\ DOMAIN live = Active /\ DOMAIN been = Active
    /\ \A w \in Active : Tree(upper[w], live[w], been[w])

\* each writer has its own changes, place and count
Tables ==
    /\ DOMAIN changes = Writers /\ DOMAIN at = Writers /\ DOMAIN missing = Writers
    /\ touched \in 0..MaxTouch

\* the inductive invariant behind LayerShowsUpper
LayerInv == BlobInv /\ Trees /\ Tables /\ \A w \in Writers : TarInv(w)

\* What has been said of a tar stays so when files have had more blocks.
LEMMA WasGrows ==
    ASSUME NEW was, NEW now, was \subseteq now
    PROVE  /\ \A u, up, S : Written(u, up, S, was) => Written(u, up, S, now)
           /\ \A u, up, S, c, n : Copying(u, up, S, c, n, was) => Copying(u, up, S, c, n, now)
           /\ \A u, up : Complete(u, up, was) => Complete(u, up, now)
<1>1. \A u, i : HasBlocks(u, i, was) => HasBlocks(u, i, now)
  BY DEF HasBlocks
<1>2. \A u, up, S : Written(u, up, S, was) => Written(u, up, S, now)
  BY <1>1 DEF Written, FramedTo
<1>3. \A bs, p : IsBlocks(bs, p, was) => IsBlocks(bs, p, now)
  BY DEF IsBlocks
<1>4. \A u, up, S, c, n : Copying(u, up, S, c, n, was) => Copying(u, up, S, c, n, now)
  BY <1>2, <1>3 DEF Copying
<1>5. \A u, up : Complete(u, up, was) => Complete(u, up, now)
  BY <1>1 DEF Complete, Framed
<1> QED
  BY <1>2, <1>4, <1>5

-----------------------------------------------------------------------------
(* One turn of WriteTarLayer's loop.                                       *)

\* The change the loop is at is that of a path of the upper directory.
LEMMA AtChange ==
    ASSUME NEW up, IsUpper(up), NEW k \in Nat \ {0}, k <= Len(DiffDir(up))
    PROVE  /\ Found(up)[k] \in DOMAIN up
           /\ DiffDir(up)[k] = ChangeAt(up, Found(up)[k])
           /\ HeaderOf(DiffDir(up)[k]) = HeaderFor(up, Found(up)[k])
           /\ Upto(up, k) = Upto(up, k - 1) \cup {Found(up)[k]}
<1>1. k \in 1..Len(DiffDir(up)) /\ IsTree(up)
  BY DiffDirIs DEF IsUpper
<1>2. DiffDir(up)[k] = ChangeAt(up, Found(up)[k]) /\ Found(up)[k] \in DOMAIN up
  BY <1>1, DiffDirIs
<1> QED
  BY <1>2, UptoNext DEF HeaderFor

\* A change without a header is passed over.
LEMMA Skips ==
    ASSUME NEW up, IsUpper(up), NEW k \in Nat \ {0}, k <= Len(DiffDir(up)),
           HeaderOf(DiffDir(up)[k]) = <<>>, NoOpaque(Upto(up, k - 1))
    PROVE  /\ NoOpaque(Upto(up, k))
           /\ \A u, was : Written(u, up, Upto(up, k - 1), was) => Written(u, up, Upto(up, k), was)
<1> DEFINE p == Found(up)[k]
<1>1. /\ p \in DOMAIN up /\ HeaderFor(up, p) = <<>>
      /\ Upto(up, k) = Upto(up, k - 1) \cup {p}
  BY AtChange
<1> HIDE DEF p
<1>2. Base(p) # Opaque
  BY <1>1, OpaqueFacts
<1>3. HeadersOf(up, Upto(up, k)) = HeadersOf(up, Upto(up, k - 1))
  BY <1>1, MoreHeaders
<1> QED
  BY <1>1, <1>2, <1>3 DEF NoOpaque, Written

\* A header that is the whole entry is written behind a tar without gaps.
LEMMA WritesEntry ==
    ASSUME NEW up, IsUpper(up), NEW k \in Nat \ {0}, k <= Len(DiffDir(up)),
           NEW h, HeaderOf(DiffDir(up)[k]) = <<h>>, ~IsFile(DiffDir(up)[k]),
           NoOpaque(Upto(up, k - 1)), NEW u, NEW was, Written(u, up, Upto(up, k - 1), was)
    PROVE  NoOpaque(Upto(up, k)) /\ Written(Cat(u, <<h>>), up, Upto(up, k), was)
<1> DEFINE p == Found(up)[k]
           c == DiffDir(up)[k]
<1>1. /\ p \in DOMAIN up /\ c = ChangeAt(up, p) /\ HeaderFor(up, p) = <<h>>
      /\ Upto(up, k) = Upto(up, k - 1) \cup {p}
  BY AtChange
<1>2. IsHeader(h) /\ h # End /\ h.type # "body" /\ (h.type = "reg" => h.size = 0)
  BY HeaderFacts, PieceFacts
<1> HIDE DEF p, c
<1>3. Base(p) # Opaque
  BY <1>1, OpaqueFacts DEF c
<1>4. HeadersOf(up, Upto(up, k)) = HeadersOf(up, Upto(up, k - 1)) \cup {h}
  BY <1>1, MoreHeaders
<1>5. /\ IsSeq(Cat(u, <<h>>)) /\ FramedTo(Cat(u, <<h>>), was)
      /\ Entries(Cat(u, <<h>>)) = Entries(u) \cup {h}
  <2>1. IsSeq(u) /\ FramedTo(u, was)
    BY DEF Written
  <2>2. IsSeq(Cat(u, <<h>>))
    BY <2>1, AddsPiece
  <2>3. FramedTo(Cat(u, <<h>>), was)
    BY <1>2, <2>1, FramedAdd
  <2>4. Entries(Cat(u, <<h>>)) = Entries(u) \cup {h}
    BY <1>2, <2>1, EntriesAdd
  <2> QED
    BY <2>2, <2>3, <2>4
<1> QED
  BY <1>1, <1>3, <1>4, <1>5 DEF NoOpaque, Written

\* The header of a file is written, and none of its blocks.
LEMMA StartsFile ==
    ASSUME NEW u, NEW up, NEW S, NEW was, Written(u, up, S, was), NEW c
    PROVE  Copying(Cat(u, HeaderOf(c)), up, S, c, 0, was)
<1>1. IsSeq(Cat(u, HeaderOf(c)))
  BY HeadersAreSeqs, ConcatFacts DEF Written
<1>2. Cat(u, HeaderOf(c)) = Cat(Cat(u, HeaderOf(c)), <<>>)
  BY <1>1, EmptyFacts
<1>3. IsBlocks(<<>>, c.path, was) /\ Len(<<>>) = 0
  BY EmptyFacts DEF IsBlocks
<1> QED
  BY <1>2, <1>3 DEF Copying

\* One more block comes behind it.
LEMMA CopiesMore ==
    ASSUME NEW u, NEW up, NEW S, NEW c, NEW n \in Nat, NEW was, Copying(u, up, S, c, n, was),
           NEW b, <<c.path, n + 1, b>> \in was
    PROVE  Copying(Cat(u, <<Body(b)>>), up, S, c, n + 1, was)
<1>1. PICK v, bs : /\ u = Cat(Cat(v, HeaderOf(c)), bs)
                   /\ Written(v, up, S, was)
                   /\ IsBlocks(bs, c.path, was) /\ Len(bs) = n
  BY DEF Copying
<1> DEFINE more == Cat(bs, <<Body(b)>>)
           head == Cat(v, HeaderOf(c))
<1>2. /\ IsSeq(more) /\ Len(more) = n + 1
      /\ \A k \in 1..n : more[k] = bs[k]
      /\ more[n + 1] = Body(b)
  BY <1>1, AddsPiece DEF IsBlocks
<1>3. IsSeq(head)
  BY <1>1, HeadersAreSeqs, ConcatFacts DEF Written
<1>4. u = Cat(head, bs)
  BY <1>1
<1> HIDE DEF head
<1>5. Cat(u, <<Body(b)>>) = Cat(head, more)
  BY <1>1, <1>3, <1>4, PiecesAreSeqs, ConcatAssoc DEF IsBlocks
<1> HIDE DEF more
<1>6. IsBlocks(more, c.path, was)
  <2>1. \A k \in 1..(n + 1) : k \in 1..n \/ k = n + 1
    OBVIOUS
  <2>2. Body(b).type = "body" /\ Body(b).block = b
    BY PieceFacts
  <2> QED
    BY <1>1, <1>2, <2>1, <2>2 DEF IsBlocks
<1> QED
  BY <1>1, <1>2, <1>5, <1>6 DEF Copying, head

\* A file whose blocks are all there has been written.
LEMMA EndsFile ==
    ASSUME NEW up, IsUpper(up), NEW k \in Nat \ {0}, k <= Len(DiffDir(up)),
           IsFile(DiffDir(up)[k]), Base(Found(up)[k]) # Opaque,
           NoOpaque(Upto(up, k - 1)), NEW u, NEW was
    PROVE  /\ NoOpaque(Upto(up, k))
           /\ Copying(u, up, Upto(up, k - 1), DiffDir(up)[k], DiffDir(up)[k].info.size, was) =>
                Written(u, up, Upto(up, k), was)
<1> DEFINE p == Found(up)[k]
           c == DiffDir(up)[k]
<1>1. /\ p \in DOMAIN up /\ c = ChangeAt(up, p) /\ HeaderOf(c) = HeaderFor(up, p)
      /\ Upto(up, k) = Upto(up, k - 1) \cup {p}
  BY AtChange
<1>2. PICK h : /\ HeaderOf(c) = <<h>> /\ IsHeader(h) /\ h # End
               /\ h.type = "reg" /\ h.size = c.info.size /\ h.name = c.path
  BY HeaderFacts, PieceFacts
<1> HIDE DEF p, c
<1>3. HeadersOf(up, Upto(up, k)) = HeadersOf(up, Upto(up, k - 1)) \cup {h}
  <2>1. HeaderFor(up, p) = <<h>>
    BY <1>1, <1>2
  <2>2. \A g : HeaderFor(up, p) = <<g>> =>
            HeadersOf(up, Upto(up, k - 1) \cup {p}) = HeadersOf(up, Upto(up, k - 1)) \cup {g}
    BY MoreHeaders
  <2> QED
    BY <1>1, <2>1, <2>2
<1>4. NoOpaque(Upto(up, k))
  BY <1>1 DEF NoOpaque, p
<1>5. ASSUME Copying(u, up, Upto(up, k - 1), c, c.info.size, was)
      PROVE  Written(u, up, Upto(up, k), was)
  <2>1. PICK v, bs : /\ u = Cat(Cat(v, HeaderOf(c)), bs)
                     /\ Written(v, up, Upto(up, k - 1), was)
                     /\ IsBlocks(bs, c.path, was) /\ Len(bs) = c.info.size
    BY <1>5 DEF Copying
  <2> DEFINE head == Cat(v, <<h>>)
  <2>2. u = Cat(head, bs)
    BY <1>2, <2>1
  <2>3. IsSeq(head) /\ Entries(head) = Entries(v) \cup {h}
    BY <1>2, <2>1, AddsPiece, EntriesAdd DEF Written
  <2>4. FramedTo(u, was)
    BY <1>2, <2>1, <2>2, FramedAddFile DEF Written
  <2> HIDE DEF head
  <2>5. IsSeq(u) /\ Entries(u) = Entries(head)
    <3>1. IsSeq(bs)
      BY <2>1 DEF IsBlocks
    <3>2. IsSeq(Cat(head, bs))
      BY <2>3, <3>1, AddsPieces
    <3>3. Entries(Cat(head, bs)) = Entries(head)
      BY <2>1, <2>3, EntriesAdd
    <3> QED
      BY <2>2, <3>2, <3>3
  <2> QED
    BY <1>3, <2>1, <2>3, <2>4, <2>5 DEF Written
<1> QED
  BY <1>4, <1>5 DEF c

\* A tar that all changes were written to is closed by the end mark.
LEMMA Closes ==
    ASSUME NEW up, IsUpper(up), NEW k \in Nat \ {0}, k > Len(DiffDir(up)),
           k <= Len(DiffDir(up)) + 1,
           NoOpaque(Upto(up, k - 1)), NEW u, NEW was, Written(u, up, Upto(up, k - 1), was)
    PROVE  Complete(Cat(u, <<End>>), up, was)
<1>1. Len(DiffDir(up)) \in Nat /\ Upto(up, Len(DiffDir(up))) = DOMAIN up \ {<<Opaque>>}
  BY DiffDirIs DEF IsUpper
<1>2. k - 1 = Len(DiffDir(up))
  BY <1>1
<1> QED
  BY <1>1, <1>2, FramedEnds DEF Complete, Written

\* An empty tar holds the headers of no path.
LEMMA StartsEmpty ==
    ASSUME NEW up, NEW was
    PROVE  Written(<<>>, up, Upto(up, 0), was) /\ NoOpaque(Upto(up, 0))
<1>1. Upto(up, 0) = {} /\ Range(<<>>) = {} /\ DOMAIN <<>> = {}
  BY DEF Upto, Range
<1> QED
  BY <1>1, EmptyFacts DEF Written, NoOpaque, FramedTo, Entries, HeadersOf

-----------------------------------------------------------------------------
(* Every step.                                                             *)

\* What is said of a tar stays true while nobody writes it, and of the file that
\* is copied while it is there.
LEMMA TarUntouched ==
    ASSUME NEW v, TarInv(v), Untouched(v), upper' = upper,
           v \in Active => been[v] \subseteq been'[v],
           pc[v] = "copy" /\ Copied(v) \in DOMAIN live[v] => Copied(v) \in DOMAIN live'[v],
           changes'[v] = changes[v], at'[v] = at[v], missing'[v] = missing[v]
    PROVE  TarInv(v)'
<1>1. pc'[v] = pc[v] /\ layer'[v] = layer[v] /\ Active' = Active
  BY DEF Untouched, Active
<1>2. ASSUME pc[v] \in Writing
      PROVE  sum'[held'[v]["uncomp"]] = sum[held[v]["uncomp"]]
  BY <1>2 DEF Untouched
<1>3. ASSUME pc[v] # "diff"
      PROVE  /\ v \in Active
             /\ \A u, up, S : Written(u, up, S, been[v]) => Written(u, up, S, been'[v])
             /\ \A u, up, S, c, n :
                  Copying(u, up, S, c, n, been[v]) => Copying(u, up, S, c, n, been'[v])
             /\ \A u, up : Complete(u, up, been[v]) => Complete(u, up, been'[v])
  <2>1. v \in Active /\ been[v] \subseteq been'[v]
    BY <1>3 DEF TarInv
  <2> QED
    BY <2>1, WasGrows
<1>4. ASSUME pc[v] \in {"entry", "body", "copy"}
      PROVE  Half(v)'
  <2> DEFINE u == sum[held[v]["uncomp"]]
             c == changes[v][at[v]]
             before == Upto(upper[v], at[v] - 1)
  <2>1. Half(v) /\ pc[v] # "diff"
    BY <1>4 DEF TarInv
  <2>2. sum'[held'[v]["uncomp"]] = u
    BY <1>2, <1>4 DEF Writing
  <2>3. pc[v] = "entry" /\ missing[v] = 0 => Written(u, upper[v], before, been'[v])
    BY <1>3, <2>1 DEF Half
  <2>4. pc[v] \in {"body", "copy"} =>
           Copying(u, upper[v], before, c, c.info.size - missing[v], been'[v])
    BY <1>3, <2>1 DEF Half
  <2>5. pc[v] = "copy" => c.path \in DOMAIN live'[v]
    BY <2>1 DEF Half, Copied
  <2> QED
    BY <1>1, <2>1, <2>2, <2>3, <2>4, <2>5 DEF Half
<1>5. pc[v] \in {"gzclose", "flush", "sum"} =>
        Complete(sum'[held'[v]["uncomp"]], upper'[v], been'[v])
  BY <1>2, <1>3 DEF TarInv, Writing
<1>6. pc[v] \in Returned => Complete(layer'[v].diffID, upper'[v], been'[v])
  BY <1>1, <1>3 DEF TarInv, Returned
<1> QED
  BY <1>1, <1>3, <1>4, <1>5, <1>6 DEF TarInv

\* What a step writes through the pipeline of w is behind the tar of w.
LEMMA OwnWrites ==
    ASSUME BlobInv, NEW w \in Writers, pc[w] \in {"entry", "body", "copy"}, NEW x, IsSeq(x), Write(w, x)
    PROVE  /\ held' = held /\ OnlyOwn(w)
           /\ sum'[held[w]["uncomp"]] = Cat(sum[held[w]["uncomp"]], x)
<1>1. Flow(w) /\ held' = held /\ PoolInv /\ Shapes
  BY DEF BlobInv, WriterInv, Writing, Write
<1> QED
  BY <1>1, WriteFlow

\* A step of w touches no other writer.
LEMMA TouchesOwn ==
    ASSUME BlobInv, Tables, NEW w \in Writers, Snapshot(w), NEW v \in Writers, v # w
    PROVE  /\ Untouched(v) /\ upper' = upper
           /\ changes'[v] = changes[v] /\ at'[v] = at[v] /\ missing'[v] = missing[v]
<1>0. PoolInv /\ Shapes /\ pc \in [Writers -> Steps]
  BY DEF BlobInv, PoolInv, Bookkeeping
<1>1. /\ upper' = upper
      /\ changes'[v] = changes[v] /\ at'[v] = at[v] /\ missing'[v] = missing[v]
  <2>1. /\ upper' = upper
        /\ changes' = changes \/ \E x : changes' = [changes EXCEPT ![w] = x]
        /\ at' = at \/ \E x : at' = [at EXCEPT ![w] = x]
        /\ missing' = missing \/ \E x : missing' = [missing EXCEPT ![w] = x]
    BY DEF Snapshot, Diff, CreateTemp, EarlyError, Open, SkipChange, WriteHeader, OpenFile,
           CopyBlock, EndCopy, CloseTar, FinishGzip, FinishBuf, Sum, GiveBack, Return, WriteError, Rename
  <2> QED
    BY <2>1 DEF Tables
<1>2. ASSUME NEW s, pc' = [pc EXCEPT ![w] = s], UNCHANGED <<held, sum, gz, buf>>,
             file'[v] = file[v], layer'[v] = layer[v], DOMAIN named \subseteq DOMAIN named'
      PROVE  Untouched(v)
  <2>1. pc'[v] = pc[v]
    BY <1>0, <1>2
  <2> QED
    BY <1>2, <2>1 DEF Untouched
<1>3. CASE \/ Diff(w) \/ CreateTemp(w) \/ EarlyError(w) \/ OpenFile(w) \/ EndCopy(w)
           \/ Sum(w) \/ GiveBack(w) \/ Return(w)
  <2>1. /\ \E s : pc' = [pc EXCEPT ![w] = s]
        /\ UNCHANGED <<held, sum, gz, buf, file, named>> /\ layer'[v] = layer[v]
    BY <1>0, <1>3 DEF Diff, CreateTemp, EarlyError, OpenFile, EndCopy, Sum, GiveBack, Return,
                      Goto, poolVars, Shapes
  <2> QED
    BY <1>1, <1>2, <2>1
<1>4. CASE WriteError(w)
  <2>1. /\ pc' = [pc EXCEPT ![w] = "failed"]
        /\ UNCHANGED <<held, sum, gz, buf, named, layer>> /\ file'[v] = file[v]
    BY <1>0, <1>4 DEF WriteError, Goto, Shapes
  <2> QED
    BY <1>1, <1>2, <2>1
<1>5. CASE Rename(w)
  <2>1. /\ pc' = [pc EXCEPT ![w] = "done"] /\ UNCHANGED <<held, sum, gz, buf>>
        /\ file'[v] = file[v] /\ layer'[v] = layer[v] /\ DOMAIN named \subseteq DOMAIN named'
    BY <1>0, <1>5 DEF Rename, Goto, Shapes
  <2> QED
    BY <1>1, <1>2, <2>1
<1>6. CASE Open(w)
  BY <1>1, <1>6, OpensEmpty
<1>7. CASE SkipChange(w)
  <2>1. UNCHANGED <<pc, held, sum, gz, buf, file, layer, named>>
    BY <1>7 DEF SkipChange, poolVars
  <2> QED
    BY <1>1, <2>1 DEF Untouched
<1>8. CASE WriteHeader(w) \/ CopyBlock(w) \/ CloseTar(w)
  <2>1. PICK x : IsSeq(x) /\ Write(w, x) /\ pc[w] \in {"entry", "body", "copy"}
    BY <1>8, HeadersAreSeqs, PiecesAreSeqs DEF WriteHeader, CopyBlock, CloseTar, More, ToWrite
  <2>2. /\ \E s : pc' = [pc EXCEPT ![w] = s]
        /\ UNCHANGED <<layer, named>>
    <3>1. pc' = pc => pc' = [pc EXCEPT ![w] = pc[w]]
      BY <1>0
    <3> QED
      BY <1>8, <3>1 DEF WriteHeader, CopyBlock, CloseTar, Goto, More
  <2>3. held' = held /\ OnlyOwn(w)
    BY <2>1, OwnWrites
  <2> QED
    BY <1>0, <1>1, <2>1, <2>2, <2>3, OthersUntouched DEF Writing
<1>9. CASE FinishGzip(w) \/ FinishBuf(w)
  <2>1. /\ pc[w] \in Writing /\ \E s : pc' = [pc EXCEPT ![w] = s]
        /\ UNCHANGED <<held, layer, named>>
        /\ \/ pc[w] = "gzclose" /\ CloseGzip(w)
           \/ pc[w] = "flush" /\ Flush(w)
    BY <1>9 DEF FinishGzip, FinishBuf, CloseGzip, Flush, Goto, Writing
  <2>2. Flow(w)
    BY <2>1 DEF BlobInv, WriterInv
  <2>3. OnlyOwn(w)
    BY <1>0, <2>1, <2>2, CloseGzipFlow, FlushFlow
  <2> QED
    BY <1>0, <1>1, <2>1, <2>3, OthersUntouched
<1> QED
  BY <1>3, <1>4, <1>5, <1>6, <1>7, <1>8, <1>9 DEF Snapshot

\* The invariant holds at first.
LEMMA LayerInvInit == Init => LayerInv
<1> SUFFICES ASSUME Init PROVE LayerInv
  OBVIOUS
<1>1. upper \in Scenarios /\ \A w \in Active : IsTree(upper[w])
  BY ScenariosAreTrees DEF Init, Active
<1>2. Trees
  <2>1. ASSUME NEW w \in Active
        PROVE  Tree(upper[w], live[w], been[w])
    <3> DEFINE up == upper[w]
               first(p) == [k \in 1..up[p].size |-> 0]
    <3>1. DOMAIN up \subseteq Path /\ \A p \in DOMAIN up : up[p] \in Node
      BY <1>1, <2>1 DEF IsTree
    <3>2. /\ live[w] = [p \in DOMAIN up |-> [kind |-> up[p].kind, blocks |-> first(p)]]
          /\ been[w] = UNION {{<<p, k, 0>> : k \in 1..up[p].size} : p \in DOMAIN up}
      BY <2>1 DEF Init, Active
    <3> HIDE DEF up
    <3>3. 0 \in 0..MaxTouch
      BY BoundIsNumber
    <3>4. \A p \in DOMAIN up : up[p].kind \in Kind /\ up[p].size \in 0..MaxSize
      BY <3>1 DEF Node
    <3>5. ASSUME NEW p \in DOMAIN up
          PROVE  /\ first(p) \in Seq(0..MaxTouch) /\ Len(first(p)) = up[p].size
                 /\ \A k \in 1..up[p].size : first(p)[k] = 0 /\ <<p, k, 0>> \in been[w]
      <4>1. up[p].size \in Nat
        BY <3>4
      <4>2. first(p) \in [1..up[p].size -> 0..MaxTouch]
        BY <3>3
      <4>3. \A k \in 1..up[p].size : first(p)[k] = 0
        OBVIOUS
      <4>4. \A k \in 1..up[p].size : <<p, k, 0>> \in been[w]
        BY <3>2
      <4> HIDE DEF first
      <4>5. first(p) \in Seq(0..MaxTouch) /\ DOMAIN first(p) = 1..up[p].size
        BY <4>1, <4>2, SeqDef
      <4>6. Len(first(p)) = up[p].size
        BY <4>1, <4>5, LenProperties
      <4> QED
        BY <4>3, <4>4, <4>5, <4>6
    <3> HIDE DEF first
    <3>6. been[w] \subseteq Path \X (1..MaxSize) \X (0..MaxTouch)
      <4>1. \A x \in been[w] : \E p \in DOMAIN up : \E k \in 1..up[p].size : x = <<p, k, 0>>
        BY <3>2
      <4>2. \A p \in DOMAIN up : \A k \in 1..up[p].size : p \in Path /\ k \in 1..MaxSize
        BY <3>1, <3>4, SizesAreNumbers
      <4> QED
        BY <3>3, <4>1, <4>2
    <3>7. /\ DOMAIN live[w] = DOMAIN up
          /\ \A p \in DOMAIN up : live[w][p] = [kind |-> up[p].kind, blocks |-> first(p)]
      BY <3>2
    <3>8. ASSUME NEW p \in DOMAIN up
          PROVE  /\ live[w][p] \in [kind : Kind, blocks : Seq(0..MaxTouch)]
                 /\ live[w][p].kind = up[p].kind
                 /\ \A k \in 1..Len(live[w][p].blocks) : <<p, k, live[w][p].blocks[k]>> \in been[w]
      <4>1. live[w][p] = [kind |-> up[p].kind, blocks |-> first(p)]
        BY <3>7
      <4>2. live[w][p].kind = up[p].kind /\ live[w][p].blocks = first(p)
        BY <4>1
      <4>3. live[w][p] \in [kind : Kind, blocks : Seq(0..MaxTouch)]
        BY <3>4, <3>5, <4>1
      <4> QED
        BY <3>5, <4>2, <4>3
    <3> QED
      BY <3>6, <3>7, <3>8 DEF Tree, up
  <2>2. DOMAIN live = Active /\ DOMAIN been = Active
    BY DEF Init
  <2> QED
    BY <1>1, <2>1, <2>2 DEF Trees
<1>3. Tables
  BY BoundIsNumber DEF Init, Tables
<1>4. \A w \in Writers : pc[w] = "diff" /\ at[w] = 1 /\ missing[w] = 0
  BY DEF Init
<1>5. \A w \in Writers : TarInv(w)
  BY <1>4 DEF TarInv, Returned
<1> QED
  BY <1>2, <1>3, <1>5, BlobInvInit DEF LayerInv

\* The upper directories that are worked on.
LEMMA UppersAre ==
    ASSUME Trees, NEW w \in Active
    PROVE  IsUpper(upper[w])
BY ScenariosAreTrees, OpaqueMarkersAreFiles DEF Trees, Active, IsUpper

\* What a leftover process does is done to one file of one directory, of which
\* been has every block; an open file is not removed.
LEMMA LeftoverDoes ==
    ASSUME Trees, Tables, NEW w \in Active, Leftover(w)
    PROVE  /\ Trees' /\ Tables'
           /\ \A v \in Active : been[v] \subseteq been'[v]
           /\ \A v \in Active : pc[v] = "copy" /\ Copied(v) \in DOMAIN live[v] =>
                Copied(v) \in DOMAIN live'[v]
<1>1. /\ touched < MaxTouch /\ touched' = touched + 1 /\ touched \in 0..MaxTouch
      /\ upper' = upper /\ UNCHANGED <<changes, at, missing>>
      /\ upper \in Scenarios
      /\ DOMAIN live = Active /\ DOMAIN been = Active /\ Active' = Active
      /\ \A v \in Active : Tree(upper[v], live[v], been[v])
      /\ IsTree(upper[w])
  BY UppersAre DEF Leftover, Trees, Tables, Active, snapshotVars, IsUpper
<1>2. Tables'
  BY <1>1, BoundIsNumber DEF Tables
<1> DEFINE up == upper[w]
           now == live[w]
           was == been[w]
<1>3. PICK p \in DOMAIN now :
        /\ now[p].kind = "file"
        /\ \/ \E n \in 0..MaxSize : \E b \in Rewritten(now[p].blocks, n, touched + 1) :
                /\ live' = [live EXCEPT ![w][p].blocks = b]
                /\ been' = [been EXCEPT ![w] = @ \cup {<<p, k, b[k]>> : k \in 1..n}]
           \/ /\ ~(pc[w] = "copy" /\ Copied(w) = p)
              /\ live' = [live EXCEPT ![w] = [q \in DOMAIN live[w] \ {p} |-> live[w][q]]]
              /\ been' = been
  BY DEF Leftover
<1> DEFINE Fine(now2, was2) ==
             /\ DOMAIN live' = Active /\ DOMAIN been' = Active
             /\ live'[w] = now2 /\ been'[w] = was2
             /\ \A v \in Active : v # w => live'[v] = live[v] /\ been'[v] = been[v]
             /\ was \subseteq was2
             /\ Tree(up, now2, was2)
             /\ pc[w] = "copy" /\ Copied(w) \in DOMAIN now => Copied(w) \in DOMAIN now2
<1>4. \E now2, was2 : Fine(now2, was2)
  <2>1. Tree(up, now, was) /\ DOMAIN up \subseteq Path
    BY <1>1 DEF IsTree
  <2>2. CASE \E n \in 0..MaxSize : \E b \in Rewritten(now[p].blocks, n, touched + 1) :
               /\ live' = [live EXCEPT ![w][p].blocks = b]
               /\ been' = [been EXCEPT ![w] = @ \cup {<<p, k, b[k]>> : k \in 1..n}]
    <3>0. PICK n \in 0..MaxSize : \E b \in [1..n -> 0..MaxTouch] :
               /\ live' = [live EXCEPT ![w][p].blocks = b]
               /\ been' = [been EXCEPT ![w] = @ \cup {<<p, k, b[k]>> : k \in 1..n}]
      BY <2>2 DEF Rewritten
    <3>1. PICK b \in [1..n -> 0..MaxTouch] :
               /\ live' = [live EXCEPT ![w][p].blocks = b]
               /\ been' = [been EXCEPT ![w] = @ \cup {<<p, k, b[k]>> : k \in 1..n}]
      BY <3>0
    <3> DEFINE now2 == [now EXCEPT ![p] = [now[p] EXCEPT !.blocks = b]]
               new == {<<p, k, b[k]>> : k \in 1..n}
    <3>2. /\ DOMAIN live' = Active /\ DOMAIN been' = Active
          /\ live'[w] = now2 /\ been'[w] = was \cup new
          /\ \A v \in Active : v # w => live'[v] = live[v] /\ been'[v] = been[v]
      <4>1. /\ live' = [live EXCEPT ![w] = now2]
            /\ been' = [been EXCEPT ![w] = was \cup new]
        BY <1>1, <3>1
      <4> HIDE DEF now2, new, was
      <4> QED
        BY <1>1, <4>1
    <3>3. n \in Nat /\ b \in Seq(0..MaxTouch) /\ Len(b) = n
      <4>1. n \in Nat
        OBVIOUS
      <4>2. b \in Seq(0..MaxTouch) /\ DOMAIN b = 1..n
        BY <4>1, SeqDef
      <4> QED
        BY <4>1, <4>2, LenProperties
    <3>4. new \subseteq Path \X (1..MaxSize) \X (0..MaxTouch)
      <4>1. p \in Path /\ 1..n \subseteq 1..MaxSize
        BY <2>1, SizesAreNumbers DEF Tree
      <4>2. \A k \in 1..n : b[k] \in 0..MaxTouch
        OBVIOUS
      <4> QED
        BY <4>1, <4>2
    <3>5. /\ now[p] \in [kind : Kind, blocks : Seq(0..MaxTouch)]
          /\ now[p].kind = up[p].kind
      BY <2>1 DEF Tree
    <3>6. /\ [now[p] EXCEPT !.blocks = b] \in [kind : Kind, blocks : Seq(0..MaxTouch)]
          /\ [now[p] EXCEPT !.blocks = b].kind = up[p].kind
          /\ [now[p] EXCEPT !.blocks = b].blocks = b
      BY <3>3, <3>5
    <3>7. /\ DOMAIN now2 = DOMAIN now
          /\ now2[p] = [now[p] EXCEPT !.blocks = b]
          /\ \A q \in DOMAIN now : q # p => now2[q] = now[q]
      OBVIOUS
    <3>8. \A k \in 1..n : <<p, k, b[k]>> \in new
      OBVIOUS
    <3> HIDE DEF now2, new, up, now, was
    <3>9. Tree(up, now2, was \cup new)
      <4>1. DOMAIN now2 \subseteq DOMAIN up /\ was \cup new \subseteq Path \X (1..MaxSize) \X (0..MaxTouch)
        BY <2>1, <3>4, <3>7 DEF Tree
      <4>2. ASSUME NEW q \in DOMAIN now2
            PROVE  /\ now2[q] \in [kind : Kind, blocks : Seq(0..MaxTouch)]
                   /\ now2[q].kind = up[q].kind
                   /\ \A k \in 1..Len(now2[q].blocks) : <<q, k, now2[q].blocks[k]>> \in was \cup new
        <5>1. CASE q = p
          BY <3>3, <3>6, <3>7, <3>8, <5>1
        <5>2. CASE q # p
          BY <2>1, <3>7, <5>2 DEF Tree
        <5> QED
          BY <5>1, <5>2
      <4> QED
        BY <4>1, <4>2 DEF Tree
    <3>10. Fine(now2, was \cup new)
      BY <3>2, <3>7, <3>9 DEF up, now, was
    <3> QED
      BY <3>10
  <2>3. CASE /\ ~(pc[w] = "copy" /\ Copied(w) = p)
             /\ live' = [live EXCEPT ![w] = [q \in DOMAIN live[w] \ {p} |-> live[w][q]]]
             /\ been' = been
    <3> DEFINE now2 == [q \in DOMAIN now \ {p} |-> now[q]]
    <3>1. been' = been /\ been'[w] = was
      BY <2>3
    <3>2. DOMAIN now2 = DOMAIN now \ {p} /\ \A q \in DOMAIN now2 : now2[q] = now[q]
      OBVIOUS
    <3>3. live' = [live EXCEPT ![w] = now2]
      BY <2>3
    <3> HIDE DEF now2, up, now, was
    <3>7. /\ DOMAIN live' = Active /\ DOMAIN been' = Active
          /\ live'[w] = now2
          /\ \A v \in Active : v # w => live'[v] = live[v] /\ been'[v] = been[v]
      BY <1>1, <3>1, <3>3
    <3>4. Tree(up, now2, was)
      BY <2>1, <3>2 DEF Tree
    <3>5. pc[w] = "copy" /\ Copied(w) \in DOMAIN now => Copied(w) \in DOMAIN now2
      BY <2>3, <3>2
    <3>6. Fine(now2, was)
      BY <3>1, <3>4, <3>5, <3>7 DEF up, now, was
    <3> QED
      BY <3>6
  <2> QED
    BY <1>3, <2>2, <2>3
<1>5. PICK now2, was2 : Fine(now2, was2)
  BY <1>4
<1>6. /\ DOMAIN live' = Active /\ DOMAIN been' = Active
      /\ live'[w] = now2 /\ been'[w] = was2
      /\ \A v \in Active : v # w => live'[v] = live[v] /\ been'[v] = been[v]
  BY <1>5
<1>7. Trees'
  <2>1. \A v \in Active : Tree(upper[v], live'[v], been'[v])
    BY <1>1, <1>5, <1>6
  <2> QED
    BY <1>1, <1>6, <2>1 DEF Trees
<1>8. \A v \in Active : been[v] \subseteq been'[v]
  BY <1>5, <1>6
<1>9. \A v \in Active : pc[v] = "copy" /\ Copied(v) \in DOMAIN live[v] =>
          Copied(v) \in DOMAIN live'[v]
  BY <1>5, <1>6
<1> QED
  BY <1>2, <1>7, <1>8, <1>9

\* The writers change nothing of what they copy.
LEMMA ReadsOnly ==
    ASSUME NEW w \in Writers, Snapshot(w)
    PROVE  UNCHANGED <<upper, live, been, touched>>
BY DEF Snapshot, Diff, CreateTemp, EarlyError, Open, SkipChange, WriteHeader, OpenFile,
       CopyBlock, EndCopy, CloseTar, FinishGzip, FinishBuf, Sum, GiveBack, Return, WriteError, Rename

\* A step of w keeps what is said of its own tar.
LEMMA OwnTar ==
    ASSUME LayerInv, NEW w \in Writers, Snapshot(w)
    PROVE  TarInv(w)'
<1> DEFINE up == upper[w]
           k  == at[w]
           c  == changes[w][k]
           u  == sum[held[w]["uncomp"]]
           before == Upto(up, k - 1)
           was == been[w]
<1>0. /\ BlobInv /\ Trees /\ Tables /\ TarInv(w)
      /\ pc \in [Writers -> Steps] /\ DOMAIN layer = Writers
      /\ upper' = upper /\ live' = live /\ been' = been
  BY ReadsOnly DEF LayerInv, BlobInv, PoolInv, Bookkeeping, Shapes
<1>1. pc[w] # "diff" => w \in Active /\ IsUpper(up)
  BY <1>0, UppersAre DEF TarInv
<1>2. Active' = Active
  BY <1>0 DEF Active
<1>3. CASE Diff(w)
  <2>1. /\ pc[w] = "diff" /\ w \in Active /\ pc'[w] = "create"
        /\ changes'[w] = DiffDir(up) /\ UNCHANGED <<at, missing>>
    BY <1>0, <1>3 DEF Diff, Goto, Tables
  <2> QED
    BY <1>0, <1>2, <2>1 DEF TarInv, Returned
<1>4. CASE CreateTemp(w)
  <2>1. pc[w] = "create" /\ pc'[w] = "open" /\ UNCHANGED <<changes, at, missing>>
    BY <1>0, <1>4 DEF CreateTemp, Goto
  <2> QED
    BY <1>0, <1>2, <2>1 DEF TarInv, Returned
<1>5. CASE EarlyError(w) \/ WriteError(w)
  <2>1. w \in Active /\ pc'[w] = "failed"
    BY <1>0, <1>5 DEF EarlyError, WriteError, Goto, TarInv
  <2> QED
    BY <1>0, <1>2, <2>1 DEF TarInv, Returned
<1>6. CASE Open(w)
  <2>1. pc[w] = "open" /\ pc'[w] = "entry" /\ UNCHANGED <<changes, at, missing>>
    BY <1>0, <1>6 DEF Open, Goto
  <2>2. sum'[held'[w]["uncomp"]] = <<>>
    BY <1>0, <1>6, OpensEmpty
  <2>3. changes[w] = DiffDir(up) /\ at[w] = 1 /\ missing[w] = 0
    BY <1>0, <2>1 DEF TarInv
  <2>4. Len(DiffDir(up)) \in Nat
    BY <1>1, <2>1, DiffDirIs DEF IsUpper
  <2>5. 1 <= Len(DiffDir(up)) + 1 /\ 1 - 1 = 0
    BY <2>4
  <2>6. Half(w)'
    BY <1>0, <2>1, <2>2, <2>3, <2>5, StartsEmpty DEF Half
  <2> QED
    BY <1>1, <1>2, <2>1, <2>6 DEF TarInv, Returned
<1>7. ASSUME pc[w] \in {"entry", "body", "copy"}
      PROVE  /\ w \in Active /\ IsUpper(up)
             /\ changes[w] = DiffDir(up)
             /\ k \in Nat \ {0} /\ k <= Len(DiffDir(up)) + 1 /\ (k + 1) - 1 = k
             /\ missing[w] \in Nat
             /\ NoOpaque(before)
             /\ pc[w] = "entry" /\ missing[w] = 0 => Written(u, up, before, was)
             /\ pc[w] \in {"body", "copy"} =>
                  /\ k <= Len(DiffDir(up)) /\ IsFile(c)
                  /\ c.info.size \in Nat /\ missing[w] <= c.info.size
                  /\ Copying(u, up, before, c, c.info.size - missing[w], was)
             /\ pc[w] = "copy" => c.path \in DOMAIN live[w] /\ up[c.path].kind = "file"
             /\ Len(DiffDir(up)) \in Nat
  <2>1. Half(w)
    BY <1>0, <1>7 DEF TarInv
  <2>2. IsUpper(up) /\ w \in Active
    BY <1>1, <1>7
  <2>3. Len(DiffDir(up)) \in Nat
    BY <2>2, DiffDirIs DEF IsUpper
  <2>4. k \in Nat \ {0} => (k + 1) - 1 = k
    OBVIOUS
  <2> QED
    BY <2>1, <2>2, <2>3, <2>4 DEF Half
<1> HIDE DEF up, k, c, u, before, was
<1>8. CASE SkipChange(w)
  <2>1. /\ pc[w] = "entry" /\ k <= Len(changes[w]) /\ HeaderOf(changes[w][k]) = <<>>
        /\ at'[w] = k + 1 /\ UNCHANGED <<changes, missing, pc, sum, held>>
    BY <1>0, <1>8 DEF SkipChange, More, ToWrite, Tables, poolVars, k
  <2>2. /\ NoOpaque(Upto(up, k))
        /\ \A v : Written(v, up, Upto(up, k - 1), was) => Written(v, up, Upto(up, k), was)
    BY <1>7, <2>1, Skips DEF before
  <2>3. /\ k + 1 \in Nat \ {0} /\ k + 1 <= Len(DiffDir(up)) + 1
        /\ missing[w] = 0 => Written(u, up, Upto(up, k), was)
    BY <1>7, <2>1, <2>2 DEF before
  <2>4. Half(w)'
    BY <1>0, <1>7, <2>1, <2>2, <2>3 DEF Half, up, k, u, was
  <2> QED
    BY <1>2, <1>7, <2>1, <2>4 DEF TarInv, Returned
<1>9. CASE WriteHeader(w)
  <2>1. /\ pc[w] = "entry" /\ k <= Len(changes[w]) /\ HeaderOf(c) # <<>> /\ missing[w] = 0
        /\ Write(w, HeaderOf(c)) /\ changes' = changes
    BY <1>9 DEF WriteHeader, More, ToWrite, k, c
  <2>2. held' = held /\ sum'[held[w]["uncomp"]] = Cat(u, HeaderOf(c))
    BY <1>0, <2>1, HeadersAreSeqs, OwnWrites DEF u
  <2>3. c = DiffDir(up)[k] /\ k <= Len(DiffDir(up))
    BY <1>7, <2>1 DEF c, k
  <2>4. PICK h : HeaderOf(c) = <<h>>
    BY <2>1, HeaderFacts
  <2>5. Written(u, up, before, was)
    BY <1>7, <2>1
  <2>6. CASE IsFile(c)
    <3>1. missing'[w] = c.info.size /\ pc'[w] = "body" /\ at' = at
      BY <1>0, <1>9, <2>6 DEF WriteHeader, Goto, Tables, c, k
    <3>2. c.info.size \in Nat
      <4>1. /\ c = ChangeAt(up, Found(up)[k]) /\ Found(up)[k] \in DOMAIN up
        BY <1>7, <2>1, <2>3, AtChange
      <4>2. c.info = up[Found(up)[k]]
        BY <2>6, <4>1 DEF ChangeAt, IsFile
      <4>3. up[Found(up)[k]] \in Node
        BY <1>7, <2>1, <4>1 DEF IsUpper, IsTree
      <4> QED
        BY <4>2, <4>3 DEF Node
    <3>3. Copying(Cat(u, HeaderOf(c)), up, before, c, 0, was)
      BY <2>5, StartsFile
    <3>4. sum'[held'[w]["uncomp"]] = Cat(u, HeaderOf(c)) /\ c.info.size - missing'[w] = 0
      BY <2>2, <3>1, <3>2
    <3>5. /\ changes'[w] = DiffDir(up) /\ at'[w] = k /\ changes'[w][at'[w]] = c /\ upper'[w] = up
          /\ Upto(upper'[w], at'[w] - 1) = before /\ been'[w] = was
      BY <1>0, <1>7, <2>1, <3>1 DEF c, k, up, before, was
    <3>6. Half(w)'
      BY <1>7, <2>1, <2>3, <2>6, <3>1, <3>2, <3>3, <3>4, <3>5 DEF Half
    <3> QED
      BY <1>2, <1>7, <2>1, <3>1, <3>6 DEF TarInv, Returned
  <2>7. CASE ~IsFile(c)
    <3>1. missing'[w] = 0 /\ pc'[w] = "entry" /\ at'[w] = k + 1
      BY <1>0, <1>9, <2>1, <2>7 DEF WriteHeader, Tables, c, k
    <3>2. NoOpaque(Upto(up, k)) /\ Written(Cat(u, <<h>>), up, Upto(up, k), was)
      BY <1>7, <2>1, <2>3, <2>4, <2>5, <2>7, WritesEntry DEF before
    <3>3. k + 1 \in Nat \ {0} /\ k + 1 <= Len(DiffDir(up)) + 1
      BY <1>7, <2>1, <2>3
    <3>4. Half(w)'
      BY <1>0, <1>7, <2>1, <2>2, <2>4, <3>1, <3>2, <3>3 DEF Half, up, was
    <3> QED
      BY <1>2, <1>7, <2>1, <3>1, <3>4 DEF TarInv, Returned
  <2> QED
    BY <2>6, <2>7
<1>15. CASE OpenFile(w)
  <2>1. /\ pc[w] = "body" /\ pc'[w] = "copy" /\ UNCHANGED <<changes, at, missing, sum, held>>
        /\ c.path \in DOMAIN live[w] /\ live[w][c.path].kind = "file"
    BY <1>0, <1>15 DEF OpenFile, Copied, Goto, poolVars, c, k
  <2>2. upper[w][c.path].kind = "file"
    BY <1>0, <1>7, <2>1 DEF Trees, Tree
  <2>3. Half(w)'
    BY <1>0, <1>7, <2>1, <2>2 DEF Half, up, k, c, u, before, was
  <2> QED
    BY <1>2, <1>7, <2>1, <2>3 DEF TarInv, Returned
<1>16. CASE CopyBlock(w)
  <2> DEFINE blocks == live[w][c.path].blocks
             n == c.info.size - missing[w]
  <2>1. /\ pc[w] = "copy" /\ UNCHANGED <<pc, changes, at>>
        /\ missing[w] > 0 /\ NextBlock(w) <= Len(blocks) /\ missing'[w] = missing[w] - 1
        /\ Write(w, <<Body(blocks[NextBlock(w)])>>)
    BY <1>0, <1>16 DEF CopyBlock, Copied, Tables, c, k
  <2>2. /\ n \in Nat /\ NextBlock(w) = n + 1 /\ Copying(u, up, before, c, n, was)
        /\ missing'[w] \in Nat /\ missing'[w] <= c.info.size /\ c.info.size - missing'[w] = n + 1
    <3>1. NextBlock(w) = n + 1
      BY DEF NextBlock, c, k
    <3>2. /\ c.info.size \in Nat /\ missing[w] \in Nat /\ missing[w] <= c.info.size
          /\ Copying(u, up, before, c, n, was)
      BY <1>7, <2>1
    <3>3. \A a, b \in Nat : b <= a /\ b > 0 =>
            /\ a - b \in Nat /\ b - 1 \in Nat /\ b - 1 <= a /\ a - (b - 1) = (a - b) + 1
      OBVIOUS
    <3> QED
      BY <2>1, <3>1, <3>2, <3>3
  <2>3. <<c.path, n + 1, blocks[n + 1]>> \in was
    <3>1. /\ blocks \in Seq(0..MaxTouch)
          /\ \A j \in 1..Len(blocks) : <<c.path, j, blocks[j]>> \in was
      BY <1>0, <1>7, <2>1 DEF Trees, Tree, was
    <3> HIDE DEF blocks, n
    <3>2. n + 1 \in 1..Len(blocks)
      BY <2>1, <2>2, <3>1
    <3> QED
      BY <3>1, <3>2
  <2>4. held' = held /\ sum'[held[w]["uncomp"]] = Cat(u, <<Body(blocks[n + 1])>>)
    BY <1>0, <2>1, <2>2, PiecesAreSeqs, OwnWrites DEF u
  <2> HIDE DEF blocks, n
  <2>5. Copying(Cat(u, <<Body(blocks[n + 1])>>), up, before, c, n + 1, was)
    BY <2>2, <2>3, CopiesMore
  <2>6. /\ changes'[w] = DiffDir(up) /\ at'[w] = k /\ changes'[w][at'[w]] = c /\ upper'[w] = up
        /\ Upto(upper'[w], at'[w] - 1) = before /\ been'[w] = was /\ live'[w] = live[w]
        /\ pc'[w] = "copy"
    BY <1>0, <1>7, <2>1 DEF c, k, up, before, was
  <2>7. Half(w)'
    BY <1>7, <2>1, <2>2, <2>4, <2>5, <2>6 DEF Half
  <2> QED
    BY <1>2, <1>7, <2>1, <2>6, <2>7 DEF TarInv, Returned
<1>10. CASE EndCopy(w)
  <2>1. /\ pc[w] = "copy" /\ pc'[w] = "entry" /\ UNCHANGED <<changes, missing, sum, held>>
        /\ at'[w] = k + 1
    BY <1>0, <1>10 DEF EndCopy, Goto, Tables, poolVars, k
  <2>2. /\ k <= Len(DiffDir(up)) /\ IsFile(c) /\ c = DiffDir(up)[k] /\ c.info.size \in Nat
        /\ Copying(u, up, before, c, c.info.size - missing[w], was)
        /\ c.path \in DOMAIN up /\ ~IsDir(up[c.path])
    BY <1>0, <1>7, <2>1 DEF c, k, IsDir, Trees, Tree, up
  <2>3. Base(Found(up)[k]) # Opaque
    <3>1. c = ChangeAt(up, Found(up)[k]) /\ Found(up)[k] \in DOMAIN up
      BY <1>7, <2>1, <2>2, AtChange
    <3> QED
      BY <1>7, <2>1, <2>2, <3>1, OpaqueFacts
  <2>4. /\ NoOpaque(Upto(up, k))
        /\ Copying(u, up, before, c, c.info.size, was) => Written(u, up, Upto(up, k), was)
    BY <1>7, <2>1, <2>2, <2>3, EndsFile DEF before
  <2>5. missing[w] = 0 => Written(u, up, Upto(up, k), was)
    <3>1. missing[w] = 0 => c.info.size - missing[w] = c.info.size
      BY <2>2
    <3> QED
      BY <2>2, <2>4, <3>1
  <2>6. k + 1 \in Nat \ {0} /\ k + 1 <= Len(DiffDir(up)) + 1
    BY <1>7, <2>1, <2>2
  <2>7. Half(w)'
    BY <1>0, <1>7, <2>1, <2>4, <2>5, <2>6 DEF Half, up, u, was
  <2> QED
    BY <1>2, <1>7, <2>1, <2>7 DEF TarInv, Returned
<1>11. CASE CloseTar(w)
  <2>1. /\ pc[w] = "entry" /\ k > Len(changes[w]) /\ missing[w] = 0 /\ Write(w, <<End>>)
        /\ pc'[w] = "gzclose"
    BY <1>0, <1>11 DEF CloseTar, Goto, k
  <2>2. held' = held /\ sum'[held[w]["uncomp"]] = Cat(u, <<End>>)
    BY <1>0, <2>1, PiecesAreSeqs, OwnWrites DEF u
  <2>3. Complete(Cat(u, <<End>>), up, was)
    BY <1>7, <2>1, Closes DEF before
  <2> QED
    BY <1>0, <1>2, <1>7, <2>1, <2>2, <2>3 DEF TarInv, Returned, up, was
<1>12. CASE FinishGzip(w) \/ FinishBuf(w)
  <2>1. /\ pc[w] \in {"gzclose", "flush"} /\ pc'[w] \in {"flush", "sum"} /\ held' = held
        /\ \/ pc[w] = "gzclose" /\ CloseGzip(w)
           \/ pc[w] = "flush" /\ Flush(w)
    BY <1>0, <1>12 DEF FinishGzip, FinishBuf, CloseGzip, Flush, Goto
  <2>2. Flow(w) /\ PoolInv /\ Shapes
    BY <1>0, <2>1 DEF BlobInv, WriterInv, Writing
  <2>3. sum'[held[w]["uncomp"]] = u
    BY <2>1, <2>2, CloseGzipFlow, FlushFlow DEF u
  <2>4. Complete(u, up, was) /\ w \in Active
    BY <1>0, <2>1 DEF TarInv, u, up, was
  <2> QED
    BY <1>0, <1>2, <2>1, <2>3, <2>4 DEF TarInv, Returned, up, was
<1>13. CASE Sum(w)
  <2>1. /\ pc[w] = "sum" /\ pc'[w] = "put"
        /\ layer'[w].diffID = u
    BY <1>0, <1>13 DEF Sum, Goto, Pipe, u
  <2>2. Complete(u, up, was) /\ w \in Active
    BY <1>0, <2>1 DEF TarInv, u, up, was
  <2> QED
    BY <1>0, <1>2, <2>1, <2>2 DEF TarInv, Returned, up, was
<1>14. CASE GiveBack(w) \/ Return(w) \/ Rename(w)
  <2>1. /\ pc[w] \in Returned /\ pc'[w] \in {"return", "rename", "done"}
        /\ layer' = layer \/ layer' = [layer EXCEPT ![w].renamed = TRUE]
    BY <1>0, <1>14 DEF GiveBack, Return, Rename, Goto, Returned
  <2>2. layer'[w].diffID = layer[w].diffID
    <3>1. pc[w] \in Returned => "diffID" \in DOMAIN layer[w]
      BY <1>0 DEF BlobInv, WriterInv, Named
    <3> QED
      BY <1>0, <2>1, <3>1
  <2>3. Complete(layer[w].diffID, up, was) /\ w \in Active
    BY <1>0, <2>1 DEF TarInv, Returned, up, was
  <2> QED
    BY <1>0, <1>2, <2>1, <2>2, <2>3 DEF TarInv, Returned, up, was
<1> QED
  BY <1>3, <1>4, <1>5, <1>6, <1>8, <1>9, <1>10, <1>11, <1>12, <1>13, <1>14, <1>15, <1>16
     DEF Snapshot

\* Every step keeps the invariant: its writer's part by OwnTar, the others' because
\* it touches nothing of theirs.
LEMMA LayerInvNext == LayerInv /\ [Next]_vars => LayerInv'
<1> SUFFICES ASSUME LayerInv, [Next]_vars PROVE LayerInv'
  OBVIOUS
<1>0. BlobInv /\ Trees /\ Tables /\ \A w \in Writers : TarInv(w)
  BY DEF LayerInv
<1>1. BlobInv'
  BY <1>0, BlobInvNext
<1>2. ASSUME NEW w \in Writers, Snapshot(w) PROVE Trees' /\ Tables'
  <2>1. UNCHANGED <<upper, live, been, touched>>
    BY <1>2, ReadsOnly
  <2>2. /\ changes' = changes \/ \E x : changes' = [changes EXCEPT ![w] = x]
        /\ at' = at \/ \E x : at' = [at EXCEPT ![w] = x]
        /\ missing' = missing \/ \E x : missing' = [missing EXCEPT ![w] = x]
    BY <1>2 DEF Snapshot, Diff, CreateTemp, EarlyError, Open, SkipChange, WriteHeader, OpenFile,
           CopyBlock, EndCopy, CloseTar, FinishGzip, FinishBuf, Sum, GiveBack, Return, WriteError, Rename
  <2>3. Trees'
    BY <1>0, <2>1 DEF Trees, Active
  <2> QED
    BY <1>0, <2>1, <2>2, <2>3 DEF Tables
<1>3. ASSUME UNCHANGED <<pc, held, sum, upper, layer, file, gz, buf, named, changes, at, missing>>,
             NEW v \in Writers, v \in Active => been[v] \subseteq been'[v],
             pc[v] = "copy" /\ Copied(v) \in DOMAIN live[v] => Copied(v) \in DOMAIN live'[v]
      PROVE  TarInv(v)'
  <2>1. Untouched(v)
    BY <1>3 DEF Untouched
  <2> QED
    BY <1>0, <1>3, <2>1, TarUntouched
<1>4. ASSUME NEW w \in Writers, Snapshot(w) PROVE LayerInv'
  <2>1. ASSUME NEW v \in Writers, v # w PROVE TarInv(v)'
    <3>1. /\ Untouched(v) /\ upper' = upper
          /\ changes'[v] = changes[v] /\ at'[v] = at[v] /\ missing'[v] = missing[v]
      BY <1>0, <1>4, <2>1, TouchesOwn
    <3>2. live' = live /\ been' = been
      BY <1>4, ReadsOnly
    <3> QED
      BY <1>0, <3>1, <3>2, TarUntouched
  <2>2. TarInv(w)'
    BY <1>4, OwnTar
  <2> QED
    BY <1>1, <1>2, <1>4, <2>1, <2>2 DEF LayerInv
<1>5. ASSUME NEW w \in Writers, Leftover(w) PROVE LayerInv'
  <2>1. w \in Active
    BY <1>0, <1>5 DEF Leftover, TarInv
  <2>2. /\ Trees' /\ Tables'
        /\ \A v \in Active : been[v] \subseteq been'[v]
        /\ \A v \in Active : pc[v] = "copy" /\ Copied(v) \in DOMAIN live[v] =>
             Copied(v) \in DOMAIN live'[v]
    BY <1>0, <1>5, <2>1, LeftoverDoes
  <2>3. UNCHANGED <<pc, held, sum, upper, layer, file, gz, buf, named, changes, at, missing>>
    BY <1>5 DEF Leftover, poolVars, snapshotVars
  <2>4. ASSUME NEW v \in Writers PROVE TarInv(v)'
    <3>1. pc[v] = "copy" => v \in Active
      BY <1>0 DEF TarInv
    <3> QED
      BY <1>3, <2>2, <2>3, <3>1
  <2> QED
    BY <1>1, <2>2, <2>4 DEF LayerInv
<1>6. CASE UNCHANGED vars
  <2>1. UNCHANGED <<pc, held, sum, upper, layer, file, gz, buf, named, changes, at, missing,
                    live, been, touched>>
    BY <1>6 DEF vars, poolVars, snapshotVars
  <2>2. \A v \in Writers : TarInv(v)'
    BY <1>3, <2>1
  <2>3. Trees' /\ Tables'
    BY <1>0, <2>1 DEF Trees, Tables, Active
  <2> QED
    BY <1>1, <2>2, <2>3 DEF LayerInv
<1> QED
  BY <1>4, <1>5, <1>6 DEF Next

\* A layer that is returned is a complete archive: its names, kinds and sizes
\* are what the upper directory said when DiffDir read it, and every block of a
\* file is one this file had at this place since.  That is so however many
\* writers share the pools, whatever leftover processes write or remove
\* meanwhile, and over every tree below in which no mark of overlayfs hides
\* anything: of those the layer says nothing.
THEOREM LayersShowUppers == Spec => []LayerShowsUpper
<1>1. LayerInv => LayerShowsUpper
  <2> SUFFICES ASSUME LayerInv, NEW w \in Active, pc[w] = "done",
                      <<Opaque>> \notin DOMAIN upper[w]
               PROVE  /\ Framed(layer[w].diffID, been[w])
                      /\ \A t \in Lowers : \/ \E p \in DOMAIN t : MarkHides(upper[w], p)
                                           \/ Unpack(layer[w].diffID, t) = Said(t, upper[w])
    BY DEF LayerShowsUpper
  <2>1. Complete(layer[w].diffID, upper[w], been[w])
    BY DEF LayerInv, BlobInv, Shapes, TarInv, Returned
  <2>2. DOMAIN upper[w] \ {<<Opaque>>} = DOMAIN upper[w]
    OBVIOUS
  <2>3. IsUpper(upper[w])
    BY UppersAre DEF LayerInv
  <2> QED
    BY <2>1, <2>2, <2>3, HeadersSayAll DEF Complete, NoOpaque
<1> QED
  BY <1>1, LayerInvInit, LayerInvNext, PTL DEF Spec

-----------------------------------------------------------------------------
(* Two directories.                                                        *)

\* The tar of some changes holds their headers.
LEMMA TarOfHolds ==
    ASSUME NEW S, NEW cs \in Seq(S)
    PROVE  \A h : h \in Range(TarOf(cs)) <=> \E c \in Range(cs) : HeaderOf(c) = <<h>>
<1> DEFINE H  == {HeaderOf(c)[1] : c \in S}
           n  == Len(cs)
           ss == [i \in 1..n |-> HeaderOf(cs[i])]
<1>1. n \in Nat /\ DOMAIN cs = 1..n /\ \A i \in 1..n : cs[i] \in S
  BY LenProperties, ElementOfSeq
<1>2. \A h : Range(<<h>>) = {h} /\ <<h>>[1] = h
  BY DEF Range
<1>3. Range(<<>>) = {}
  BY DEF Range
<1>4. \A c \in S : HeaderOf(c) \in Seq(H)
  <2>1. ASSUME NEW c \in S PROVE HeaderOf(c) \in Seq(H)
    <3>1. HeaderOf(c)[1] \in H
      OBVIOUS
    <3> HIDE DEF H
    <3>2. <<>> \in Seq(H) /\ <<HeaderOf(c)[1]>> \in Seq(H)
      BY <3>1
    <3>3. HeaderOf(c) = <<>> \/ HeaderOf(c) = <<HeaderOf(c)[1]>>
      BY <1>2, HeaderFacts
    <3> QED
      BY <3>2, <3>3
  <2> QED
    BY <2>1
<1> HIDE DEF H
<1>5. \A i \in 1..n : ss[i] = HeaderOf(cs[i]) /\ ss[i] \in Seq(H)
  BY <1>1, <1>4
<1>6. ss \in Seq(Seq(H)) /\ Len(ss) = n
  <2> HIDE DEF n
  <2>1. ss \in [1..n -> Seq(H)]
    BY <1>5
  <2> HIDE DEF ss
  <2>2. ss \in Seq(Seq(H)) /\ DOMAIN ss = 1..n
    BY <1>1, <2>1, SeqDef
  <2> QED
    BY <1>1, <2>2, LenProperties
<1>7. TarOf(cs) = FlattenSeq(ss)
  BY <1>1 DEF TarOf
<1> HIDE DEF ss, n
<1>8. Range(TarOf(cs)) = UNION {Range(ss[i]) : i \in 1..n}
  BY <1>6, <1>7, FlattenRange
<1>9. ASSUME NEW i \in 1..n
      PROVE  \A h : h \in Range(ss[i]) <=> HeaderOf(cs[i]) = <<h>>
  <2>1. PICK g : HeaderOf(cs[i]) = <<>> \/ HeaderOf(cs[i]) = <<g>>
    BY HeaderFacts
  <2>2. \A h : <<h>> # <<>> /\ (<<h>> = <<g>> <=> h = g)
    OBVIOUS
  <2> QED
    BY <1>2, <1>3, <1>5, <2>1, <2>2
<1>10. /\ \A i \in 1..n : cs[i] \in Range(cs)
       /\ \A c \in Range(cs) : \E i \in 1..n : c = cs[i]
  BY <1>1, Zenon DEF Range
<1>11. \A h : h \in Range(TarOf(cs)) <=> \E i \in 1..n : h \in Range(ss[i])
  BY <1>8
<1> QED
  BY <1>9, <1>10, <1>11

\* A walk that breaks off has found a tree, a part of the one it walks.
LEMMA WalkedIs ==
    ASSUME NEW t, IsTree(t), Plain(t), NEW m \in Walked(t)
    PROVE  /\ IsTree(m) /\ Plain(m)
           /\ DOMAIN m \subseteq DOMAIN t /\ \A p \in DOMAIN m : m[p] = t[p]
<1>1. PICK k \in 0..Len(WalkOrder) : m = Among(t, {WalkOrder[i] : i \in 1..k})
  BY DEF Walked
<1> DEFINE names == {WalkOrder[i] : i \in 1..k}
<1>2. /\ DOMAIN m = DOMAIN t \cap names
      /\ \A p \in DOMAIN m : m[p] = t[p]
      /\ m = [p \in DOMAIN m |-> m[p]]
  BY <1>1 DEF Among
<1>3. /\ DOMAIN WalkOrder = 1..Len(WalkOrder) /\ Len(WalkOrder) \in Nat
      /\ \A p \in Path : \E i \in DOMAIN WalkOrder : p = WalkOrder[i]
  BY WalkVisitsParentsFirst, LenProperties DEF Path, Range
<1>4. ASSUME NEW p \in names, NEW d \in Path, Below(p, d)
      PROVE  d \in names
  <2>1. PICK i \in 1..k : p = WalkOrder[i]
    OBVIOUS
  <2>2. PICK j \in DOMAIN WalkOrder : d = WalkOrder[j]
    BY <1>3
  <2>3. i \in DOMAIN WalkOrder /\ Below(WalkOrder[i], WalkOrder[j])
    BY <1>3, <1>4, <2>1, <2>2
  <2>4. j < i
    BY <2>3, WalkVisitsParentsFirst
  <2>5. j \in 1..k
    BY <1>3, <2>4
  <2> QED
    BY <2>2, <2>5
<1> HIDE DEF names
<1>5. IsTree(m)
  <2>1. DOMAIN m \subseteq Path /\ m \in [DOMAIN m -> Node]
    BY <1>2 DEF IsTree
  <2>2. \A p \in DOMAIN m, d \in Path : Below(p, d) => d \in DOMAIN m /\ IsDir(m[d])
    BY <1>2, <1>4 DEF IsTree
  <2> QED
    BY <2>1, <2>2 DEF IsTree
<1>6. Plain(m)
  BY <1>2 DEF Plain
<1> QED
  BY <1>2, <1>5, <1>6

\* What is gone, and what may be reported: all that is new, nothing that was
\* there and is a directory now, and whatever else is not what it was.
Gone(old, new) == DOMAIN old \ DOMAIN new
Reported(ch, old, new) ==
    /\ ch \subseteq DOMAIN new
    /\ \A p \in DOMAIN new \ ch : p \in DOMAIN old /\ (IsDir(new[p]) \/ new[p] = old[p])
    /\ \A p \in ch \cap DOMAIN old : ~IsDir(new[p])
\* the change that adds a path
AddOf(new, p) == [path |-> p, delete |-> FALSE, info |-> new[p]]
DeleteOf(p)   == [path |-> p, delete |-> TRUE, info |-> NoInfo]
\* some changes are these additions and these deletions
AreChanges(cs, ch, old, new) ==
    /\ \E S : cs \in Seq(S)
    /\ Range(cs) = {AddOf(new, p) : p \in ch} \cup {DeleteOf(p) : p \in Gone(old, new)}

\* An order of the keys of a map is a sequence of them all.
LEMMA OrderIs ==
    ASSUME NEW K \in SUBSET Path, NEW g \in Orders(K)
    PROVE  g \in Seq(K) /\ Range(g) = K
<1>1. IsFiniteSet(Path)
  <2>1. DOMAIN WalkOrder = 1..Len(WalkOrder) /\ Len(WalkOrder) \in Nat
    BY WalkVisitsParentsFirst, LenProperties
  <2>2. \A p \in Path : \E i \in 1..Len(WalkOrder) : WalkOrder[i] = p
    BY <2>1, Zenon DEF Path, Range
  <2>3. WalkOrder \in [1..Len(WalkOrder) -> Path]
    BY <2>1, WalkVisitsParentsFirst, SeqDef
  <2>4. WalkOrder \in Surjection(1..Len(WalkOrder), Path)
    BY <2>2, <2>3 DEF Surjection
  <2>5. IsFiniteSet(1..Len(WalkOrder))
    BY <2>1, FS_Interval
  <2> QED
    BY <2>4, <2>5, FS_Surjection
<1>2. Cardinality(K) \in Nat
  BY <1>1, FS_Subset, FS_CardinalityType
<1>3. g \in [1..Cardinality(K) -> K] /\ Range(g) = K
  BY DEF Orders
<1> QED
  BY <1>2, <1>3, SeqDef

\* DiffTwoDirs returns additions and deletions of this kind.
LEMMA DiffTwoDirsHolds ==
    ASSUME NEW old, IsTree(old), NEW new, IsTree(new), NEW cs \in DiffTwoDirs(old, new)
    PROVE  \E ch : Reported(ch, old, new) /\ AreChanges(cs, ch, old, new)
<1> DEFINE kept    == {p \in DOMAIN new \cap DOMAIN old : ~IsDir(new[p])}
           changed == (DOMAIN new \ DOMAIN old) \cup {p \in kept : new[p] # old[p]}
           gone    == Gone(old, new)
           adds(f) == [i \in DOMAIN f |-> AddOf(new, f[i])]
           dels(g) == [i \in DOMAIN g |-> DeleteOf(g[i])]
           made(later, left) == adds(InWalkOrder(changed \cup later)) \o dels(left)
<1>1. PICK later \in SUBSET kept : \E left \in Orders(gone) : cs = made(later, left)
  <2>1. DiffTwoDirs(old, new) = {made(later, left) : later \in SUBSET kept, left \in Orders(gone)}
    BY DEF DiffTwoDirs, Gone, AddOf, DeleteOf
  <2> HIDE DEF made, kept, gone
  <2> QED
    BY <2>1
<1>2. PICK g \in Orders(gone) : cs = adds(InWalkOrder(changed \cup later)) \o dels(g)
  BY <1>1
<1> DEFINE ch == changed \cup later
           f == InWalkOrder(ch)
           a == adds(f)
           b == dels(g)
           A == {AddOf(new, p) : p \in ch}
           B == {DeleteOf(p) : p \in gone}
<1>3. cs = a \o b
  BY <1>2
<1>4. Reported(ch, old, new)
  <2>1. \A p : p \in later => p \in DOMAIN new /\ p \in DOMAIN old /\ ~IsDir(new[p])
    OBVIOUS
  <2>2. \A p : p \in ch <=> \/ p \in DOMAIN new /\ p \notin DOMAIN old
                            \/ /\ p \in DOMAIN new /\ p \in DOMAIN old
                               /\ ~IsDir(new[p]) /\ new[p] # old[p]
                            \/ p \in later
    OBVIOUS
  <2> HIDE DEF ch
  <2> QED
    BY <2>1, <2>2 DEF Reported
<1>5. ch \subseteq Path /\ gone \subseteq Path
  BY DEF Gone, IsTree
<1> HIDE DEF ch, gone
<1>6. f \in Seq(ch) /\ Range(f) = ch /\ g \in Seq(gone) /\ Range(g) = gone
  <2>1. f \in Seq(ch) /\ Range(f) = ch
    BY <1>5, InWalkOrderIs
  <2>2. g \in Orders(gone) /\ gone \in SUBSET Path
    BY <1>5
  <2> QED
    BY <2>1, <2>2, OrderIs
<1> HIDE DEF f
<1>7. a \in Seq(A) /\ Range(a) = A
  <2>1. DOMAIN f = 1..Len(f) /\ Len(f) \in Nat
    BY <1>6, LenProperties
  <2>2. \A i \in DOMAIN f : f[i] \in ch
    BY <1>6, Zenon DEF Range
  <2>3. \A p \in ch : \E i \in DOMAIN f : f[i] = p
    BY <1>6, Zenon DEF Range
  <2>4. DOMAIN a = DOMAIN f /\ \A i \in DOMAIN f : a[i] = AddOf(new, f[i])
    OBVIOUS
  <2>5. a \in [1..Len(f) -> A]
    BY <2>1, <2>2
  <2> HIDE DEF a
  <2>6. a \in Seq(A)
    BY <2>1, <2>5, SeqDef
  <2>7. \A x : x \in Range(a) <=> \E i \in DOMAIN f : x = AddOf(new, f[i])
    <3>1. \A x : x \in Range(a) <=> \E i \in DOMAIN a : x = a[i]
      BY Zenon DEF Range
    <3> QED
      BY <2>4, <3>1
  <2>8. \A x : x \in A <=> \E p \in ch : x = AddOf(new, p)
    OBVIOUS
  <2> HIDE DEF A
  <2>9. Range(a) = A
    BY <2>2, <2>3, <2>7, <2>8
  <2> QED
    BY <2>6, <2>9
<1>8. b \in Seq(B) /\ Range(b) = B
  <2>1. DOMAIN g = 1..Len(g) /\ Len(g) \in Nat
    BY <1>6, LenProperties
  <2>2. \A i \in DOMAIN g : g[i] \in gone
    BY <1>6, Zenon DEF Range
  <2>3. \A p \in gone : \E i \in DOMAIN g : g[i] = p
    BY <1>6, Zenon DEF Range
  <2>4. DOMAIN b = DOMAIN g /\ \A i \in DOMAIN g : b[i] = DeleteOf(g[i])
    OBVIOUS
  <2>5. b \in [1..Len(g) -> B]
    BY <2>1, <2>2
  <2> HIDE DEF b
  <2>6. b \in Seq(B)
    BY <2>1, <2>5, SeqDef
  <2>7. \A x : x \in Range(b) <=> \E i \in DOMAIN g : x = DeleteOf(g[i])
    <3>1. \A x : x \in Range(b) <=> \E i \in DOMAIN b : x = b[i]
      BY Zenon DEF Range
    <3> QED
      BY <2>4, <3>1
  <2>8. \A x : x \in B <=> \E p \in gone : x = DeleteOf(p)
    OBVIOUS
  <2> HIDE DEF B
  <2>9. Range(b) = B
    BY <2>2, <2>3, <2>7, <2>8
  <2> QED
    BY <2>6, <2>9
<1> HIDE DEF a, b, A, B
<1>9. a \in Seq(A \cup B) /\ b \in Seq(A \cup B)
  BY <1>7, <1>8, SeqMonotonic
<1>10. a \o b \in Seq(A \cup B) /\ Range(a \o b) = Range(a) \cup Range(b)
  BY <1>9, ConcatProperties, RangeConcatenation
<1>11. AreChanges(cs, ch, old, new)
  BY <1>3, <1>7, <1>8, <1>10 DEF AreChanges, A, B, gone
<1> QED
  BY <1>4, <1>11

\* The whiteout of a name is a marker that hides this name.
LEMMA HiddenOfWhiteout ==
    ASSUME NEW p \in Path, ~IsMarker(p)
    PROVE  /\ Hidden(Whiteout(p)) = p
           /\ IsWhiteout(Whiteout(p)) /\ IsMarker(Whiteout(p))
<1> DEFINE w == WhiteoutOf[Base(p)]
           S == Range(p) \cup {w}
<1>1. p \in Seq(Range(p)) /\ p # <<>>
  BY WalkVisitsParentsFirst
<1>2. Base(p) \in DOMAIN WhiteoutOf
  BY WhiteoutsDiffer DEF IsMarker
<1>3. w \in Range(WhiteoutOf)
  BY <1>2, Zenon DEF Range
<1>4. Front(p) \in Seq(S) /\ p = Front(p) \o <<Last(p)>>
  <2>1. Front(p) \in Seq(Range(p)) /\ p = Front(p) \o <<Last(p)>>
    BY <1>1, FrontAndLast
  <2>2. Range(p) \subseteq S
    OBVIOUS
  <2> HIDE DEF S
  <2> QED
    BY <2>1, <2>2, SeqMonotonic
<1>5. w \in S
  OBVIOUS
<1> HIDE DEF S, w
<1>6. Front(Front(p) \o <<w>>) = Front(p) /\ Last(Front(p) \o <<w>>) = w
  BY <1>4, <1>5, FrontOfAppend
<1>7. Front(Whiteout(p)) = Front(p) /\ Base(Whiteout(p)) = w
  BY <1>6 DEF Whiteout, Dir, Base, w
<1>8. (CHOOSE n \in DOMAIN WhiteoutOf : WhiteoutOf[n] = Base(Whiteout(p))) = Base(p)
  <2>1. \A n \in DOMAIN WhiteoutOf : WhiteoutOf[n] = w <=> n = Base(p)
    BY <1>2, WhiteoutsDiffer, Zenon DEF IsInjective, w
  <2>2. \A n \in DOMAIN WhiteoutOf : WhiteoutOf[n] = Base(Whiteout(p)) <=> n = Base(p)
    BY <1>7, <2>1
  <2> QED
    BY <1>2, <2>2
<1>9. Hidden(Whiteout(p)) = Front(p) \o <<Base(p)>>
  BY <1>7, <1>8 DEF Hidden, Dir
<1>10. Hidden(Whiteout(p)) = p
  BY <1>4, <1>9 DEF Base
<1> QED
  BY <1>3, <1>7, <1>10 DEF IsWhiteout, IsMarker, Markers

\* What was found of two directories, and what is reported of them, over the
\* whole of the old one: of the names that were found all of the new shows.
LEMMA OverMakesNew ==
    ASSUME NEW t, NEW old, IsTree(old), Plain(old), NEW new, IsTree(new), Plain(new),
           DOMAIN old \subseteq DOMAIN t, \A p \in DOMAIN old : old[p] = t[p],
           NEW ch, Reported(ch, old, new)
    PROVE  Among(Over(t, [p \in ch |-> new[p]], Gone(old, new)), DOMAIN old \cup DOMAIN new) = new
             <=> \A p \in DOMAIN old \cap DOMAIN new : IsDir(new[p]) => IsDir(old[p])
<1> DEFINE gone == Gone(old, new)
           top == [p \in ch |-> new[p]]
           stays(p) == /\ \A d \in gone : ~AtOrBelow(p, d)
                       /\ \A q \in DOMAIN top : Below(p, q) => IsDir(top[q])
           shown == {q \in DOMAIN t : stays(q)}
           over == [p \in shown \cup DOMAIN top |->
                      IF p \in DOMAIN top THEN top[p] ELSE t[p]]
           found == DOMAIN old \cup DOMAIN new
           all == [p \in DOMAIN over \cap found |-> over[p]]
<1>1. Over(t, top, gone) = over
  BY DEF Over
<1>2. DOMAIN top = ch /\ \A p \in ch : top[p] = new[p]
  OBVIOUS
<1>3. /\ ch \subseteq DOMAIN new
      /\ \A p \in DOMAIN new : p \notin ch =>
            p \in DOMAIN old /\ (IsDir(new[p]) \/ new[p] = old[p])
      /\ \A p \in ch : p \in DOMAIN old => ~IsDir(new[p])
  BY DEF Reported
<1>4. \A p : p \in gone <=> p \in DOMAIN old /\ p \notin DOMAIN new
  BY DEF Gone
<1>5. \A p \in DOMAIN new, d \in DOMAIN new \cup DOMAIN old :
        Below(p, d) => d \in DOMAIN new /\ IsDir(new[d])
  BY DEF IsTree
<1>6. \A p \in DOMAIN t : p \in shown <=> stays(p)
  OBVIOUS
<1> HIDE DEF gone, top
<1>7. \A p \in shown : p \in found => p \in DOMAIN new
  BY <1>4 DEF AtOrBelow
<1>8. \A p \in DOMAIN new \cap DOMAIN old : p \in shown
  BY <1>2, <1>3, <1>4, <1>5 DEF AtOrBelow
<1>9. /\ DOMAIN over = shown \cup ch
      /\ \A p \in ch : over[p] = new[p]
      /\ \A p \in shown \ ch : over[p] = t[p]
  <2> HIDE DEF shown
  <2> QED
    BY <1>2
<1> HIDE DEF over, shown
<1>10. /\ DOMAIN all = DOMAIN over \cap found
       /\ \A p \in DOMAIN all : all[p] = over[p]
  <2> HIDE DEF found
  <2> QED
    OBVIOUS
<1>11. DOMAIN all = DOMAIN new
  BY <1>3, <1>7, <1>8, <1>9, <1>10
<1> HIDE DEF all
<1>12. ASSUME all = new, NEW p \in DOMAIN old \cap DOMAIN new, IsDir(new[p])
       PROVE  IsDir(old[p])
  <2>1. p \notin ch /\ p \in shown
    BY <1>3, <1>8, <1>12
  <2>2. new[p] = old[p]
    BY <1>9, <1>10, <1>11, <1>12, <2>1
  <2> QED
    BY <1>12, <2>2
<1>13. ASSUME \A p \in DOMAIN old \cap DOMAIN new : IsDir(new[p]) => IsDir(old[p])
       PROVE  all = new
  <2>1. ASSUME NEW p \in DOMAIN new
        PROVE  all[p] = new[p]
    <3>1. CASE p \in ch
      BY <1>9, <1>10, <1>11, <3>1
    <3>2. CASE p \notin ch
      <4>1. p \in DOMAIN old /\ (IsDir(new[p]) \/ new[p] = old[p])
        BY <1>3, <3>2
      <4>2. all[p] = old[p]
        BY <1>8, <1>9, <1>10, <1>11, <3>2, <4>1
      <4>3. CASE IsDir(new[p])
        <5>1. IsDir(old[p])
          BY <1>13, <4>1, <4>3
        <5>2. old[p] \in Node /\ new[p] \in Node
          BY <4>1 DEF IsTree
        <5>3. old[p].kind = "dir" /\ new[p].kind = "dir"
          BY <4>1, <4>3, <5>1 DEF Plain, IsDir
        <5> QED
          BY <4>2, <5>2, <5>3 DEF Node
      <4> QED
        BY <4>1, <4>2, <4>3
    <3> QED
      BY <3>1, <3>2
  <2>2. new = [p \in DOMAIN new |-> new[p]] /\ all = [p \in DOMAIN all |-> all[p]]
    BY DEF IsTree, all
  <2> QED
    BY <1>11, <2>1, <2>2
<1>14. Among(Over(t, top, gone), found) = all
  BY <1>1 DEF Among, all
<1> QED
  BY <1>12, <1>13, <1>14 DEF top, gone

\* The headers of what DiffTwoDirs reports, as who unpacks them reads them.
LEMMA UnpackTwoDirs ==
    ASSUME NEW t, NEW old, IsTree(old), Plain(old), NEW new, IsTree(new), Plain(new),
           NEW ch, Reported(ch, old, new), NEW cs, AreChanges(cs, ch, old, new)
    PROVE  Unpack(TarOf(cs), t) = Over(t, [p \in ch |-> new[p]], Gone(old, new))
<1> DEFINE tar == TarOf(cs)
           E == Entries(tar)
           names == {h.name : h \in {e \in E : ~IsMarker(e.name)}}
           entry(p) == CHOOSE h \in E : h.name = p
           top == [p \in names |-> [kind |-> KindOf(entry(p).type), size |-> entry(p).size]]
           hidden == {Hidden(h.name) : h \in {e \in E : IsWhiteout(e.name)}}
           head(p) == Header(p, IF new[p].kind = "file" THEN "reg" ELSE new[p].kind, new[p].size)
           mark(p) == Header(Whiteout(p), "reg", 0)
<1>1. /\ ch \subseteq DOMAIN new /\ Gone(old, new) \subseteq DOMAIN old
      /\ DOMAIN old \subseteq Path /\ DOMAIN new \subseteq Path
  BY DEF Reported, Gone, IsTree
<1>2. \A p \in ch :
        /\ ~IsMarker(p) /\ new[p] \in Node /\ new[p].kind \in {"dir", "file", "link"}
        /\ ~IsWhiteout(p)
  BY <1>1 DEF Plain, IsTree, IsWhiteout, IsMarker, Markers
<1>3. \A p \in Gone(old, new) :
        Hidden(Whiteout(p)) = p /\ IsWhiteout(Whiteout(p)) /\ IsMarker(Whiteout(p))
  BY <1>1, HiddenOfWhiteout DEF Plain
<1>4. \A p \in ch : HeaderOf(AddOf(new, p)) = <<head(p)>>
  <2>1. ASSUME NEW p \in ch
        PROVE  HeaderOf(AddOf(new, p)) = <<head(p)>>
    <3>1. AddOf(new, p).delete = FALSE /\ AddOf(new, p).info = new[p] /\ AddOf(new, p).path = p
      BY DEF AddOf
    <3>2. new[p].kind # "file" => new[p].size = 0
      BY <1>2 DEF Node
    <3> QED
      BY <1>2, <3>1, <3>2 DEF HeaderOf, IsDir
  <2> QED
    BY <2>1
<1>5. \A p \in Gone(old, new) : HeaderOf(DeleteOf(p)) = <<mark(p)>>
  BY DEF HeaderOf, DeleteOf
<1>6. \A h : h \in Range(tar) <=> \/ \E p \in ch : h = head(p)
                                  \/ \E p \in Gone(old, new) : h = mark(p)
  <2>1. /\ \E S : cs \in Seq(S)
        /\ Range(cs) = {AddOf(new, p) : p \in ch} \cup {DeleteOf(p) : p \in Gone(old, new)}
    BY DEF AreChanges
  <2>2. \A h : h \in Range(TarOf(cs)) <=> \E c \in Range(cs) : HeaderOf(c) = <<h>>
    BY <2>1, TarOfHolds
  <2>3. \A g, h : <<g>> = <<h>> <=> g = h
    OBVIOUS
  <2> HIDE DEF head, mark
  <2>4. \A h : (\E c \in Range(cs) : HeaderOf(c) = <<h>>) <=>
                  \/ \E p \in ch : h = head(p)
                  \/ \E p \in Gone(old, new) : h = mark(p)
    BY <1>4, <1>5, <2>1, <2>3
  <2> QED
    BY <2>2, <2>4
<1>7. /\ \A p : head(p).name = p /\ head(p).size = new[p].size
      /\ \A p \in ch :
            head(p).type \in {"dir", "reg", "link"} /\ KindOf(head(p).type) = new[p].kind
      /\ \A p : mark(p).name = Whiteout(p) /\ mark(p).type = "reg"
  BY <1>2, PieceFacts DEF KindOf
<1> HIDE DEF head, mark, tar
<1>8. \A h : h \in E <=> \/ \E p \in ch : h = head(p)
                         \/ \E p \in Gone(old, new) : h = mark(p)
  BY <1>6, <1>7 DEF Entries
<1> HIDE DEF E
<1>9. names = ch
  BY <1>2, <1>3, <1>7, <1>8
<1>10. \A p \in ch : entry(p) = head(p)
  <2>1. ASSUME NEW p \in ch
        PROVE  entry(p) = head(p)
    <3>1. \A h \in E : h.name = p <=> h = head(p)
      BY <1>2, <1>3, <1>7, <1>8
    <3>2. head(p) \in E
      BY <1>8
    <3> QED
      BY <3>1, <3>2
  <2> QED
    BY <2>1
<1>11. hidden = Gone(old, new)
  BY <1>2, <1>3, <1>7, <1>8
<1>12. top = [p \in ch |-> new[p]]
  <2>1. ASSUME NEW p \in ch
        PROVE  [kind |-> KindOf(entry(p).type), size |-> entry(p).size] = new[p]
    <3>1. new[p] = [kind |-> new[p].kind, size |-> new[p].size]
      BY <1>2 DEF Node
    <3> HIDE DEF entry
    <3> QED
      BY <1>7, <1>10, <3>1
  <2> HIDE DEF entry, names
  <2> QED
    BY <1>9, <2>1
<1>13. Unpack(tar, t) = Over(t, top, hidden)
  BY DEF Unpack, E
<1> HIDE DEF top, hidden
<1> QED
  BY <1>11, <1>12, <1>13 DEF tar

\* So the changes make the new tree where no name became a directory.
LEMMA TwoDirsMakeNew ==
    ASSUME NEW t, IsTree(t), Plain(t), NEW up, IsTree(up), Plain(up),
           NEW old \in Walked(t), NEW new \in Walked(up), NEW cs \in DiffTwoDirs(old, new)
    PROVE  Among(Unpack(TarOf(cs), t), DOMAIN old \cup DOMAIN new) = new
             <=> \A p \in DOMAIN old \cap DOMAIN new : IsDir(new[p]) => IsDir(old[p])
<1>1. /\ IsTree(old) /\ Plain(old) /\ IsTree(new) /\ Plain(new)
      /\ DOMAIN old \subseteq DOMAIN t /\ \A p \in DOMAIN old : old[p] = t[p]
  BY WalkedIs
<1>2. PICK ch : Reported(ch, old, new) /\ AreChanges(cs, ch, old, new)
  BY <1>1, DiffTwoDirsHolds
<1> DEFINE made == Over(t, [p \in ch |-> new[p]], Gone(old, new))
<1>3. Unpack(TarOf(cs), t) = made
  BY <1>1, <1>2, UnpackTwoDirs
<1>4. Among(made, DOMAIN old \cup DOMAIN new) = new
        <=> \A p \in DOMAIN old \cap DOMAIN new : IsDir(new[p]) => IsDir(old[p])
  BY <1>1, <1>2, OverMakesNew
<1> HIDE DEF made
<1> QED
  BY <1>3, <1>4

\* What the instruction left is not written again.
LEMMA UpperStays ==
    ASSUME [Next]_vars
    PROVE  upper' = upper
<1>1. ASSUME NEW w \in Writers, Leftover(w)
      PROVE  upper' = upper
  BY <1>1 DEF Leftover
<1> QED
  BY <1>1, ReadsOnly DEF Next, vars

\* Wherever an error breaks off its walks, and in whatever order it gives its
\* deletions, what DiffTwoDirs returns for two plain trees makes of the names
\* it has found what they are in the new one, unless a name that was found to
\* be no directory became one: the theorem says this of every tree a build may
\* meet, not of the few of the run.
THEOREM TwoDirsTransforms == Spec => []TwoDirsTransform
<1>1. upper \in Scenarios => TwoDirsTransform
  <2> SUFFICES ASSUME upper \in Scenarios, NEW w \in Active, Plain(upper[w]), NEW t \in Lowers,
                      NEW old \in Walked(t), NEW new \in Walked(upper[w]),
                      NEW cs \in DiffTwoDirs(old, new)
               PROVE  Among(Unpack(TarOf(cs), t), DOMAIN old \cup DOMAIN new) = new
                        <=> \A p \in DOMAIN old \cap DOMAIN new : IsDir(new[p]) => IsDir(old[p])
    BY DEF TwoDirsTransform
  <2>1. IsTree(t) /\ Plain(t) /\ IsTree(upper[w])
    BY ScenariosAreTrees, LowersArePlain DEF Active
  <2> QED
    BY <2>1, TwoDirsMakeNew
<1>2. Init => upper \in Scenarios
  BY DEF Init
<1>3. upper \in Scenarios /\ [Next]_vars => (upper \in Scenarios)'
  <2>1. [Next]_vars => UNCHANGED upper
    BY UpperStays
  <2> QED
    BY <2>1
<1> QED
  BY <1>1, <1>2, <1>3, PTL DEF Spec

-----------------------------------------------------------------------------
(* Types.                                                                  *)

\* what the objects of a pipeline hold
PipesTyped ==
    /\ sum \in [Hashes -> Seq(Chunk \cup Zipped)]
    /\ gz \in [Gzips -> [to : Writers \cup {Discard}, data : Seq(Chunk)]]
    /\ buf \in [Bufs -> [to : Writers \cup {Discard}, data : Seq(Zipped)]]
    /\ file \in [Writers -> Seq(Zipped)]

\* What gzip makes of pieces of a tar is compressed data.
LEMMA GzipTypes ==
    /\ \A s \in Seq(Chunk) : Gzip(s) \in Seq(Zipped)
    /\ <<Trailer>> \in Seq(Zipped)
    /\ \A s \in Seq(Zipped) : s \in Seq(Chunk \cup Zipped)
    /\ \A s \in Seq(Chunk) : s \in Seq(Chunk \cup Zipped)
<1> DEFINE Z == {[gzip |-> x] : x \in Chunk}
<1>1. Z \subseteq Zipped /\ Trailer \in Zipped
  BY DEF Zipped, Trailer
<1>2. \A s \in Seq(Chunk) : Gzip(s) \in Seq(Z)
  BY GzipFacts
<1>3. <<Trailer>> \in Seq(Zipped)
  <2> HIDE DEF Z
  <2> QED
    BY <1>1
<1> HIDE DEF Z
<1> QED
  BY <1>1, <1>2, <1>3, SeqMonotonic

\* A table of records with a sequence in them, after one was written to.
LEMMA DataSet ==
    ASSUME NEW D, NEW T, NEW S, NEW f \in [D -> [to : T, data : Seq(S)]],
           NEW d \in D, NEW s \in Seq(S)
    PROVE  [f EXCEPT ![d].data = s] \in [D -> [to : T, data : Seq(S)]]
<1> DEFINE R == [to : T, data : Seq(S)]
<1>1. f[d] \in R
  OBVIOUS
<1>2. [f[d] EXCEPT !.data = s] \in R
  BY <1>1
<1> HIDE DEF R
<1>3. [f EXCEPT ![d] = [f[d] EXCEPT !.data = s]] \in [D -> R]
  BY <1>2 DEF R
<1> QED
  BY <1>3 DEF R

\* What goes through the lower tee of a writer is compressed data in its hash and its file.
LEMMA TeeTypes ==
    ASSUME PipesTyped, NEW w \in Writers, Taken(held[w]),
           gz[held[w]["gz"]].to = w, buf[held[w]["buf"]].to = w,
           NEW hashed \in [Hashes -> Seq(Chunk \cup Zipped)], NEW out \in Seq(Zipped),
           LowerTee(w, out, hashed)
    PROVE  /\ sum' \in [Hashes -> Seq(Chunk \cup Zipped)]
           /\ buf' \in [Bufs -> [to : Writers \cup {Discard}, data : Seq(Zipped)]]
           /\ file' \in [Writers -> Seq(Zipped)]
<1> DEFINE b == held[w]["buf"]
           c == held[w]["comp"]
<1>1. /\ b \in Bufs /\ c \in Hashes
      /\ buf[b].data \in Seq(Zipped) /\ file[w] \in Seq(Zipped)
      /\ hashed[c] \in Seq(Chunk \cup Zipped) /\ out \in Seq(Chunk \cup Zipped)
      /\ <<>> \in Seq(Zipped)
  BY GzipTypes DEF Taken, PipesTyped
<1>2. /\ sum' = [hashed EXCEPT ![c] = hashed[c] \o out]
      /\ \/ /\ buf' = [buf EXCEPT ![b].data = buf[b].data \o out]
            /\ file' = file
         \/ /\ file' = [file EXCEPT ![w] = (file[w] \o buf[b].data) \o out]
            /\ buf' = [buf EXCEPT ![b].data = <<>>]
  BY DEF LowerTee, Lower, Pipe
<1> HIDE DEF b, c
<1>3. /\ hashed[c] \o out \in Seq(Chunk \cup Zipped)
      /\ buf[b].data \o out \in Seq(Zipped)
      /\ (file[w] \o buf[b].data) \o out \in Seq(Zipped)
  BY <1>1, ConcatProperties
<1>4. sum' \in [Hashes -> Seq(Chunk \cup Zipped)]
  BY <1>1, <1>2, <1>3
<1>5. CASE /\ buf' = [buf EXCEPT ![b].data = buf[b].data \o out]
           /\ file' = file
  <2>1. buf' \in [Bufs -> [to : Writers \cup {Discard}, data : Seq(Zipped)]]
    <3> DEFINE s == buf[b].data \o out
    <3>1. buf \in [Bufs -> [to : Writers \cup {Discard}, data : Seq(Zipped)]]
      BY DEF PipesTyped
    <3>2. buf' = [buf EXCEPT ![b].data = s] /\ s \in Seq(Zipped)
      BY <1>3, <1>5
    <3> HIDE DEF s
    <3> QED
      BY <1>1, <3>1, <3>2, DataSet
  <2> QED
    BY <1>4, <1>5, <2>1 DEF PipesTyped
<1>6. CASE /\ file' = [file EXCEPT ![w] = (file[w] \o buf[b].data) \o out]
           /\ buf' = [buf EXCEPT ![b].data = <<>>]
  <2>1. buf' \in [Bufs -> [to : Writers \cup {Discard}, data : Seq(Zipped)]]
    BY <1>1, <1>6, DataSet DEF PipesTyped
  <2>2. file' \in [Writers -> Seq(Zipped)]
    BY <1>3, <1>6 DEF PipesTyped
  <2> QED
    BY <1>4, <2>1, <2>2
<1> QED
  BY <1>2, <1>5, <1>6

\* Pieces of a tar that are written keep the types.
LEMMA WriteTypes ==
    ASSUME PipesTyped, NEW w \in Writers, Taken(held[w]),
           gz[held[w]["gz"]].to = w, buf[held[w]["buf"]].to = w,
           NEW x \in Seq(Chunk), Write(w, x)
    PROVE  PipesTyped'
<1> DEFINE g == held[w]["gz"]
           u == held[w]["uncomp"]
           hashed == [sum EXCEPT ![u] = sum[u] \o x]
<1>1. /\ g \in Gzips /\ u \in Hashes
      /\ gz[g].data \in Seq(Chunk) /\ sum[u] \in Seq(Chunk \cup Zipped)
      /\ x \in Seq(Chunk \cup Zipped) /\ <<>> \in Seq(Chunk)
  BY GzipTypes DEF Taken, PipesTyped
<1>2. \/ /\ gz' = [gz EXCEPT ![g].data = gz[g].data \o x]
         /\ sum' = hashed /\ UNCHANGED <<buf, file>>
      \/ /\ gz' = [gz EXCEPT ![g].data = <<>>]
         /\ LowerTee(w, Gzip(gz[g].data \o x), hashed)
  BY DEF Write, Pipe
<1> HIDE DEF g, u
<1>3. /\ gz[g].data \o x \in Seq(Chunk) /\ sum[u] \o x \in Seq(Chunk \cup Zipped)
  BY <1>1, ConcatProperties
<1>4. hashed \in [Hashes -> Seq(Chunk \cup Zipped)]
  BY <1>1, <1>3 DEF PipesTyped
<1> HIDE DEF hashed
<1>5. CASE /\ gz' = [gz EXCEPT ![g].data = gz[g].data \o x]
           /\ sum' = hashed /\ UNCHANGED <<buf, file>>
  <2>1. gz' \in [Gzips -> [to : Writers \cup {Discard}, data : Seq(Chunk)]]
    <3> DEFINE s == gz[g].data \o x
    <3>1. gz \in [Gzips -> [to : Writers \cup {Discard}, data : Seq(Chunk)]]
      BY DEF PipesTyped
    <3>2. gz' = [gz EXCEPT ![g].data = s] /\ s \in Seq(Chunk)
      BY <1>3, <1>5
    <3> HIDE DEF s
    <3> QED
      BY <1>1, <3>1, <3>2, DataSet
  <2> QED
    BY <1>4, <1>5, <2>1 DEF PipesTyped
<1>6. CASE /\ gz' = [gz EXCEPT ![g].data = <<>>]
           /\ LowerTee(w, Gzip(gz[g].data \o x), hashed)
  <2>1. gz' \in [Gzips -> [to : Writers \cup {Discard}, data : Seq(Chunk)]]
    BY <1>1, <1>6, DataSet DEF PipesTyped
  <2>2. Gzip(gz[g].data \o x) \in Seq(Zipped)
    BY <1>3, GzipTypes
  <2>3. /\ sum' \in [Hashes -> Seq(Chunk \cup Zipped)]
        /\ buf' \in [Bufs -> [to : Writers \cup {Discard}, data : Seq(Zipped)]]
        /\ file' \in [Writers -> Seq(Zipped)]
    BY <1>4, <1>6, <2>2, TeeTypes
  <2> QED
    BY <2>1, <2>3 DEF PipesTyped
<1> QED
  BY <1>2, <1>5, <1>6

\* So does the end of the compressed data ...
LEMMA CloseGzipTypes ==
    ASSUME PipesTyped, NEW w \in Writers, Taken(held[w]),
           gz[held[w]["gz"]].to = w, buf[held[w]["buf"]].to = w, CloseGzip(w)
    PROVE  PipesTyped'
<1> DEFINE g == held[w]["gz"]
<1>1. g \in Gzips /\ gz[g].data \in Seq(Chunk) /\ <<>> \in Seq(Chunk)
      /\ sum \in [Hashes -> Seq(Chunk \cup Zipped)]
  BY DEF Taken, PipesTyped
<1>2. /\ gz' = [gz EXCEPT ![g].data = <<>>]
      /\ LowerTee(w, Gzip(gz[g].data) \o <<Trailer>>, sum)
  BY DEF CloseGzip, Pipe
<1> HIDE DEF g
<1>3. Gzip(gz[g].data) \in Seq(Zipped) /\ <<Trailer>> \in Seq(Zipped)
  BY <1>1, GzipTypes
<1>4. Gzip(gz[g].data) \o <<Trailer>> \in Seq(Zipped)
  BY <1>3, ConcatProperties
<1>5. gz' \in [Gzips -> [to : Writers \cup {Discard}, data : Seq(Chunk)]]
  BY <1>1, <1>2, DataSet DEF PipesTyped
<1>6. /\ sum' \in [Hashes -> Seq(Chunk \cup Zipped)]
      /\ buf' \in [Bufs -> [to : Writers \cup {Discard}, data : Seq(Zipped)]]
      /\ file' \in [Writers -> Seq(Zipped)]
  BY <1>1, <1>2, <1>4, TeeTypes
<1> QED
  BY <1>5, <1>6 DEF PipesTyped

\* ... and the flush.
LEMMA FlushTypes ==
    ASSUME PipesTyped, NEW w \in Writers, Taken(held[w]), buf[held[w]["buf"]].to = w, Flush(w)
    PROVE  PipesTyped'
<1> DEFINE b == held[w]["buf"]
<1>1. /\ b \in Bufs /\ buf[b].data \in Seq(Zipped) /\ file[w] \in Seq(Zipped)
      /\ <<>> \in Seq(Zipped)
  BY DEF Taken, PipesTyped
<1>2. /\ file' = [file EXCEPT ![w] = file[w] \o buf[b].data]
      /\ buf' = [buf EXCEPT ![b].data = <<>>]
      /\ UNCHANGED <<sum, gz>>
  BY DEF Flush, Pipe
<1> HIDE DEF b
<1>3. file[w] \o buf[b].data \in Seq(Zipped)
  BY <1>1, ConcatProperties
<1>4. buf' \in [Bufs -> [to : Writers \cup {Discard}, data : Seq(Zipped)]]
  BY <1>1, <1>2, DataSet DEF PipesTyped
<1>5. file' \in [Writers -> Seq(Zipped)]
  BY <1>2, <1>3 DEF PipesTyped
<1> QED
  BY <1>2, <1>4, <1>5 DEF PipesTyped

\* A new pipeline resets what it takes.
LEMMA OpenTypes ==
    ASSUME PipesTyped, NEW w \in Writers, NewStreamingPipeline(w)
    PROVE  PipesTyped'
<1>1. PICK b \in Obtainable(Bufs), g \in Obtainable(Gzips), h \in ObtainablePairs(Hashes) :
        /\ buf' = [buf EXCEPT ![b] = Reset(w)]
        /\ gz' = [gz EXCEPT ![g] = Reset(w)]
        /\ sum' = [sum EXCEPT ![h[1]] = <<>>, ![h[2]] = <<>>]
        /\ file' = file
  BY DEF NewStreamingPipeline, GetBufWriter, GetGzipWriter, GetHash
<1>2. \A S : <<>> \in Seq(S)
  OBVIOUS
<1>3. \A S : Reset(w) \in [to : Writers \cup {Discard}, data : Seq(S)]
  BY <1>2 DEF Reset
<1>4. sum' \in [Hashes -> Seq(Chunk \cup Zipped)]
  BY <1>1, <1>2 DEF PipesTyped
<1>5. gz' \in [Gzips -> [to : Writers \cup {Discard}, data : Seq(Chunk)]]
  BY <1>1, <1>3 DEF PipesTyped
<1>6. buf' \in [Bufs -> [to : Writers \cup {Discard}, data : Seq(Zipped)]]
  BY <1>1, <1>3 DEF PipesTyped
<1> QED
  BY <1>1, <1>4, <1>5, <1>6 DEF PipesTyped

\* A piece with a path or no name and a size and a block within the bounds is a chunk.
LEMMA PiecesAreChunks ==
    \A n \in Path \cup {<<>>}, t \in {"dir", "reg", "link", "body", "end"} :
        \A s \in 0..MaxSize, b \in 0..MaxTouch :
            Piece(n, t, s, b) \in Chunk /\ Header(n, t, s) \in Chunk
<1> DEFINE names == Path \cup {Whiteout(p) : p \in {q \in Path : Base(q) \in DOMAIN WhiteoutOf}}
                         \cup {<<>>}
<1>1. Chunk = [name : names, type : {"dir", "reg", "link", "body", "end"}, size : 0..MaxSize,
               block : 0..MaxTouch]
  BY ChunksOfTar DEF TarChunk
<1>2. Path \cup {<<>>} \subseteq names /\ 0 \in 0..MaxTouch
  BY BoundIsNumber
<1> HIDE DEF names
<1> QED
  BY <1>1, <1>2 DEF Header, Piece

\* What is copied and the end mark are chunks.
LEMMA BodiesAreChunks ==
    /\ \A b \in 0..MaxTouch : <<Body(b)>> \in Seq(Chunk)
    /\ <<End>> \in Seq(Chunk)
<1>1. 0 \in 0..MaxSize /\ 0 \in 0..MaxTouch
  BY SizesAreNumbers, BoundIsNumber
<1>2. End \in Chunk /\ \A b \in 0..MaxTouch : Body(b) \in Chunk
  BY <1>1, PiecesAreChunks DEF End, Body
<1> QED
  BY <1>2

\* The front of a path that is no root entry of this name is a path.
LEMMA DirOfOpaque ==
    ASSUME NEW p \in Path, Base(p) = Opaque, p # <<Opaque>>
    PROVE  Dir(p) \in Path
<1>1. p \in Seq(Range(p)) /\ p # <<>> /\ Front(p) \in Path \cup {<<>>}
  BY WalkVisitsParentsFirst
<1>2. p = Front(p) \o <<Last(p)>>
  BY <1>1, FrontAndLast
<1>3. <<>> \o <<Opaque>> = <<Opaque>>
  OBVIOUS
<1> QED
  BY <1>1, <1>2, <1>3 DEF Dir, Base

\* What the callback of DiffDir adds for a path, and the header of it.
LEMMA ChangeTypes ==
    ASSUME NEW up, IsUpper(up), NEW p \in DOMAIN up \ {<<Opaque>>}
    PROVE  /\ ChangeAt(up, p) \in Change
           /\ HeaderFor(up, p) \in Seq(Chunk)
           /\ IsFile(ChangeAt(up, p)) => ChangeAt(up, p).info.size \in 0..MaxSize
<1> DEFINE hiddens == {Hidden(q) : q \in {r \in Path : Base(r) \in Range(WhiteoutOf)}}
           c == ChangeAt(up, p)
<1>1. p \in Path /\ up[p] \in Node /\ p # <<Opaque>>
  BY DEF IsUpper, IsTree
<1>2. Change = [path : Path \cup hiddens, delete : BOOLEAN, info : Node \cup {NoInfo}]
  BY DEF Change
<1>3. up[p].size \in 0..MaxSize /\ up[p].kind \in Kind /\ 0 \in 0..MaxSize
  BY <1>1, SizesAreNumbers DEF Node
<1>4. CASE Base(p) = Opaque
  <2>1. c = [path |-> Dir(p), delete |-> FALSE, info |-> up[p]] /\ Dir(p) \in Path
    BY <1>1, <1>4, DirOfOpaque DEF ChangeAt
  <2>2. c \in Change
    <3> HIDE DEF hiddens, c
    <3> QED
      BY <1>1, <1>2, <2>1
  <2>3. up[p].kind = "file"
    BY <1>4 DEF IsUpper
  <2>4. HeaderFor(up, p) = <<Header(Dir(p), "reg", up[p].size)>>
    BY <2>1, <2>3 DEF HeaderFor, HeaderOf, IsDir
  <2>5. Header(Dir(p), "reg", up[p].size) \in Chunk
    BY <1>3, <2>1, BoundIsNumber, PiecesAreChunks
  <2> HIDE DEF c
  <2>6. HeaderFor(up, p) \in Seq(Chunk) /\ c.info.size \in 0..MaxSize
    BY <1>3, <2>1, <2>4, <2>5
  <2> QED
    BY <2>2, <2>6 DEF c
<1>5. CASE Base(p) # Opaque /\ Base(p) \in Markers
  <2>1. c = [path |-> Hidden(p), delete |-> TRUE, info |-> NoInfo]
    BY <1>5 DEF ChangeAt
  <2>2. IsWhiteout(p) /\ Hidden(p) \in hiddens
    BY <1>1, <1>5 DEF Markers, IsWhiteout
  <2>3. c \in Change
    <3> HIDE DEF hiddens, c
    <3> QED
      BY <1>2, <2>1, <2>2
  <2>4. HeaderFor(up, p) = <<Header(p, "reg", 0)>>
    BY <1>5, <2>2, HeaderOfPath
  <2>5. Header(p, "reg", 0) \in Chunk
    BY <1>1, <1>3, BoundIsNumber, PiecesAreChunks
  <2>6. HeaderFor(up, p) \in Seq(Chunk)
    BY <2>4, <2>5
  <2>7. ~IsFile(c)
    BY <2>1 DEF IsFile
  <2> QED
    BY <2>3, <2>6, <2>7
<1>6. CASE Base(p) # Opaque /\ Base(p) \notin Markers
  <2>1. c = [path |-> p, delete |-> FALSE, info |-> up[p]]
    BY <1>6 DEF ChangeAt
  <2>2. c \in Change
    <3> HIDE DEF hiddens, c
    <3> QED
      BY <1>1, <1>2, <2>1
  <2>3. ~IsMarker(p)
    BY <1>6 DEF IsMarker
  <2>4. \/ HeaderFor(up, p) = <<>>
        \/ HeaderFor(up, p) = <<Header(p, "dir", 0)>>
        \/ HeaderFor(up, p) = <<Header(p, "reg", up[p].size)>>
        \/ HeaderFor(up, p) = <<Header(p, "link", 0)>>
    <3>1. up[p].kind \in {"dev", "file", "link"} \/ IsDir(up[p])
      BY <1>3 DEF Kind, IsDir
    <3>2. /\ up[p].kind = "dev" => HeaderFor(up, p) = <<>>
          /\ IsDir(up[p]) => HeaderFor(up, p) = <<Header(p, "dir", 0)>>
          /\ up[p].kind = "file" => HeaderFor(up, p) = <<Header(p, "reg", up[p].size)>>
          /\ up[p].kind = "link" => HeaderFor(up, p) = <<Header(p, "link", 0)>>
      BY <1>6, <2>3, HeaderOfPath
    <3> QED
      BY <3>1, <3>2
  <2>5. /\ Header(p, "dir", 0) \in Chunk /\ Header(p, "reg", up[p].size) \in Chunk
        /\ Header(p, "link", 0) \in Chunk
    BY <1>1, <1>3, BoundIsNumber, PiecesAreChunks
  <2>6. HeaderFor(up, p) \in Seq(Chunk)
    <3>1. <<>> \in Seq(Chunk) /\ \A x \in Chunk : <<x>> \in Seq(Chunk)
      OBVIOUS
    <3> QED
      BY <2>4, <2>5, <3>1, Zenon
  <2> HIDE DEF c
  <2>7. c.info.size \in 0..MaxSize
    BY <1>3, <2>1
  <2> QED
    BY <2>2, <2>6, <2>7 DEF c
<1> QED
  BY <1>4, <1>5, <1>6

\* What DiffDir returns, and the headers and files of it.
LEMMA DiffDirTypes ==
    ASSUME NEW up, IsUpper(up)
    PROVE  /\ DiffDir(up) \in Seq(Change)
           /\ \A k \in 1..Len(DiffDir(up)) :
                /\ HeaderOf(DiffDir(up)[k]) \in Seq(Chunk)
                /\ IsFile(DiffDir(up)[k]) => DiffDir(up)[k].info.size \in 0..MaxSize
<1> DEFINE f == Found(up)
           cs == DiffDir(up)
<1>1. /\ Len(cs) \in Nat
      /\ \A i \in 1..Len(cs) : cs[i] = ChangeAt(up, f[i]) /\ f[i] \in DOMAIN up \ {<<Opaque>>}
  BY DiffDirIs DEF IsUpper
<1>2. \A i \in 1..Len(cs) : /\ cs[i] \in Change /\ HeaderOf(cs[i]) \in Seq(Chunk)
                            /\ IsFile(cs[i]) => cs[i].info.size \in 0..MaxSize
  BY <1>1, ChangeTypes DEF HeaderFor
<1>3. \E S : cs \in Seq(S)
  <2>1. f \in Seq(DOMAIN up \ {<<Opaque>>})
    BY InWalkOrderIs DEF Found
  <2>2. DOMAIN f = 1..Len(f) /\ Len(f) \in Nat
    BY <2>1, LenProperties
  <2>3. cs = [i \in 1..Len(f) |-> ChangeAt(up, f[i])]
    BY <2>2 DEF DiffDir, Found
  <2>4. cs \in [1..Len(f) -> {ChangeAt(up, f[i]) : i \in 1..Len(f)}]
    BY <2>3
  <2>5. cs \in Seq({ChangeAt(up, f[i]) : i \in 1..Len(f)})
    <3> HIDE DEF cs, f
    <3> QED
      BY <2>2, <2>4, SeqDef
  <2> QED
    BY <2>5
<1> HIDE DEF cs, f
<1>4. cs = [i \in 1..Len(cs) |-> cs[i]]
  BY <1>3
<1>5. cs \in Seq(Change)
  BY <1>1, <1>2, <1>4
<1> QED
  BY <1>2, <1>5 DEF cs

\* what Snapshot returns
LayerType == [diffID : Seq(Chunk), digest : Seq(Zipped), renamed : BOOLEAN]

\* what Snapshot keeps
SnapshotTyped ==
    /\ changes \in [Writers -> Seq(Change)]
    /\ \A w \in Writers : at[w] \in 1..(Len(changes[w]) + 1)
    /\ missing \in [Writers -> 0..MaxSize]
    /\ layer \in [Writers -> LayerType]
    /\ DOMAIN named \subseteq Seq(Zipped)

\* The hash above a gzip writer has pieces of a tar only.
TarsTyped(w) == pc[w] \in Writing => sum[held[w]["uncomp"]] \in Seq(Chunk)

\* the inductive invariant behind TypeOK
TypeInv ==
    /\ LayerInv /\ PipesTyped /\ SnapshotTyped
    /\ \A w \in Writers : TarsTyped(w)

\* The invariant has every type.
LEMMA TypeInvTypes == TypeInv => TypeOK
<1> SUFFICES ASSUME TypeInv PROVE TypeOK
  OBVIOUS
<1>1. LayerInv /\ PipesTyped /\ SnapshotTyped /\ Bookkeeping /\ Shapes /\ Trees /\ Tables
  BY DEF TypeInv, LayerInv, BlobInv, PoolInv
<1>2. pooled \in [Objects -> 0..2]
  <2>1. {0, 1} \subseteq 0..2
    OBVIOUS
  <2>2. \A o \in Objects : pooled[o] \in 0..2
    BY <1>1, <2>1 DEF Bookkeeping
  <2> QED
    BY <1>1, <2>2 DEF Bookkeeping
<1>3. using \subseteq Writers /\ held \in [Writers -> [Roles -> Objects \cup {Nothing}]]
  BY <1>1 DEF Bookkeeping
<1>4. PoolsTypeOK
  BY <1>1, <1>2, <1>3 DEF PoolsTypeOK, PipesTyped
<1>5. /\ Active \subseteq Writers
      /\ \A w \in Active :
          /\ IsTree(upper[w]) /\ DOMAIN live[w] \subseteq Path
          /\ been[w] \subseteq Path \X (1..MaxSize) \X (0..MaxTouch)
  <2>1. \A w \in Active : /\ IsTree(upper[w]) /\ DOMAIN live[w] \subseteq DOMAIN upper[w]
                          /\ been[w] \subseteq Path \X (1..MaxSize) \X (0..MaxTouch)
    BY <1>1, UppersAre DEF Trees, Tree, IsUpper
  <2> QED
    BY <1>1, <2>1 DEF Shapes, IsTree
<1>6. pc \in [Writers -> {"diff", "create", "open", "entry", "body", "copy", "gzclose",
                           "flush", "sum", "put", "return", "rename", "done", "failed"}]
  BY <1>1 DEF Bookkeeping, Steps
<1> QED
  BY <1>1, <1>4, <1>5, <1>6 DEF TypeOK, SnapshotTyped, LayerType, Tables

\* The types hold before anyone has opened a file.
LEMMA TypeInvInit == Init => TypeInv
<1> SUFFICES ASSUME Init PROVE TypeInv
  OBVIOUS
<1>1. LayerInv
  BY LayerInvInit
<1>2. \A S : <<>> \in Seq(S)
  OBVIOUS
<1>3. PipesTyped
  <2>1. \A S : Reset(Discard) \in [to : Writers \cup {Discard}, data : Seq(S)]
    BY <1>2 DEF Reset
  <2> QED
    BY <1>2, <2>1 DEF Init, PoolsInit, PipesTyped
<1>4. SnapshotTyped
  <2>1. 0 \in 0..MaxSize
    BY SizesAreNumbers
  <2>2. NoLayer \in LayerType
    BY <1>2 DEF NoLayer, LayerType
  <2>3. Len(<<>>) = 0 /\ 1 \in 1..(0 + 1)
    OBVIOUS
  <2>4. changes \in [Writers -> Seq(Change)] /\ \A w \in Writers : changes[w] = <<>> /\ at[w] = 1
    BY <1>2 DEF Init
  <2>5. /\ missing \in [Writers -> 0..MaxSize] /\ layer \in [Writers -> LayerType]
        /\ DOMAIN named = {}
    BY <2>1, <2>2 DEF Init
  <2> QED
    BY <2>3, <2>4, <2>5 DEF SnapshotTyped
<1>5. \A w \in Writers : TarsTyped(w)
  BY DEF Init, TarsTyped, Writing
<1> QED
  BY <1>1, <1>3, <1>4, <1>5 DEF TypeInv

\* What the loop of WriteTarLayer writes are pieces of a tar.
LEMMA LoopTypes ==
    ASSUME TypeInv, NEW w \in Writers, pc[w] \in {"entry", "body", "copy"}
    PROVE  /\ w \in Active /\ at[w] \in Nat \ {0}
           /\ changes[w] \in Seq(Change) /\ Len(changes[w]) \in Nat
           /\ at[w] <= Len(changes[w]) =>
                /\ HeaderOf(changes[w][at[w]]) \in Seq(Chunk)
                /\ IsFile(changes[w][at[w]]) => changes[w][at[w]].info.size \in 0..MaxSize
           /\ pc[w] \in {"body", "copy"} => at[w] <= Len(changes[w])
           /\ pc[w] = "copy" =>
                /\ Copied(w) \in DOMAIN live[w] /\ live[w][Copied(w)].blocks \in Seq(0..MaxTouch)
                /\ NextBlock(w) \in Nat \ {0}
<1>1. TarInv(w) /\ Trees
  BY DEF TypeInv, LayerInv
<1>2. w \in Active /\ Half(w) /\ IsUpper(upper[w])
  BY <1>1, UppersAre DEF TarInv
<1>3. /\ changes[w] = DiffDir(upper[w]) /\ at[w] \in Nat \ {0}
      /\ pc[w] \in {"body", "copy"} => at[w] <= Len(changes[w])
  BY <1>2 DEF Half
<1>4. /\ changes[w] \in Seq(Change)
      /\ \A k \in 1..Len(changes[w]) :
            /\ HeaderOf(changes[w][k]) \in Seq(Chunk)
            /\ IsFile(changes[w][k]) => changes[w][k].info.size \in 0..MaxSize
  BY <1>2, <1>3, DiffDirTypes
<1>5. Len(changes[w]) \in Nat
  BY <1>4, LenProperties
<1>6. at[w] <= Len(changes[w]) => at[w] \in 1..Len(changes[w])
  BY <1>3, <1>5
<1>7. ASSUME pc[w] = "copy"
      PROVE  /\ Copied(w) \in DOMAIN live[w] /\ live[w][Copied(w)].blocks \in Seq(0..MaxTouch)
             /\ NextBlock(w) \in Nat \ {0}
  <2>1. Copied(w) \in DOMAIN live[w]
    BY <1>2, <1>7 DEF Half, Copied
  <2>2. live[w][Copied(w)] \in [kind : Kind, blocks : Seq(0..MaxTouch)]
    BY <1>1, <1>2, <2>1 DEF Trees, Tree
  <2>3. /\ changes[w][at[w]].info.size \in Nat /\ missing[w] \in Nat
        /\ missing[w] <= changes[w][at[w]].info.size
    BY <1>2, <1>7 DEF Half
  <2>4. NextBlock(w) \in Nat \ {0}
    BY <2>3 DEF NextBlock
  <2> QED
    BY <2>1, <2>2, <2>4
<1> QED
  BY <1>2, <1>3, <1>4, <1>5, <1>6, <1>7

\* Writing x through the pipeline of w.
LEMMA WritesTyped ==
    ASSUME TypeInv, NEW w \in Writers, pc[w] \in {"entry", "body", "copy"}, NEW x \in Seq(Chunk), Write(w, x)
    PROVE  PipesTyped' /\ held' = held /\ sum'[held[w]["uncomp"]] \in Seq(Chunk)
<1>1. /\ BlobInv /\ PoolInv /\ PipesTyped /\ WriterInv(w)
      /\ sum[held[w]["uncomp"]] \in Seq(Chunk)
  BY DEF TypeInv, LayerInv, BlobInv, TarsTyped, Writing
<1>2. /\ Taken(held[w]) /\ gz[held[w]["gz"]].to = w /\ buf[held[w]["buf"]].to = w
  BY <1>1, OwnObjects DEF WriterInv, Flow, Writing
<1>3. PipesTyped'
  BY <1>1, <1>2, WriteTypes
<1>4. held' = held /\ sum'[held[w]["uncomp"]] = Cat(sum[held[w]["uncomp"]], x)
  BY <1>1, SeqIsSeq, OwnWrites
<1> QED
  BY <1>1, <1>3, <1>4, ConcatProperties DEF Cat

\* Every step of w keeps the types of its pipeline ...
LEMMA PipesStep ==
    ASSUME TypeInv, NEW w \in Writers, Snapshot(w)
    PROVE  PipesTyped' /\ TarsTyped(w)'
<1>0. /\ BlobInv /\ PoolInv /\ PipesTyped /\ WriterInv(w) /\ Shapes /\ TarsTyped(w)
      /\ pc \in [Writers -> Steps]
  BY DEF TypeInv, LayerInv, BlobInv, PoolInv, Bookkeeping
<1>1. \A s : [pc EXCEPT ![w] = s][w] = s
  BY <1>0
<1>2. ASSUME UNCHANGED <<sum, gz, buf, file>>, pc'[w] \notin Writing
      PROVE  PipesTyped' /\ TarsTyped(w)'
  BY <1>0, <1>2 DEF PipesTyped, TarsTyped
<1>3. CASE Diff(w) \/ CreateTemp(w) \/ EarlyError(w) \/ Sum(w) \/ GiveBack(w) \/ Return(w)
  <2>1. UNCHANGED <<sum, gz, buf, file>>
    BY <1>3 DEF Diff, CreateTemp, EarlyError, Sum, GiveBack, Return, poolVars
  <2>2. pc'[w] \in {"create", "open", "failed", "put", "return", "rename"}
    BY <1>1, <1>3 DEF Diff, CreateTemp, EarlyError, Sum, GiveBack, Return, Goto
  <2> QED
    BY <1>2, <2>1, <2>2 DEF Writing
<1>4. CASE Open(w)
  <2>1. PipesTyped'
    BY <1>0, <1>4, OpenTypes DEF Open
  <2>2. sum'[held'[w]["uncomp"]] = <<>>
    BY <1>0, <1>4, OpensEmpty
  <2>3. <<>> \in Seq(Chunk)
    OBVIOUS
  <2> QED
    BY <2>1, <2>2, <2>3 DEF TarsTyped
<1>5. CASE SkipChange(w)
  BY <1>0, <1>5 DEF SkipChange, poolVars, PipesTyped, TarsTyped
<1>6. ASSUME pc[w] \in {"entry", "body", "copy"}, NEW x \in Seq(Chunk), Write(w, x)
      PROVE  PipesTyped' /\ TarsTyped(w)'
  BY <1>6, WritesTyped DEF TarsTyped
<1>7. CASE WriteHeader(w)
  <2>1. /\ pc[w] = "entry" /\ at[w] <= Len(changes[w])
        /\ Write(w, HeaderOf(changes[w][at[w]]))
    BY <1>7 DEF WriteHeader, More, ToWrite
  <2>2. HeaderOf(changes[w][at[w]]) \in Seq(Chunk)
    BY <2>1, LoopTypes
  <2> QED
    BY <1>6, <2>1, <2>2
<1>8. CASE CopyBlock(w)
  <2> DEFINE blocks == live[w][Copied(w)].blocks
             n == NextBlock(w)
  <2>1. pc[w] = "copy" /\ n <= Len(blocks) /\ Write(w, <<Body(blocks[n])>>)
    BY <1>8 DEF CopyBlock
  <2>2. n \in Nat \ {0} /\ blocks \in Seq(0..MaxTouch)
    BY <2>1, LoopTypes
  <2> HIDE DEF blocks, n
  <2>3. blocks[n] \in 0..MaxTouch
    <3>1. Len(blocks) \in Nat
      BY <2>2, LenProperties
    <3>2. n \in 1..Len(blocks)
      BY <2>1, <2>2, <3>1
    <3> QED
      BY <2>2, <3>2, ElementOfSeq
  <2>4. <<Body(blocks[n])>> \in Seq(Chunk)
    BY <2>3, BodiesAreChunks
  <2> QED
    BY <1>6, <2>1, <2>4
<1>12. CASE OpenFile(w) \/ EndCopy(w)
  <2>1. UNCHANGED <<sum, gz, buf, file, held>> /\ pc[w] \in {"body", "copy"}
    BY <1>12 DEF OpenFile, EndCopy, poolVars
  <2> QED
    BY <1>0, <2>1 DEF PipesTyped, TarsTyped, Writing
<1>9. CASE CloseTar(w)
  BY <1>6, <1>9, BodiesAreChunks DEF CloseTar
<1>10. CASE FinishGzip(w) \/ FinishBuf(w)
  <2>1. \/ pc[w] = "gzclose" /\ CloseGzip(w)
        \/ pc[w] = "flush" /\ Flush(w)
    BY <1>10 DEF FinishGzip, FinishBuf
  <2>2. Flow(w) /\ Taken(held[w]) /\ gz[held[w]["gz"]].to = w /\ buf[held[w]["buf"]].to = w
        /\ sum[held[w]["uncomp"]] \in Seq(Chunk)
    BY <1>0, <2>1, OwnObjects DEF WriterInv, Flow, Writing, TarsTyped
  <2>3. PipesTyped'
    BY <1>0, <2>1, <2>2, CloseGzipTypes, FlushTypes
  <2>4. held' = held /\ sum'[held[w]["uncomp"]] = sum[held[w]["uncomp"]]
    <3>1. held' = held
      BY <2>1 DEF CloseGzip, Flush
    <3>2. sum'[held[w]["uncomp"]] = sum[held[w]["uncomp"]]
      BY <1>0, <2>1, <2>2, CloseGzipFlow, FlushFlow
    <3> QED
      BY <3>1, <3>2
  <2> QED
    BY <2>2, <2>3, <2>4 DEF TarsTyped
<1>11. CASE WriteError(w) \/ Rename(w)
  <2>1. UNCHANGED <<sum, gz, buf>> /\ (file' = file \/ file' = [file EXCEPT ![w] = <<>>])
    BY <1>11 DEF WriteError, Rename
  <2>2. pc'[w] \in {"failed", "done"}
    BY <1>1, <1>11 DEF WriteError, Rename, Goto
  <2>3. <<>> \in Seq(Zipped)
    OBVIOUS
  <2>4. file' \in [Writers -> Seq(Zipped)]
    BY <1>0, <2>1, <2>3 DEF PipesTyped
  <2> QED
    BY <1>0, <2>1, <2>2, <2>4 DEF PipesTyped, TarsTyped, Writing
<1> QED
  BY <1>3, <1>4, <1>5, <1>7, <1>8, <1>9, <1>10, <1>11, <1>12 DEF Snapshot

\* ... and what Snapshot keeps.
LEMMA SnapshotStep ==
    ASSUME TypeInv, NEW w \in Writers, Snapshot(w)
    PROVE  SnapshotTyped'
<1>0. /\ BlobInv /\ PipesTyped /\ WriterInv(w) /\ SnapshotTyped /\ TarsTyped(w) /\ Trees
      /\ Tables
  BY DEF TypeInv, LayerInv, BlobInv
<1>2. /\ changes' \in [Writers -> Seq(Change)]
      /\ \A v \in Writers : at'[v] \in 1..(Len(changes'[v]) + 1)
  <2>1. CASE Diff(w)
    <3>1. pc[w] = "diff" /\ w \in Active /\ at' = at
          /\ changes' = [changes EXCEPT ![w] = DiffDir(upper[w])]
      BY <2>1 DEF Diff
    <3>2. at[w] = 1
      BY <3>1 DEF TypeInv, LayerInv, TarInv
    <3>3. DiffDir(upper[w]) \in Seq(Change)
      BY <1>0, <3>1, UppersAre, DiffDirTypes
    <3>4. Len(DiffDir(upper[w])) \in Nat
      BY <3>3, LenProperties
    <3>5. /\ changes' \in [Writers -> Seq(Change)]
          /\ changes'[w] = DiffDir(upper[w])
          /\ \A v \in Writers : v # w => changes'[v] = changes[v]
      BY <1>0, <3>1, <3>3 DEF SnapshotTyped
    <3>6. 1 \in 1..(Len(DiffDir(upper[w])) + 1)
      BY <3>4
    <3> QED
      BY <1>0, <3>1, <3>2, <3>5, <3>6 DEF SnapshotTyped
  <2>2. CASE /\ pc[w] \in {"entry", "body", "copy"} /\ at[w] <= Len(changes[w])
             /\ at' = [at EXCEPT ![w] = at[w] + 1] /\ changes' = changes
    <3>1. at[w] \in Nat \ {0} /\ Len(changes[w]) \in Nat
      BY <2>2, LoopTypes
    <3>2. at[w] + 1 \in 1..(Len(changes[w]) + 1)
      BY <2>2, <3>1
    <3> QED
      BY <1>0, <2>2, <3>2 DEF SnapshotTyped, Tables
  <2>3. CASE UNCHANGED <<at, changes>>
    BY <1>0, <2>3 DEF SnapshotTyped
  <2>4. ASSUME ~Diff(w), ~UNCHANGED <<at, changes>>
        PROVE  /\ pc[w] \in {"entry", "body", "copy"} /\ at[w] <= Len(changes[w])
               /\ at' = [at EXCEPT ![w] = at[w] + 1] /\ changes' = changes
    <3>1. SkipChange(w) \/ WriteHeader(w) \/ EndCopy(w)
      BY <2>4 DEF Snapshot, CreateTemp, EarlyError, Open, OpenFile, CopyBlock, CloseTar, FinishGzip, FinishBuf, Sum,
                  GiveBack, Return, WriteError, Rename
    <3>2. CASE SkipChange(w) \/ WriteHeader(w)
      BY <2>4, <3>2 DEF SkipChange, WriteHeader, More
    <3>3. CASE EndCopy(w)
      <4>1. pc[w] = "copy" /\ at' = [at EXCEPT ![w] = at[w] + 1] /\ changes' = changes
        BY <3>3 DEF EndCopy
      <4> QED
        BY <4>1, LoopTypes
    <3> QED
      BY <3>1, <3>2, <3>3
  <2> QED
    BY <2>1, <2>2, <2>3, <2>4
<1>3. missing' \in [Writers -> 0..MaxSize]
  <2>1. CASE UNCHANGED missing
    BY <1>0, <2>1 DEF SnapshotTyped
  <2>2. ASSUME NEW n \in 0..MaxSize, missing' = [missing EXCEPT ![w] = n]
        PROVE  missing' \in [Writers -> 0..MaxSize]
    BY <1>0, <2>2 DEF SnapshotTyped
  <2>3. CASE WriteHeader(w)
    <3>1. /\ pc[w] = "entry" /\ at[w] <= Len(changes[w])
          /\ \/ /\ IsFile(changes[w][at[w]])
                /\ missing' = [missing EXCEPT ![w] = changes[w][at[w]].info.size]
             \/ UNCHANGED missing
      BY <2>3 DEF WriteHeader, More
    <3>2. IsFile(changes[w][at[w]]) => changes[w][at[w]].info.size \in 0..MaxSize
      BY <3>1, LoopTypes
    <3> QED
      BY <2>1, <2>2, <3>1, <3>2
  <2>4. CASE CopyBlock(w)
    <3>1. missing[w] > 0 /\ missing' = [missing EXCEPT ![w] = missing[w] - 1]
      BY <2>4 DEF CopyBlock
    <3>2. missing[w] \in 0..MaxSize
      BY <1>0 DEF SnapshotTyped
    <3>3. missing[w] - 1 \in 0..MaxSize
      BY <3>1, <3>2, SizesAreNumbers
    <3> QED
      BY <2>2, <3>1, <3>3
  <2>5. ~WriteHeader(w) /\ ~CopyBlock(w) => UNCHANGED missing
    BY DEF Snapshot, Diff, CreateTemp, EarlyError, Open, SkipChange, OpenFile, EndCopy,
           CloseTar, FinishGzip, FinishBuf, Sum, GiveBack, Return, WriteError, Rename
  <2> QED
    BY <2>1, <2>3, <2>4, <2>5
<1>4. layer' \in [Writers -> LayerType] /\ DOMAIN named' \subseteq Seq(Zipped)
  <2>1. CASE UNCHANGED <<layer, named>>
    BY <1>0, <2>1 DEF SnapshotTyped
  <2>2. CASE Sum(w)
    <3> DEFINE l == [diffID |-> sum[held[w]["uncomp"]], digest |-> sum[held[w]["comp"]],
                     renamed |-> FALSE]
    <3>1. pc[w] = "sum" /\ layer' = [layer EXCEPT ![w] = l] /\ named' = named
      BY <2>2 DEF Sum, Pipe
    <3>2. sum[held[w]["uncomp"]] \in Seq(Chunk) /\ sum[held[w]["comp"]] = file[w]
      BY <1>0, <3>1 DEF TarsTyped, Writing, WriterInv, Flow
    <3>3. file[w] \in Seq(Zipped)
      BY <1>0 DEF PipesTyped
    <3>4. l \in LayerType
      BY <3>2, <3>3 DEF LayerType
    <3> HIDE DEF l
    <3> QED
      BY <1>0, <3>1, <3>4 DEF SnapshotTyped
  <2>3. CASE Rename(w)
    <3>1. layer[w] \in LayerType /\ layer \in [Writers -> LayerType]
          /\ DOMAIN named \subseteq Seq(Zipped)
      BY <1>0 DEF SnapshotTyped
    <3>2. layer[w].digest \in Seq(Zipped) /\ [layer[w] EXCEPT !.renamed = TRUE] \in LayerType
      BY <3>1 DEF LayerType
    <3>3. \/ UNCHANGED <<layer, named>>
          \/ /\ layer' = [layer EXCEPT ![w] = [layer[w] EXCEPT !.renamed = TRUE]]
             /\ DOMAIN named' = DOMAIN named \cup {layer[w].digest}
      BY <2>3 DEF Rename
    <3> QED
      BY <2>1, <3>1, <3>2, <3>3
  <2>4. ~Sum(w) /\ ~Rename(w) => UNCHANGED <<layer, named>>
    BY DEF Snapshot, Diff, CreateTemp, EarlyError, Open, SkipChange, WriteHeader, OpenFile,
           CopyBlock, EndCopy, CloseTar, FinishGzip, FinishBuf, GiveBack, Return, WriteError
  <2> QED
    BY <2>1, <2>2, <2>3, <2>4
<1> QED
  BY <1>2, <1>3, <1>4 DEF SnapshotTyped

\* Each step keeps the types; a step of one writer touches no tar of another's.
LEMMA TypeInvNext == TypeInv /\ [Next]_vars => TypeInv'
<1> SUFFICES ASSUME TypeInv, [Next]_vars PROVE TypeInv'
  OBVIOUS
<1>0. /\ LayerInv /\ PipesTyped /\ SnapshotTyped /\ BlobInv /\ Tables
      /\ \A w \in Writers : TarsTyped(w)
  BY DEF TypeInv, LayerInv
<1>1. LayerInv'
  BY <1>0, LayerInvNext
<1>2. CASE UNCHANGED vars
  BY <1>0, <1>1, <1>2 DEF vars, poolVars, snapshotVars, TypeInv, PipesTyped, SnapshotTyped,
                          TarsTyped
<1>3. ASSUME NEW w \in Writers, Leftover(w)
      PROVE  TypeInv'
  <2>1. UNCHANGED <<poolVars, snapshotVars>>
    BY <1>3 DEF Leftover
  <2>3. SnapshotTyped'
    BY <1>0, <2>1 DEF SnapshotTyped, snapshotVars
  <2>4. PipesTyped' /\ \A v \in Writers : TarsTyped(v)'
    BY <1>0, <2>1 DEF PipesTyped, TarsTyped, poolVars, snapshotVars
  <2> QED
    BY <1>1, <2>3, <2>4 DEF TypeInv
<1>4. ASSUME NEW w \in Writers, Snapshot(w)
      PROVE  TypeInv'
  <2>1. PipesTyped' /\ TarsTyped(w)' /\ SnapshotTyped'
    BY <1>4, PipesStep, SnapshotStep
  <2>2. ASSUME NEW v \in Writers, v # w
        PROVE  TarsTyped(v)'
    <3>1. Untouched(v)
      BY <1>0, <1>4, <2>2, TouchesOwn
    <3> QED
      BY <1>0, <3>1 DEF Untouched, TarsTyped
  <2> QED
    BY <1>1, <2>1, <2>2 DEF TypeInv
<1> QED
  BY <1>2, <1>3, <1>4 DEF Next

\* Type correctness, for any number of writers and objects: a hash above a gzip writer
\* has pieces of a tar only, and a layer's digest is compressed data.
THEOREM LayerTypes == Spec => []TypeOK
<1> QED
  BY TypeInvInit, TypeInvNext, TypeInvTypes, PTL DEF Spec
=============================================================================
