-------------------------- MODULE BuildCache_proofs --------------------------
(***************************************************************************)
(* The persistent build cache, for any number of callers, keys and layers: *)
(* nothing is made up except where two texts meet, and what a lone update  *)
(* wrote is read back.                                                     *)
(***************************************************************************)
EXTENDS BuildCache, TLAPS

\* Only known pairs, in the map, in the file, in the bytes of the file, in a
\* caller's hands and in an answer.
OnlyKnown ==
    /\ Pairs(entries) \subseteq Known
    /\ content # Torn => Pairs(content) \subseteq Known
    /\ \A f \in texts : Pairs(f) \subseteq Known
    /\ \A c \in Caller : Pairs(data[c]) \subseteq Known
    /\ answer \subseteq Known

\* How far a caller is whose update no other has overlapped: what it is to
\* write is the map of now, and it has the cache file to itself.
AloneSoFar ==
    \A c \in alone :
        /\ Updating = {c}
        /\ pc[c] \in {"open", "write"} => data[c] = entries
        /\ pc[c] = "write" => /\ fd[c] = inode /\ inode # 0
                              /\ opener = {c} /\ texts \subseteq {data[c]}
        /\ pc[c] = "remove" => entries = NoEntries

SyncedMeans == synced => Updating = {} /\ Loaded = entries

Inv == TypeOK /\ OnlyKnown /\ AloneSoFar /\ SyncedMeans

Labels == {"idle", "marshal", "open", "write", "remove", "stat"}

-----------------------------------------------------------------------------
(* Maps of entries.                                                        *)

LEMMA EntryMapsAre ==
    ASSUME NEW f, NEW keys \in SUBSET Key
    PROVE  f \in [keys -> Layer \cup {Mixed}] => f \in EntryMaps /\ DOMAIN f = keys
BY DEF EntryMaps

LEMMA EntryMapHas ==
    ASSUME NEW f \in EntryMaps
    PROVE  /\ DOMAIN f \subseteq Key /\ f \in [DOMAIN f -> Layer \cup {Mixed}]
           /\ Pairs(f) \subseteq Key \X (Layer \cup {Mixed})
           /\ f # Torn
<1>1. PICK keys \in SUBSET Key : f \in [keys -> Layer \cup {Mixed}]
  BY DEF EntryMaps
<1>2. DOMAIN f = keys /\ \A k \in keys : f[k] \in Layer \cup {Mixed}
  BY <1>1
<1> QED
  BY <1>1, <1>2, CacheConstants DEF Pairs

LEMMA NoEntriesType == NoEntries \in EntryMaps /\ Pairs(NoEntries) = {}
<1>1. NoEntries \in [{} -> Layer \cup {Mixed}] /\ {} \in SUBSET Key
  BY DEF NoEntries
<1>2. NoEntries \in EntryMaps
  BY <1>1, EntryMapsAre
<1>3. Pairs(NoEntries) = {}
  BY DEF NoEntries, Pairs
<1> QED
  BY <1>2, <1>3

LEMMA PutEntry ==
    ASSUME NEW f \in EntryMaps, NEW k \in Key, NEW l \in Layer
    PROVE  Put(f, k, l) \in EntryMaps /\ Pairs(Put(f, k, l)) \subseteq Pairs(f) \cup {<<k, l>>}
<1>1. /\ DOMAIN Put(f, k, l) = DOMAIN f \cup {k}
      /\ \A x \in DOMAIN f \cup {k} : Put(f, k, l)[x] = IF x = k THEN l ELSE f[x]
  BY DEF Put
<1>2. Put(f, k, l) \in [DOMAIN f \cup {k} -> Layer \cup {Mixed}]
  BY EntryMapHas DEF Put
<1>3. DOMAIN f \cup {k} \in SUBSET Key
  BY EntryMapHas
<1>4. Put(f, k, l) \in EntryMaps
  BY <1>2, <1>3, EntryMapsAre
<1>5. Pairs(Put(f, k, l)) \subseteq Pairs(f) \cup {<<k, l>>}
  BY <1>1 DEF Pairs
<1> QED
  BY <1>4, <1>5

LEMMA OneEntry ==
    ASSUME NEW f \in EntryMaps, NEW k \in DOMAIN f
    PROVE  Restrict(f, {k}) \in EntryMaps /\ Pairs(Restrict(f, {k})) \subseteq Pairs(f)
<1>1. Restrict(f, {k}) = [x \in {k} |-> f[x]]
  BY DEF Restrict
<1>2. Restrict(f, {k}) \in [{k} -> Layer \cup {Mixed}] /\ {k} \in SUBSET Key
  BY <1>1, EntryMapHas
<1>3. Pairs(Restrict(f, {k})) \subseteq Pairs(f)
  BY <1>1 DEF Pairs
<1> QED
  BY <1>2, <1>3, EntryMapsAre

LEMMA LoadedType ==
    ASSUME TypeOK, OnlyKnown
    PROVE  Loaded \in EntryMaps /\ Pairs(Loaded) \subseteq Known
BY NoEntriesType DEF Loaded, TypeOK, OnlyKnown

\* What several texts can be read as has their pairs, but for mixed layers.
LEMMA ReadingsAre ==
    ASSUME NEW ts \in SUBSET EntryMaps, NEW g \in Readings(ts), g # Torn,
           NEW known, Key \X {Mixed} \subseteq known, \A f \in ts : Pairs(f) \subseteq known
    PROVE  g \in EntryMaps /\ Pairs(g) \subseteq known
<1>1. CASE g \in ts
  BY <1>1
<1>2. CASE g \notin ts
  <2>1. g \in EntryMaps /\ \A k \in DOMAIN g : \E f \in ts : k \in DOMAIN f /\ g[k] \in {f[k], Mixed}
    BY <1>2 DEF Readings
  <2>2. ASSUME NEW k \in DOMAIN g PROVE <<k, g[k]>> \in known
    <3>1. PICK f \in ts : k \in DOMAIN f /\ g[k] \in {f[k], Mixed}
      BY <2>1
    <3>2. <<k, f[k]>> \in known
      BY <3>1 DEF Pairs
    <3>3. <<k, Mixed>> \in known
      BY <2>1, EntryMapHas
    <3> QED
      BY <3>1, <3>2, <3>3
  <2> QED
    BY <2>1, <2>2 DEF Pairs
<1> QED
  BY <1>1, <1>2

\* A write leaves a file that can be read as known pairs, or as nothing.
LEMMA WrittenIs ==
    ASSUME TypeOK, OnlyKnown, NEW c \in Caller, NEW outcome \in {Torn, data[c]},
           Written(c, outcome), stored' = stored
    PROVE  /\ content' \in EntryMaps \cup {Torn} /\ texts' \subseteq EntryMaps
           /\ clashed' \in BOOLEAN /\ Known \subseteq Known'
           /\ content' # Torn => Pairs(content') \subseteq Known'
           /\ \A f \in texts' : Pairs(f) \subseteq Known'
<1>0. data[c] \in EntryMaps /\ Pairs(data[c]) \subseteq Known
  BY DEF TypeOK, OnlyKnown
<1>1. CASE fd[c] # inode
  BY <1>1 DEF Written, TypeOK, OnlyKnown, Known
<1>2. CASE fd[c] = inode
  <2> DEFINE own == texts \subseteq {data[c]} /\ opener = {c}
  <2>1. /\ texts' = texts \cup {data[c]}
        /\ clashed' = (clashed \/ ~own)
        /\ own => content' = outcome
    BY <1>2 DEF Written
  <2>2. ~own => content' \in Readings(texts')
    BY <1>2 DEF Written
  <2> HIDE DEF own
  <2>3. clashed' \in BOOLEAN /\ (clashed => clashed')
    BY <2>1 DEF TypeOK
  <2>4. Known \subseteq Known'
    BY <2>3 DEF Known
  <2>5. texts' \subseteq EntryMaps /\ \A f \in texts' : Pairs(f) \subseteq Known'
    BY <1>0, <2>1, <2>4 DEF TypeOK, OnlyKnown
  <2>6. CASE own
    <3>1. content' = outcome
      BY <2>1, <2>6
    <3> QED
      BY <1>0, <2>3, <2>4, <2>5, <3>1
  <2>7. CASE ~own
    <3>1. Key \X {Mixed} \subseteq Known'
      BY <2>1, <2>7 DEF Known
    <3>2. content' # Torn => content' \in EntryMaps /\ Pairs(content') \subseteq Known'
      BY <2>2, <2>5, <2>7, <3>1, ReadingsAre
    <3> QED
      BY <2>3, <2>4, <2>5, <3>2
  <2> QED
    BY <2>6, <2>7
<1> QED
  BY <1>1, <1>2

-----------------------------------------------------------------------------
(* Types.                                                                  *)

LEMMA InitInv == ASSUME Init PROVE Inv
<1> USE NoEntriesType, CacheConstants
<1>1. TypeOK
  <2>1. /\ inodes = 0 /\ inode = 0 /\ updates = 0
        /\ fd = [c \in Caller |-> 0] /\ data = [c \in Caller |-> NoEntries]
    BY DEF Init
  <2>2. updates \in 0..MaxUpdates /\ inode \in 0..inodes /\ inodes \in Nat
    BY <2>1
  <2>3. fd \in [Caller -> 0..inodes] /\ data \in [Caller -> EntryMaps]
    BY <2>1
  <2> QED
    BY <2>2, <2>3 DEF Init, TypeOK
<1>2. OnlyKnown
  BY DEF Init, OnlyKnown
<1>3. Updating = {} /\ Loaded = entries
  BY DEF Init, Updating, Loaded
<1> QED
  BY <1>1, <1>2, <1>3 DEF Init, Inv, AloneSoFar, SyncedMeans

LEMMA TypeNext ==
    ASSUME TypeOK, OnlyKnown, [Next]_vars
    PROVE  TypeOK'
<1> USE CacheConstants
<1>0. ASSUME NEW c \in Caller, Begins(c), NEW l \in {"marshal", "remove"}, Goto(c, l)
      PROVE  /\ updates' \in 0..MaxUpdates /\ alone' \subseteq Caller /\ synced' \in BOOLEAN
             /\ pc' \in [Caller -> Labels]
  <2>1. pc' \in [Caller -> Labels]
    BY <1>0 DEF Goto, TypeOK, Labels
  <2>2. updates' \in 0..MaxUpdates
    BY <1>0 DEF Begins, TypeOK
  <2>3. alone' \subseteq Caller /\ synced' = FALSE
    BY <1>0 DEF Begins
  <2> QED
    BY <2>1, <2>2, <2>3
<1>1. ASSUME NEW c \in Caller, NEW k \in Key, NEW l \in Layer, StoreEntry(c, k, l)
      PROVE  TypeOK'
  <2>1. entries' \in EntryMaps
    BY <1>1, PutEntry DEF StoreEntry, TypeOK
  <2>2. /\ UNCHANGED <<inode, content, texts, opener, inodes, blobs, data, fd, answer, clashed>>
        /\ stored' \subseteq Key \X Layer /\ Begins(c) /\ Goto(c, "marshal")
    BY <1>1 DEF StoreEntry, fileVars, TypeOK
  <2> QED
    BY <1>0, <2>1, <2>2 DEF TypeOK, Labels
<1>2. ASSUME NEW c \in Caller, Marshal(c) PROVE TypeOK'
  BY <1>2 DEF Marshal, Goto, fileVars, pastVars, TypeOK
<1>3. ASSUME NEW c \in Caller, OpenFile(c) PROVE TypeOK'
  <2>1. /\ inodes' \in Nat /\ inode' \in 0..inodes' /\ inodes <= inodes'
        /\ fd' = [fd EXCEPT ![c] = inode']
    BY <1>3 DEF OpenFile, TypeOK
  <2>2. fd' \in [Caller -> 0..inodes']
    BY <2>1 DEF TypeOK
  <2> QED
    BY <1>3, <2>1, <2>2 DEF OpenFile, Goto, pastVars, TypeOK
<1>4. ASSUME NEW c \in Caller, NEW ok \in BOOLEAN, Returns(c, ok)
      PROVE  /\ data' \in [Caller -> EntryMaps] /\ pc' \in [Caller -> Labels]
             /\ synced' \in BOOLEAN /\ alone' \subseteq Caller
             /\ fd' \in [Caller -> 0..inodes]
  <2>1. 0 \in 0..inodes
    BY DEF TypeOK
  <2> QED
    BY <1>4, <2>1, NoEntriesType DEF Returns, Goto, TypeOK, Labels
<1>5. ASSUME NEW c \in Caller, WritePart(c) PROVE TypeOK'
  <2>1. /\ Written(c, Torn)
        /\ UNCHANGED <<entries, inode, opener, inodes, blobs, pc, data, fd, answer,
                       updates, stored, alone, synced>>
    BY <1>5 DEF WritePart, callVars
  <2>2. content' \in EntryMaps \cup {Torn} /\ texts' \subseteq EntryMaps /\ clashed' \in BOOLEAN
    BY <2>1, WrittenIs
  <2> QED
    BY <2>1, <2>2 DEF TypeOK
<1>6. ASSUME NEW c \in Caller, WriteFile(c) PROVE TypeOK'
  <2>1. PICK ok \in BOOLEAN : Returns(c, ok)
    BY <1>6 DEF WriteFile
  <2>2. /\ Written(c, data[c])
        /\ UNCHANGED <<entries, inode, opener, inodes, blobs, answer, updates, stored>>
    BY <1>6 DEF WriteFile
  <2>3. content' \in EntryMaps \cup {Torn} /\ texts' \subseteq EntryMaps /\ clashed' \in BOOLEAN
    BY <2>2, WrittenIs
  <2> QED
    BY <1>4, <2>1, <2>2, <2>3 DEF TypeOK, Labels
<1>7. ASSUME NEW c \in Caller, SaveFails(c) PROVE TypeOK'
  BY <1>4, <1>7 DEF SaveFails, fileVars, TypeOK, Labels
<1>8. ASSUME NEW c \in Caller, ClearMap(c) PROVE TypeOK'
  <2>1. /\ UNCHANGED <<inode, content, texts, opener, inodes, blobs, data, fd, answer, stored, clashed>>
        /\ entries' \in EntryMaps /\ Begins(c) /\ Goto(c, "remove")
    BY <1>8, NoEntriesType DEF ClearMap, fileVars
  <2> QED
    BY <1>0, <2>1 DEF TypeOK, Labels
<1>9. ASSUME NEW c \in Caller, RemoveFile(c) PROVE TypeOK'
  <2>1. PICK ok \in BOOLEAN : Returns(c, ok)
    BY <1>9 DEF RemoveFile
  <2>2. /\ UNCHANGED <<entries, inodes, blobs, answer, updates, stored, clashed>>
    BY <1>9 DEF RemoveFile
  <2>3. /\ inode' \in 0..inodes
        /\ content' \in EntryMaps \cup {Torn}
        /\ texts' \subseteq EntryMaps /\ opener' \subseteq Caller
    <3>1. 0 \in 0..inodes
      BY DEF TypeOK
    <3>2. CASE inode' = 0 /\ content' = Torn /\ texts' = {} /\ opener' = {}
      BY <3>1, <3>2
    <3>3. CASE UNCHANGED <<inode, content, texts, opener>>
      BY <3>3 DEF TypeOK
    <3> QED
      BY <1>9, <3>2, <3>3 DEF RemoveFile
  <2> QED
    BY <1>4, <2>1, <2>2, <2>3 DEF TypeOK, Labels
<1>10. ASSUME NEW c \in Caller, NEW k \in Key, Lookup(c, k) PROVE TypeOK'
  <2>1. CASE k \in DOMAIN entries
    <3>1. Restrict(entries, {k}) \in EntryMaps
      BY <2>1, OneEntry DEF TypeOK
    <3> QED
      BY <1>10, <2>1, <3>1 DEF Lookup, Goto, fileVars, pastVars, TypeOK
  <2>2. CASE k \notin DOMAIN entries
    BY <1>10, <2>2 DEF Lookup, fileVars, pastVars, TypeOK
  <2> QED
    BY <2>1, <2>2
<1>11. ASSUME NEW c \in Caller, StatBlob(c) PROVE TypeOK'
  <2>1. answer' \subseteq Pairs(data[c])
    BY <1>11 DEF StatBlob
  <2>2. answer' \subseteq Key \X (Layer \cup {Mixed})
    BY <2>1, EntryMapHas DEF TypeOK
  <2> QED
    BY <1>11, <2>2, NoEntriesType DEF StatBlob, Goto, fileVars, pastVars, TypeOK
<1>12. CASE \E l \in Layer : RemoveBlob(l)
  BY <1>12 DEF RemoveBlob, fileVars, callVars, pastVars, TypeOK
<1>13. CASE Restart
  <2>1. entries' \in EntryMaps
    BY <1>13, LoadedType DEF Restart
  <2>2. 0 \in 0..inodes
    BY DEF TypeOK
  <2> QED
    BY <1>13, <2>1, <2>2, NoEntriesType DEF Restart, fileVars, TypeOK
<1>14. CASE UNCHANGED vars
  BY <1>14 DEF vars, fileVars, callVars, pastVars, TypeOK
<1> QED
  BY <1>1, <1>2, <1>3, <1>5, <1>6, <1>7, <1>8, <1>9, <1>10, <1>11, <1>12, <1>13, <1>14 DEF Next, Step

-----------------------------------------------------------------------------
(* Known pairs.                                                            *)

LEMMA OnlyKnownNext ==
    ASSUME TypeOK, OnlyKnown, [Next]_vars
    PROVE  OnlyKnown'
<1>0. \A c \in Caller : data[c] \in EntryMaps /\ Pairs(data[c]) \subseteq Known
  BY DEF OnlyKnown, TypeOK
<1>1. ASSUME NEW c \in Caller, NEW f, Pairs(f) \subseteq Known, data' = [data EXCEPT ![c] = f]
      PROVE  \A d \in Caller : Pairs(data'[d]) \subseteq Known
  BY <1>0, <1>1 DEF TypeOK
\* what is written to the file aside, a step only moves pairs about
<1>2. ASSUME Known \subseteq Known', Pairs(entries') \subseteq Known', UNCHANGED answer,
             content' \in {content, Torn}, texts' \subseteq texts,
             \A d \in Caller : Pairs(data'[d]) \subseteq Known
      PROVE  OnlyKnown'
  <2>1. content' # Torn => Pairs(content') \subseteq Known'
    BY <1>2 DEF OnlyKnown
  <2>2. (\A f \in texts' : Pairs(f) \subseteq Known') /\ answer' \subseteq Known'
    BY <1>2 DEF OnlyKnown
  <2>3. \A d \in Caller : Pairs(data'[d]) \subseteq Known'
    BY <1>2
  <2>4. Pairs(entries)' = Pairs(entries') /\ Pairs(content)' = Pairs(content')
        /\ \A d \in Caller : Pairs(data[d])' = Pairs(data'[d])
    BY DEF Pairs
  <2> QED
    BY <1>2, <2>1, <2>2, <2>3, <2>4 DEF OnlyKnown
<1>3. ASSUME NEW c \in Caller, NEW k \in Key, NEW l \in Layer, StoreEntry(c, k, l)
      PROVE  OnlyKnown'
  <2>1. /\ UNCHANGED <<content, texts, data, answer, clashed>> /\ stored' = stored \cup {<<k, l>>}
        /\ entries' = Put(entries, k, l)
    BY <1>3 DEF StoreEntry, fileVars
  <2>2. Known' = Known \cup {<<k, l>>}
    BY <2>1 DEF Known
  <2>3. Pairs(entries') \subseteq Known'
    BY <2>1, <2>2, PutEntry DEF OnlyKnown, TypeOK
  <2> QED
    BY <1>0, <1>2, <2>1, <2>2, <2>3
<1>4. ASSUME NEW c \in Caller, Marshal(c) PROVE OnlyKnown'
  <2>1. /\ data' = [data EXCEPT ![c] = entries]
        /\ UNCHANGED <<entries, content, texts, answer, stored, clashed>>
    BY <1>4 DEF Marshal, fileVars, pastVars
  <2>2. Known' = Known /\ Pairs(entries) \subseteq Known
    BY <2>1 DEF Known, OnlyKnown
  <2> QED
    BY <1>1, <1>2, <2>1, <2>2
<1>5. ASSUME NEW c \in Caller, OpenFile(c) PROVE OnlyKnown'
  <2>1. UNCHANGED <<entries, data, answer, stored, clashed>> /\ content' = Torn /\ texts' = {}
    BY <1>5 DEF OpenFile, pastVars
  <2>2. Known' = Known /\ Pairs(entries) \subseteq Known
    BY <2>1 DEF Known, OnlyKnown
  <2> QED
    BY <1>0, <1>2, <2>1, <2>2
<1>6. ASSUME NEW c \in Caller, NEW ok, Returns(c, ok)
      PROVE  \A d \in Caller : Pairs(data'[d]) \subseteq Known
  BY <1>1, <1>6, NoEntriesType DEF Returns
<1>7. ASSUME NEW c \in Caller, NEW outcome \in {Torn, data[c]}, Written(c, outcome),
             UNCHANGED <<entries, answer, stored>>, \A d \in Caller : Pairs(data'[d]) \subseteq Known
      PROVE  OnlyKnown'
  <2>1. /\ Known \subseteq Known'
        /\ content' # Torn => Pairs(content') \subseteq Known'
        /\ \A f \in texts' : Pairs(f) \subseteq Known'
    BY <1>7, WrittenIs
  <2>2. Pairs(entries) \subseteq Known' /\ answer \subseteq Known'
    BY <2>1 DEF OnlyKnown
  <2>3. Pairs(entries)' = Pairs(entries) /\ Pairs(content)' = Pairs(content')
        /\ \A d \in Caller : Pairs(data[d])' = Pairs(data'[d])
    BY <1>7 DEF Pairs
  <2> QED
    BY <1>7, <2>1, <2>2, <2>3 DEF OnlyKnown
<1>8. ASSUME NEW c \in Caller, WritePart(c) PROVE OnlyKnown'
  <2>1. Written(c, Torn) /\ UNCHANGED <<entries, answer, stored, data>>
    BY <1>8 DEF WritePart, callVars
  <2> QED
    BY <1>0, <1>7, <2>1
<1>9. ASSUME NEW c \in Caller, WriteFile(c) PROVE OnlyKnown'
  <2>1. Written(c, data[c]) /\ UNCHANGED <<entries, answer, stored>>
    BY <1>9 DEF WriteFile
  <2>2. \A d \in Caller : Pairs(data'[d]) \subseteq Known
    BY <1>6, <1>9 DEF WriteFile
  <2> QED
    BY <1>7, <2>1, <2>2
<1>10. ASSUME NEW c \in Caller, SaveFails(c) \/ RemoveFile(c) PROVE OnlyKnown'
  <2>1. /\ UNCHANGED <<entries, answer, stored, clashed>>
        /\ content' \in {content, Torn} /\ texts' \subseteq texts
    BY <1>10 DEF SaveFails, RemoveFile, fileVars
  <2>2. \A d \in Caller : Pairs(data'[d]) \subseteq Known
    BY <1>6, <1>10 DEF SaveFails, RemoveFile
  <2>3. Known' = Known /\ Pairs(entries) \subseteq Known
    BY <2>1 DEF Known, OnlyKnown
  <2> QED
    BY <1>2, <2>1, <2>2, <2>3
<1>11. ASSUME NEW c \in Caller, ClearMap(c) PROVE OnlyKnown'
  <2>1. UNCHANGED <<content, texts, data, answer, stored, clashed>> /\ entries' = NoEntries
    BY <1>11 DEF ClearMap, fileVars
  <2>2. Known' = Known /\ Pairs(entries') \subseteq Known
    BY <2>1, NoEntriesType DEF Known
  <2> QED
    BY <1>0, <1>2, <2>1, <2>2
<1>12. ASSUME NEW c \in Caller, NEW k \in Key, Lookup(c, k) PROVE OnlyKnown'
  <2>1. UNCHANGED <<entries, content, texts, stored, clashed>>
    BY <1>12 DEF Lookup, fileVars, pastVars
  <2>2. Known' = Known /\ Pairs(entries) \subseteq Known /\ answer \subseteq Known
    BY <2>1 DEF Known, OnlyKnown
  <2>3. CASE k \in DOMAIN entries
    <3>1. Pairs(Restrict(entries, {k})) \subseteq Known
      BY <2>2, <2>3, OneEntry DEF TypeOK
    <3>2. data' = [data EXCEPT ![c] = Restrict(entries, {k})] /\ UNCHANGED answer
      BY <1>12, <2>3 DEF Lookup
    <3> QED
      BY <1>1, <1>2, <2>1, <2>2, <3>1, <3>2
  <2>4. CASE k \notin DOMAIN entries
    <3>1. data' = data /\ answer' = {}
      BY <1>12, <2>4 DEF Lookup
    <3> QED
      BY <2>1, <2>2, <3>1 DEF OnlyKnown, Pairs
  <2> QED
    BY <2>3, <2>4
<1>13. ASSUME NEW c \in Caller, StatBlob(c) PROVE OnlyKnown'
  <2>1. /\ UNCHANGED <<entries, content, texts, stored, clashed>>
        /\ data' = [data EXCEPT ![c] = NoEntries] /\ answer' \subseteq Pairs(data[c])
    BY <1>13 DEF StatBlob, fileVars, pastVars
  <2>2. /\ Known' = Known
        /\ answer' \subseteq Known
        /\ \A d \in Caller : Pairs(data'[d]) \subseteq Known
    BY <1>0, <1>1, <2>1, NoEntriesType DEF Known
  <2>3. Pairs(entries)' = Pairs(entries) /\ Pairs(content)' = Pairs(content)
        /\ \A d \in Caller : Pairs(data[d])' = Pairs(data'[d])
    BY <2>1 DEF Pairs
  <2> QED
    BY <2>1, <2>2, <2>3 DEF OnlyKnown
<1>14. CASE Restart
  <2>1. UNCHANGED <<content, texts, stored, clashed>> /\ entries' = Loaded /\ answer' = {}
    BY <1>14 DEF Restart, fileVars
  <2>2. Known' = Known /\ Pairs(Loaded) \subseteq Known
    BY <2>1, LoadedType DEF Known
  <2>3. \A d \in Caller : Pairs(data'[d]) = {}
    BY <1>14, NoEntriesType DEF Restart
  <2>4. Pairs(entries)' = Pairs(Loaded) /\ Pairs(content)' = Pairs(content)
        /\ \A d \in Caller : Pairs(data[d])' = Pairs(data'[d])
    BY <2>1 DEF Pairs
  <2> QED
    BY <2>1, <2>2, <2>3, <2>4 DEF OnlyKnown
<1>15. CASE UNCHANGED vars \/ \E l \in Layer : RemoveBlob(l)
  <2>1. UNCHANGED <<entries, content, texts, stored, clashed, data, answer>>
    BY <1>15 DEF vars, fileVars, callVars, pastVars, RemoveBlob
  <2>2. Known' = Known /\ Pairs(entries) \subseteq Known
    BY <2>1 DEF Known, OnlyKnown
  <2> QED
    BY <1>0, <1>2, <2>1, <2>2
<1> QED
  BY <1>3, <1>4, <1>5, <1>8, <1>9, <1>10, <1>11, <1>12, <1>13, <1>14, <1>15 DEF Next, Step

-----------------------------------------------------------------------------
(* Lone updates.                                                           *)

LEMMA AloneNext ==
    ASSUME TypeOK, AloneSoFar, SyncedMeans, [Next]_vars
    PROVE  AloneSoFar' /\ SyncedMeans'
<1>0. pc \in [Caller -> Labels] /\ alone \subseteq Caller
  BY DEF TypeOK, Labels
<1>1. ASSUME NEW c \in Caller, Begins(c), NEW l \in {"marshal", "remove"}, Goto(c, l),
             l = "remove" => entries' = NoEntries
      PROVE  AloneSoFar' /\ SyncedMeans'
  <2>1. Updating' = Updating \cup {c} /\ pc'[c] = l
    BY <1>0, <1>1 DEF Updating, Goto, Begins
  <2>2. alone' # {} => alone' = {c} /\ Updating' = {c}
    BY <1>1, <2>1 DEF Begins
  <2>3. AloneSoFar'
    BY <1>1, <2>1, <2>2 DEF AloneSoFar
  <2> QED
    BY <1>1, <2>3 DEF Begins, SyncedMeans
<1>2. ASSUME NEW c \in Caller, NEW k \in Key, NEW l \in Layer, StoreEntry(c, k, l)
      PROVE  AloneSoFar' /\ SyncedMeans'
  BY <1>1, <1>2 DEF StoreEntry
<1>3. ASSUME NEW c \in Caller, ClearMap(c) PROVE AloneSoFar' /\ SyncedMeans'
  BY <1>1, <1>3 DEF ClearMap
<1>4. ASSUME NEW c \in Caller, c \in Updating, NEW d \in alone PROVE d = c
  BY <1>4 DEF AloneSoFar
<1>5. ASSUME NEW c \in Caller, Marshal(c) PROVE AloneSoFar' /\ SyncedMeans'
  <2>1. /\ c \in Updating /\ pc' = [pc EXCEPT ![c] = "open"]
        /\ data' = [data EXCEPT ![c] = entries]
        /\ UNCHANGED <<entries, synced, alone, inode, content, fd>>
    BY <1>5 DEF Marshal, Goto, fileVars, pastVars, Updating
  <2>2. Updating' = Updating /\ pc'[c] = "open"
    BY <1>0, <1>5, <2>1 DEF Updating, Marshal
  <2>3. data'[c] = entries
    BY <2>1 DEF TypeOK
  <2>4. \A d \in alone : d = c
    BY <1>4, <2>1
  <2>5. ~synced
    BY <2>1 DEF SyncedMeans
  <2>6. AloneSoFar'
    BY <2>1, <2>2, <2>3, <2>4 DEF AloneSoFar
  <2> QED
    BY <2>1, <2>5, <2>6 DEF SyncedMeans
<1>6. ASSUME NEW c \in Caller, OpenFile(c) PROVE AloneSoFar' /\ SyncedMeans'
  <2>1. /\ c \in Updating /\ pc[c] = "open" /\ pc' = [pc EXCEPT ![c] = "write"]
        /\ inode' # 0 /\ texts' = {} /\ opener' = {c} /\ fd' = [fd EXCEPT ![c] = inode']
        /\ UNCHANGED <<entries, synced, alone, data>>
    BY <1>6 DEF OpenFile, Goto, Updating, pastVars, TypeOK
  <2>2. Updating' = Updating /\ pc'[c] = "write" /\ fd'[c] = inode'
    BY <1>0, <2>1 DEF Updating, TypeOK
  <2>3. \A d \in alone : d = c
    BY <1>4, <2>1
  <2>4. ~synced
    BY <2>1 DEF SyncedMeans
  <2>5. AloneSoFar'
    BY <2>1, <2>2, <2>3 DEF AloneSoFar
  <2> QED
    BY <2>1, <2>4, <2>5 DEF SyncedMeans
<1>7. ASSUME NEW c \in Caller, WritePart(c) PROVE AloneSoFar' /\ SyncedMeans'
  <2>1. /\ c \in Updating /\ pc[c] = "write" /\ Written(c, Torn)
        /\ UNCHANGED <<entries, inode, opener, pc, data, fd, alone, synced>>
    BY <1>7 DEF WritePart, callVars, Updating
  <2>2. Updating' = Updating
    BY <2>1 DEF Updating
  <2>3. \A d \in alone : d = c
    BY <1>4, <2>1
  <2>4. ~synced
    BY <2>1 DEF SyncedMeans
  <2>5. texts \subseteq {data[c]} => texts' \subseteq {data[c]}
    BY <2>1 DEF Written
  <2>6. AloneSoFar'
    BY <2>1, <2>2, <2>3, <2>5 DEF AloneSoFar, NoEntries
  <2> QED
    BY <2>1, <2>4, <2>6 DEF SyncedMeans
<1>8. ASSUME NEW c \in Caller, c \in Updating, NEW ok, Returns(c, ok)
      PROVE  /\ alone' = {} /\ AloneSoFar'
             /\ synced' => ok /\ c \in alone /\ Updating' = {}
  <2>1. /\ alone' = alone \ {c} /\ synced' = (ok /\ c \in alone)
        /\ pc' = [pc EXCEPT ![c] = "idle"]
    BY <1>8 DEF Returns, Goto
  <2>2. alone' = {}
    BY <1>4, <1>8, <2>1
  <2>3. c \in alone => Updating' = {}
    BY <1>0, <2>1 DEF AloneSoFar, Updating
  <2> QED
    BY <2>1, <2>2, <2>3 DEF AloneSoFar
<1>9. ASSUME NEW c \in Caller, WriteFile(c) PROVE AloneSoFar' /\ SyncedMeans'
  <2>1. /\ c \in Updating /\ pc[c] = "write" /\ Written(c, data[c]) /\ UNCHANGED <<entries, inode>>
    BY <1>9 DEF WriteFile, Updating
  <2>2. c \in alone => Loaded' = entries'
    <3>1. ASSUME c \in alone PROVE inode # 0 /\ content' = entries
      BY <2>1, <3>1 DEF AloneSoFar, Written
    <3>2. entries # Torn
      BY EntryMapHas DEF TypeOK
    <3> QED
      BY <2>1, <3>1, <3>2 DEF Loaded
  <2>3. PICK ok \in BOOLEAN : Returns(c, ok)
    BY <1>9 DEF WriteFile
  <2> QED
    BY <1>8, <2>1, <2>2, <2>3 DEF SyncedMeans
<1>10. ASSUME NEW c \in Caller, SaveFails(c) PROVE AloneSoFar' /\ SyncedMeans'
  <2>1. c \in Updating /\ Returns(c, FALSE)
    BY <1>10 DEF SaveFails, Updating
  <2> QED
    BY <1>8, <2>1 DEF SyncedMeans
<1>11. ASSUME NEW c \in Caller, RemoveFile(c) PROVE AloneSoFar' /\ SyncedMeans'
  <2>1. c \in Updating /\ pc[c] = "remove" /\ entries' = entries
    BY <1>11 DEF RemoveFile, Updating
  <2>2. CASE inode' = 0 /\ Returns(c, TRUE)
    <3>1. c \in alone => Loaded' = entries'
      BY <2>1, <2>2 DEF Loaded, AloneSoFar, NoEntries
    <3> QED
      BY <1>8, <2>1, <2>2, <3>1 DEF SyncedMeans
  <2>3. CASE Returns(c, FALSE)
    BY <1>8, <2>1, <2>3 DEF SyncedMeans
  <2> QED
    BY <1>11, <2>2, <2>3 DEF RemoveFile
<1>12. ASSUME NEW c \in Caller, pc[c] \in {"idle", "stat"}, pc'[c] \in {"idle", "stat"},
              \A d \in Caller : d # c => pc'[d] = pc[d] /\ data'[d] = data[d],
              UNCHANGED <<entries, inode, content, texts, opener, fd, alone, synced>>
       PROVE  AloneSoFar' /\ SyncedMeans'
  <2>1. Updating' = Updating /\ c \notin Updating
    BY <1>12 DEF Updating
  <2>2. c \notin alone
    BY <2>1 DEF AloneSoFar
  <2>3. AloneSoFar'
    BY <1>0, <1>12, <2>1, <2>2 DEF AloneSoFar, NoEntries
  <2> QED
    BY <1>12, <2>1, <2>3 DEF SyncedMeans, Loaded, NoEntries
<1>13. ASSUME NEW c \in Caller, NEW k \in Key, Lookup(c, k)
       PROVE  AloneSoFar' /\ SyncedMeans'
  <2>1. pc[c] = "idle" /\ UNCHANGED <<entries, inode, content, texts, opener, fd, alone, synced>>
    BY <1>13 DEF Lookup, fileVars, pastVars
  <2>2. pc'[c] \in {"idle", "stat"} /\ \A d \in Caller : d # c => pc'[d] = pc[d]
    BY <1>0, <1>13 DEF Lookup, Goto
  <2>3. \A d \in Caller : d # c => data'[d] = data[d]
    BY <1>13 DEF Lookup, TypeOK
  <2> QED
    BY <1>12, <2>1, <2>2, <2>3
<1>14. ASSUME NEW c \in Caller, StatBlob(c) PROVE AloneSoFar' /\ SyncedMeans'
  <2>1. pc[c] = "stat" /\ UNCHANGED <<entries, inode, content, texts, opener, fd, alone, synced>>
    BY <1>14 DEF StatBlob, fileVars, pastVars
  <2>2. pc'[c] = "idle" /\ \A d \in Caller : d # c => pc'[d] = pc[d]
    BY <1>0, <1>14 DEF StatBlob, Goto
  <2>3. \A d \in Caller : d # c => data'[d] = data[d]
    BY <1>14 DEF StatBlob, TypeOK
  <2> QED
    BY <1>12, <2>1, <2>2, <2>3
<1>15. CASE UNCHANGED vars \/ \E l \in Layer : RemoveBlob(l)
  <2>1. UNCHANGED <<entries, inode, content, texts, opener, fd, alone, synced, pc, data>>
    BY <1>15 DEF vars, RemoveBlob, fileVars, callVars, pastVars
  <2> QED
    BY <2>1 DEF AloneSoFar, SyncedMeans, Updating, Loaded, NoEntries
<1>16. CASE Restart
  <2>1. /\ alone' = {} /\ entries' = Loaded /\ UNCHANGED <<inode, content>>
        /\ pc' = [c \in Caller |-> "idle"]
    BY <1>16 DEF Restart, fileVars
  <2>2. Updating' = {} /\ Loaded' = Loaded
    BY <2>1 DEF Updating, Loaded, NoEntries
  <2> QED
    BY <2>1, <2>2 DEF AloneSoFar, SyncedMeans
<1> QED
  BY <1>2, <1>3, <1>5, <1>6, <1>7, <1>9, <1>10, <1>11, <1>13, <1>14, <1>15, <1>16 DEF Next, Step

-----------------------------------------------------------------------------
(* The theorems.                                                           *)

LEMMA InvHolds == Spec => []Inv
<1>1. Init => Inv
  BY InitInv
<1>2. Inv /\ [Next]_vars => Inv'
  BY TypeNext, OnlyKnownNext, AloneNext DEF Inv
<1> QED
  BY <1>1, <1>2, PTL DEF Spec

\* The cache's variables have their types, however the callers interleave.
THEOREM CacheTypes == Spec => []TypeOK
<1>1. Inv => TypeOK
  BY DEF Inv
<1> QED
  BY <1>1, InvHolds, PTL

\* Overlapping, torn and failing writes, failing removals and restarts: what
\* is in the map, a readable file, a caller's hands or an answer was stored
\* under its key, or was cut out of two texts written over each other.
THEOREM NothingIsMadeUp == Spec => []EntriesWereStored
<1>1. Inv => EntriesWereStored
  <2> SUFFICES ASSUME Inv PROVE EntriesWereStored
    OBVIOUS
  <2>1. Pairs(Loaded) \subseteq Known
    BY LoadedType DEF Inv
  <2> QED
    BY <2>1 DEF Inv, OnlyKnown, EntriesWereStored
<1> QED
  BY <1>1, InvHolds, PTL

\* A Store or Clear that no other overlaps and whose file operation works
\* leaves the file that the next process reads back as the map.
THEOREM LoneUpdatesPersist == Spec => []LoneUpdatePersists
<1>1. Inv => LoneUpdatePersists
  BY DEF Inv, SyncedMeans, LoneUpdatePersists
<1> QED
  BY <1>1, InvHolds, PTL
=============================================================================
