----------------------------- MODULE BuildCache -----------------------------
(***************************************************************************)
(* The persistent build cache (pkg/metadata/cache.go): a map under mu and  *)
(* the JSON file it is saved to.  Store and Clear release mu before they   *)
(* touch the file, and marshal it in a critical section of its own, so the *)
(* file operations of concurrent callers interleave freely.                *)
(*                                                                         *)
(* The file is an inode and its content; a writer keeps the inode it       *)
(* opened, which Clear may have unlinked meanwhile.  What cannot be        *)
(* unmarshalled is Torn.  Every writer writes from where it is in its own  *)
(* text, so the bytes of several can be in the file; what is read then is  *)
(* Torn or made of entries of each, one of which may begin as one text and *)
(* end as another: its layer is Mixed.                                     *)
(***************************************************************************)
EXTENDS Naturals, FiniteSets, Functions

CONSTANTS
    Caller,      \* goroutines
    Key,         \* parentChainID:instructionHash
    Layer,       \* layers, each with its own diff ID, digest and blob path
    Pathless,    \* those whose blob path is empty
    Mixed,       \* what an entry of several texts says of its layer
    Torn,
    MaxUpdates   \* bound on the calls of Store and Clear

EntryMaps == UNION {[keys -> Layer \cup {Mixed}] : keys \in SUBSET Key}

ASSUME CacheConstants ==
    /\ MaxUpdates \in Nat
    /\ Pathless \subseteq Layer
    /\ Mixed \notin Layer
    /\ Torn \notin EntryMaps

NoEntries == [k \in {} |-> Torn]

VARIABLES
    entries,     \* Cache.entries
    inode,       \* number of the cache file's inode, 0 when there is no file
    content,     \* what unmarshalling its content gives: a map, or Torn
    texts,       \* the maps whose text has bytes in it, since it was truncated
    opener,      \* the caller that truncated it last: at most one
    inodes,      \* inodes used so far
    blobs,       \* layers whose blob is on disk
    pc,          \* where each caller is
    data,        \* what a caller has marshalled, or looked up
    fd,          \* the inode a caller has open
    answer,      \* what the last Lookup to return found: at most one pair
    updates,     \* calls of Store and Clear so far
    stored,      \* pairs some Store was called with
    alone,       \* callers whose update no other update has overlapped
    synced,      \* the last update was alone and its file operation worked
    clashed      \* a text has been written over another one's bytes

fileVars == <<inode, content, texts, opener, inodes>>
callVars == <<pc, data, fd, answer>>
pastVars == <<updates, stored, alone, synced, clashed>>
vars == <<entries, fileVars, blobs, callVars, pastVars>>

Updating == {c \in Caller : pc[c] \in {"marshal", "open", "write", "remove"}}

\* loadFromFile: no file, and a file it cannot parse, are an empty cache
Loaded == IF inode = 0 \/ content = Torn THEN NoEntries ELSE content

TypeOK ==
    /\ entries \in EntryMaps
    /\ inodes \in Nat /\ inode \in 0..inodes
    /\ content \in EntryMaps \cup {Torn}
    /\ texts \subseteq EntryMaps
    /\ opener \subseteq Caller
    /\ blobs \subseteq Layer \ Pathless
    /\ pc \in [Caller -> {"idle", "marshal", "open", "write", "remove", "stat"}]
    /\ data \in [Caller -> EntryMaps]
    /\ fd \in [Caller -> 0..inodes]
    /\ answer \subseteq Key \X (Layer \cup {Mixed})
    /\ updates \in 0..MaxUpdates
    /\ stored \subseteq Key \X Layer
    /\ alone \subseteq Caller
    /\ synced \in BOOLEAN /\ clashed \in BOOLEAN

Init ==
    /\ entries = NoEntries
    /\ inode = 0
    /\ content = Torn
    /\ texts = {}
    /\ opener = {}
    /\ inodes = 0
    /\ blobs = Layer \ Pathless
    /\ pc = [c \in Caller |-> "idle"]
    /\ data = [c \in Caller |-> NoEntries]
    /\ fd = [c \in Caller |-> 0]
    /\ answer = {}
    /\ updates = 0
    /\ stored = {}
    /\ alone = {}
    /\ synced = TRUE
    /\ clashed = FALSE

-----------------------------------------------------------------------------
Pairs(map) == {<<k, map[k]>> : k \in DOMAIN map}
Put(f, k, l) == [x \in DOMAIN f \cup {k} |-> IF x = k THEN l ELSE f[x]]

Goto(c, label) == pc' = [pc EXCEPT ![c] = label]

\* an update begins: it is alone if no other is under way
Begins(c) ==
    /\ pc[c] = "idle"
    /\ updates < MaxUpdates
    /\ updates' = updates + 1
    /\ alone' = IF Updating = {} THEN {c} ELSE {}
    /\ synced' = FALSE

\* an update returns
Returns(c, ok) ==
    /\ Goto(c, "idle")
    /\ synced' = (ok /\ c \in alone)
    /\ alone' = alone \ {c}
    /\ data' = [data EXCEPT ![c] = NoEntries]
    /\ fd' = [fd EXCEPT ![c] = 0]

\* mutant: a part of the key is dropped, and different keys meet
StoreEntry_SharedKey(c, k, l) ==
    /\ Begins(c)
    /\ entries' = Put(entries, CHOOSE x \in Key : TRUE, l)
    /\ stored' = stored \cup {<<k, l>>}
    /\ Goto(c, "marshal")
    /\ UNCHANGED <<fileVars, blobs, data, fd, answer, clashed>>

\* Store, first critical section
StoreEntry(c, k, l) ==
    /\ Begins(c)
    /\ entries' = Put(entries, k, l)
    /\ stored' = stored \cup {<<k, l>>}
    /\ Goto(c, "marshal")
    /\ UNCHANGED <<fileVars, blobs, data, fd, answer, clashed>>

\* saveToFile, the second critical section: all the entries of that moment
Marshal(c) ==
    /\ pc[c] = "marshal"
    /\ data' = [data EXCEPT ![c] = entries]
    /\ Goto(c, "open")
    /\ UNCHANGED <<entries, fileVars, blobs, fd, answer, pastVars>>

\* mutant: what the file holds is not cut off
OpenFile_NoTruncate(c) ==
    /\ pc[c] = "open"
    /\ inodes' = IF inode = 0 THEN inodes + 1 ELSE inodes
    /\ inode' = IF inode = 0 THEN inodes' ELSE inode
    /\ opener' = {c}
    /\ fd' = [fd EXCEPT ![c] = inode']
    /\ Goto(c, "write")
    /\ UNCHANGED <<entries, content, texts, blobs, data, answer, pastVars>>

\* os.WriteFile opens with O_CREATE and O_TRUNC ...
OpenFile(c) ==
    /\ pc[c] = "open"
    /\ inodes' = IF inode = 0 THEN inodes + 1 ELSE inodes
    /\ inode' = IF inode = 0 THEN inodes' ELSE inode
    /\ content' = Torn
    /\ texts' = {}
    /\ opener' = {c}
    /\ fd' = [fd EXCEPT ![c] = inode']
    /\ Goto(c, "write")
    /\ UNCHANGED <<entries, blobs, data, answer, pastVars>>

\* what several texts, written over each other, can be read as: which of
\* their entries show depends on their lengths and on where each one broke
\* off, and where one goes over into another an entry may be of both
Readings(ts) ==
    {Torn} \cup ts \cup
    {g \in EntryMaps : /\ Cardinality(ts) > 1
                       /\ \A k \in DOMAIN g :
                            \E f \in ts : k \in DOMAIN f /\ g[k] \in {f[k], Mixed}}

\* bytes of c's text get into its file, with this outcome if it has the
\* file to itself; an unlinked inode is written in vain
Written(c, outcome) ==
    IF fd[c] # inode THEN UNCHANGED <<content, texts, clashed>>
    ELSE LET own == texts \subseteq {data[c]} /\ opener = {c}
         IN  /\ texts' = texts \cup {data[c]}
             /\ content' \in IF own THEN {outcome} ELSE Readings(texts')
             /\ clashed' = (clashed \/ ~own)

\* ... and writes from the start.  Part of the text is in the file when
\* the write goes on, is cut short by an error, or the process dies ...
WritePart(c) ==
    /\ pc[c] = "write"
    /\ Written(c, Torn)
    /\ UNCHANGED <<entries, inode, opener, inodes, blobs, callVars, updates, stored, alone, synced>>

\* ... and then all of it; the error of the close is os.WriteFile's too
WriteFile(c) ==
    /\ pc[c] = "write"
    /\ Written(c, data[c])
    /\ \E ok \in BOOLEAN : Returns(c, ok)
    /\ UNCHANGED <<entries, inode, opener, inodes, blobs, answer, updates, stored>>

\* an error of open or write: Store returns it, the entry stays in memory
SaveFails(c) ==
    /\ pc[c] \in {"open", "write"}
    /\ Returns(c, FALSE)
    /\ UNCHANGED <<entries, fileVars, blobs, answer, updates, stored, clashed>>

\* mutant: the keys survive with an empty value
ClearMap_KeepsKeys(c) ==
    /\ Begins(c)
    /\ entries' = [k \in DOMAIN entries |-> Torn]
    /\ Goto(c, "remove")
    /\ UNCHANGED <<fileVars, blobs, data, fd, answer, stored, clashed>>

ClearMap(c) ==
    /\ Begins(c)
    /\ entries' = NoEntries
    /\ Goto(c, "remove")
    /\ UNCHANGED <<fileVars, blobs, data, fd, answer, stored, clashed>>

\* os.Remove after the unlock; that it failed is seen by nobody
RemoveFile(c) ==
    /\ pc[c] = "remove"
    /\ \/ /\ inode' = 0
          /\ content' = Torn
          /\ texts' = {}
          /\ opener' = {}
          /\ Returns(c, TRUE)
       \/ /\ UNCHANGED <<inode, content, texts, opener>>
          /\ Returns(c, FALSE)
    /\ UNCHANGED <<entries, inodes, blobs, answer, updates, stored, clashed>>

\* Lookup: the entry under mu, the blob of it after the unlock
Lookup(c, k) ==
    /\ pc[c] = "idle"
    /\ IF k \in DOMAIN entries
       THEN /\ data' = [data EXCEPT ![c] = Restrict(entries, {k})]
            /\ Goto(c, "stat")
            /\ UNCHANGED answer
       ELSE /\ answer' = {}
            /\ UNCHANGED <<data, pc>>
    /\ UNCHANGED <<entries, fileVars, blobs, fd, pastVars>>

\* an entry without a path is not checked; the path of a mixed one may
\* name a blob or nothing
StatBlob(c) ==
    /\ pc[c] = "stat"
    /\ \E there \in {blobs, blobs \cup {Mixed}} :
          answer' = {p \in Pairs(data[c]) : p[2] \in Pathless \cup there}
    /\ data' = [data EXCEPT ![c] = NoEntries]
    /\ Goto(c, "idle")
    /\ UNCHANGED <<entries, fileVars, blobs, fd, pastVars>>

\* the build that wrote a blob removes its work directory
RemoveBlob(l) ==
    /\ l \in blobs
    /\ blobs' = blobs \ {l}
    /\ UNCHANGED <<entries, fileVars, callVars, pastVars>>

\* the process dies and another one calls NewCache on the same path
Restart ==
    /\ entries' = Loaded
    /\ pc' = [c \in Caller |-> "idle"]
    /\ data' = [c \in Caller |-> NoEntries]
    /\ fd' = [c \in Caller |-> 0]
    /\ alone' = {}
    /\ synced' = TRUE
    /\ answer' = {}
    /\ UNCHANGED <<fileVars, blobs, updates, stored, clashed>>

Step(c) == \/ \E k \in Key, l \in Layer : StoreEntry(c, k, l)
           \/ Marshal(c) \/ OpenFile(c)
           \/ WritePart(c) \/ WriteFile(c) \/ SaveFails(c)
           \/ ClearMap(c) \/ RemoveFile(c)
           \/ \E k \in Key : Lookup(c, k)
           \/ StatBlob(c)

Next == \/ \E c \in Caller : Step(c)
        \/ \E l \in Layer : RemoveBlob(l)
        \/ Restart

Spec == Init /\ [][Next]_vars

-----------------------------------------------------------------------------
(* Properties.                                                             *)

\* the pairs of a key and a layer there are
Known == stored \cup IF clashed THEN Key \X {Mixed} ELSE {}

\* What is in the map, in a file that can be read, in a caller's hands or
\* answered by a Lookup was stored under that very key: torn and failed
\* writes, failed removals and restarts lose entries or bring old ones back,
\* they invent none.  The exception are entries cut out of two texts, and
\* there are none before a text is written over the bytes of another.
EntriesWereStored ==
    /\ Pairs(entries) \cup Pairs(Loaded) \cup answer \subseteq Known
    /\ \A c \in Caller : Pairs(data[c]) \subseteq Known

\* An update that no other overlaps and whose file operation works (the one
\* of Clear does not say so) leaves a file from which the next process reads
\* back exactly the map, whatever overlapping, torn or failing updates left
\* in the file before.
LoneUpdatePersists ==
    synced /\ Updating = {} => Loaded = entries
=============================================================================
