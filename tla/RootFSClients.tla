--------------------------- MODULE RootFSClients ----------------------------
(***************************************************************************)
(* The rootfs Manager used by several scopes, each of which prepares a     *)
(* mount, writes below it, commits and cleans it up (types.RootFSManager,  *)
(* pkg/rootfs/manager.go).  A scope may stack its mount on the upper       *)
(* directories of mounts that are still active.                            *)
(*                                                                         *)
(* nested: one goroutine opens and closes the scopes like brackets, the    *)
(* use the Executor makes of the Manager.  Otherwise the scopes are        *)
(* goroutines that take mu in turn, which is what mu is there for.         *)
(***************************************************************************)
EXTENDS RootFS

CONSTANTS
    Client,        \* the scopes
    Base,          \* directories the callers bring as lowers
    BaseTree,      \* what they hold
    Effects,       \* what a scope may write
    MaxPrepares    \* bound on the calls of Prepare

ASSUME ClientConstants ==
    /\ Base \subseteq Dir /\ \A b \in Base : b.part = "base"
    /\ BaseTree \in Tree
    /\ Effects \subseteq Effect
    /\ MaxPrepares \in Nat

VARIABLES
    nested,        \* how the scopes are used, fixed at the start
    pc,            \* idle; held: a mount; forgotten: between unlock and RemoveAll
    held,          \* the number of the mount a scope was given
    wrote,         \* what it has written there
    prepares,      \* calls of Prepare so far
    failed,        \* numbers whose directories a failed Prepare left behind
    closed,        \* Close has been called
    closing,       \* mounts Close has still to clean up
    removing       \* numbers Close has forgotten and has to remove: at most one

closeVars  == <<closed, closing, removing>>
clientVars == <<nested, pc, held, wrote, prepares, failed, closeVars>>
vars == <<rootfsVars, clientVars>>

TypeOK ==
    /\ RootFSTypeOK
    /\ pc \in [Client -> {"idle", "held", "forgotten"}]
    /\ held \in [Client -> Nat]
    /\ wrote \in [Client -> Effect]
    /\ prepares \in 0..MaxPrepares
    /\ failed \subseteq Nat
    /\ nested \in BOOLEAN /\ closed \in BOOLEAN
    /\ closing \subseteq Dir /\ removing \subseteq Nat

Init ==
    /\ mounts = [m \in {} |-> <<>>]
    /\ disk = [b \in Base |-> BaseTree]
    /\ pc = [c \in Client |-> "idle"]
    /\ held = [c \in Client |-> 0]
    /\ wrote = [c \in Client |-> NoEffect]
    /\ prepares = 0
    /\ failed = {}
    /\ nested \in BOOLEAN
    /\ closed = FALSE
    /\ closing = {}
    /\ removing = {}

-----------------------------------------------------------------------------
Holders == {c \in Client : pc[c] = "held"}

\* one goroutine finishes a Cleanup before it does anything else, and does
\* nothing more after Close; other goroutines are not held up by either
MayRun == nested => ~closed /\ \A c \in Client : pc[c] # "forgotten"
Innermost(c) == \A d \in Holders : held[d] <= held[c]

\* what callers stack: nothing, a directory of theirs, or the upper directory
\* of a scope that is still open on top of one
LowerChoices ==
    {<<>>} \cup {<<b>> : b \in Base}
           \cup {<<b, Upper(held[c])>> : b \in Base, c \in Holders}

Prepare(c) ==
    /\ MayRun
    /\ pc[c] = "idle"
    /\ prepares < MaxPrepares
    /\ \E lowers \in LowerChoices : PrepareOverlay(lowers) \/ PrepareFallback(lowers)
    /\ pc' = [pc EXCEPT ![c] = "held"]
    /\ held' = [held EXCEPT ![c] = NextId]
    /\ wrote' = [wrote EXCEPT ![c] = NoEffect]
    /\ prepares' = prepares + 1
    /\ failed' = failed \ {NextId}
    /\ UNCHANGED <<nested, closeVars>>

PrepareFails(c) ==
    /\ MayRun
    /\ pc[c] = "idle"
    /\ prepares < MaxPrepares
    /\ \E lowers \in LowerChoices : PrepareError(lowers)
    /\ prepares' = prepares + 1
    /\ failed' = failed \cup {NextId}
    /\ UNCHANGED <<pc, held, wrote, nested, closeVars>>

\* as long as the mount and the directory below it are there
Write(c) ==
    LET m == Merged(held[c])
    IN  /\ MayRun
        /\ pc[c] = "held"
        /\ nested => Innermost(c)
        /\ m \in DOMAIN mounts
        /\ {m, Upper(held[c])} \subseteq DOMAIN disk
        /\ \E e \in Effects :
              /\ WriteMerged(m, e)
              /\ wrote' = [wrote EXCEPT ![c] =
                              [n \in Name |-> IF e[n] = Keep THEN @[n] ELSE e[n]]]
        /\ UNCHANGED <<mounts, pc, held, prepares, failed, nested, closeVars>>

\* Cleanup up to the unlock
Forget(c) ==
    /\ MayRun
    /\ pc[c] = "held"
    /\ nested => Innermost(c)
    /\ Merged(held[c]) \in DOMAIN mounts
    /\ ForgetMount(Merged(held[c]))
    /\ pc' = [pc EXCEPT ![c] = "forgotten"]
    /\ UNCHANGED <<disk, held, wrote, prepares, failed, nested, closeVars>>

\* a mount that is not in the table any more: Cleanup returns nil
ForgetNothing(c) ==
    /\ MayRun
    /\ pc[c] = "held"
    /\ Merged(held[c]) \notin DOMAIN mounts
    /\ pc' = [pc EXCEPT ![c] = "idle"]
    /\ UNCHANGED <<rootfsVars, held, wrote, prepares, failed, nested, closeVars>>

\* the rest of Cleanup, outside mu
RemoveDirs(c) ==
    /\ pc[c] = "forgotten"
    /\ \E mergedStays \in BOOLEAN : RemoveLayerDir(held[c], mergedStays)
    /\ pc' = [pc EXCEPT ![c] = "idle"]
    /\ UNCHANGED <<mounts, held, wrote, prepares, failed, nested, closeVars>>

\* Close: Cleanup of every mount in the table, in the order of a Go map
CloseStarts ==
    /\ MayRun
    /\ ~closed
    /\ closed' = TRUE
    /\ closing' = DOMAIN mounts
    /\ UNCHANGED <<rootfsVars, removing, nested, pc, held, wrote, prepares, failed>>

\* mutant: the directories go, the table keeps the mount
CloseForget_KeepsEntry ==
    /\ removing = {}
    /\ \E m \in closing :
          /\ closing' = closing \ {m}
          /\ removing' = IF m \in DOMAIN mounts THEN {m.id} ELSE {}
    /\ UNCHANGED <<rootfsVars, nested, pc, held, wrote, prepares, failed, closed>>

\* each Cleanup in two halves, and none for a mount that is gone by then
CloseForget ==
    /\ removing = {}
    /\ \E m \in closing :
          /\ closing' = closing \ {m}
          /\ removing' = IF m \in DOMAIN mounts THEN {m.id} ELSE {}
          /\ ForgetMount(m)
    /\ UNCHANGED <<disk, nested, pc, held, wrote, prepares, failed, closed>>

CloseRemove ==
    /\ \E i \in removing, mergedStays \in BOOLEAN : RemoveLayerDir(i, mergedStays)
    /\ removing' = {}
    /\ UNCHANGED <<mounts, nested, pc, held, wrote, prepares, failed, closed, closing>>

CloseOne == CloseForget \/ CloseRemove

Step(c) == \/ Prepare(c) \/ PrepareFails(c) \/ Write(c)
           \/ Forget(c) \/ ForgetNothing(c) \/ RemoveDirs(c)

Next == (\E c \in Client : Step(c)) \/ CloseStarts \/ CloseOne

\* a Close that was started goes through its mounts
Spec == Init /\ [][Next]_vars /\ WF_vars(CloseOne)

-----------------------------------------------------------------------------
(* Properties.                                                             *)

\* manager.go: "Create unique directories for this mount": no two scopes
\* work in the same directories.
UniqueDirs ==
    \A c, d \in Holders : c # d => held[c] # held[d]

\* Numbering by the count of active mounts gives unique directories as long
\* as the scopes are closed in the reverse of the order they were opened.
NestedDirsUnique == nested => UniqueDirs

\* A scope that holds a mount can commit it: the table still has it and its
\* directories are there, whatever the others cleaned up.
HeldIsMounted ==
    nested /\ ~closed => \A c \in Holders :
        /\ Committable(Merged(held[c]))
        /\ {Upper(held[c]), Merged(held[c])} \subseteq DOMAIN disk

\* The upper directory of a scope is the diff of that scope: it holds
\* nothing from a scope that used the number before, though merged
\* directories may survive; under overlayfs it misses nothing either.
UpperIsOwnDiff ==
    nested /\ ~closed => \A c \in Holders, n \in Name :
        LET tree == disk[Upper(held[c])]
        IN  /\ tree[n] \in Val => wrote[c][n] = tree[n]
            /\ mounts[Merged(held[c])].overlay /\ wrote[c][n] \in Val => tree[n] = wrote[c][n]

\* The two backends of Prepare are to give a scope the same view.  An overlay
\* mount shows it what it wrote and hides what it deleted, whatever used the
\* directories before.  Of the rest it shows what prepareFallback would have
\* copied if and only if the first and the last lower directory that have
\* the file agree on it: overlay.go joins LowerDirs with "the leftmost being
\* the topmost", fallback.go copies the same list with "first = base".
EndsAgree(dirs, n) ==
    \A i, j \in Hits(disk, dirs, n) :
        (\A k \in Hits(disk, dirs, n) : i <= k /\ k <= j) => disk[dirs[i]][n] = disk[dirs[j]][n]

OverlayAgainstCopies ==
    nested /\ ~closed => \A c \in Holders, n \in Name :
        LET m      == Merged(held[c])
            below  == mounts[m].lowers
            copied == CopyLowers([disk EXCEPT ![m] = EmptyTree], m, below)[m][n]
        IN  mounts[m].overlay =>
              /\ wrote[c][n] # Keep => View(m)[n] = wrote[c][n]
              /\ wrote[c][n] = Keep /\ (\A k \in DOMAIN below : Copyable(disk, below[k])) =>
                    (View(m)[n] = copied <=> EndsAgree(below, n))

\* No upper directory is forgotten on disk, also when goroutines collide:
\* its mount is in the table, or its Cleanup is under way, called by a scope
\* or by Close, or the Prepare that made it failed.
NoUpperLeaks ==
    \A d \in DOMAIN disk : d.part = "upper" =>
        \/ Merged(d.id) \in DOMAIN mounts
        \/ \E c \in Client : pc[c] = "forgotten" /\ held[c] = d.id
        \/ d.id \in failed \cup removing

\* Close clears the table, when nobody prepares a mount behind its back.
CloseClears == nested /\ closed ~> (mounts = [m \in {} |-> <<>>])
=============================================================================
