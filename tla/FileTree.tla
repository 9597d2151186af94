------------------------------ MODULE FileTree ------------------------------
(***************************************************************************)
(* Directory trees and their traversal by filepath.Walk, for the packages  *)
(* that walk: the diffs of the snapshotter and the build context.          *)
(*                                                                         *)
(* A path is the sequence of its components.  Of a file's contents a tree   *)
(* keeps the size: what os.FileInfo says of them, and what the header in a *)
(* tar and a diff have of them (besides the time).                         *)
(***************************************************************************)
EXTENDS Naturals, SequencesExt

CONSTANTS
    WalkOrder,    \* every path, in the lexical order filepath.Walk keeps
    MaxSize       \* bound: no file is larger

Path == Range(WalkOrder)

\* newdir: a directory overlayfs marked opaque, it hides what lower layers
\* have in it;  dev: the character device by which overlayfs marks a deletion
Kind == {"dir", "newdir", "file", "link", "dev"}
Node == {n \in [kind : Kind, size : 0..MaxSize] : n.kind # "file" => n.size = 0}
IsDir(n) == n.kind \in {"dir", "newdir"}

\* whether a walk meets d before p because p is below d
Below(p, d) == IsStrictPrefix(d, p)

\* every entry's parent is a directory of the tree
IsTree(t) ==
    /\ DOMAIN t \subseteq Path
    /\ t \in [DOMAIN t -> Node]
    /\ \A p \in DOMAIN t, d \in Path : Below(p, d) => d \in DOMAIN t /\ IsDir(t[d])

ASSUME SizesAreNumbers == MaxSize \in Nat
ASSUME WalkVisitsParentsFirst ==
    /\ WalkOrder \in Seq(Path) /\ <<>> \notin Path
    /\ \A p \in Path : p \in Seq(Range(p)) /\ Front(p) \in Path \cup {<<>>}
    /\ IsInjective(WalkOrder)
    /\ \A i, j \in DOMAIN WalkOrder : Below(WalkOrder[j], WalkOrder[i]) => i < j

EmptyTree == [p \in {} |-> 0]

\* filepath.Walk: it calls back for the paths of a tree in this order
InWalkOrder(paths) ==
    FoldLeft(LAMBDA found, p : IF p \in paths THEN Append(found, p) ELSE found, <<>>, WalkOrder)
=============================================================================
