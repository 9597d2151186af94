---------------------------- MODULE MCBuildCache ----------------------------
(***************************************************************************)
(* Two goroutines, two keys, two layers, a few updates and any number of   *)
(* lookups and restarts.                                                   *)
(***************************************************************************)
EXTENDS BuildCache
CONSTANTS k1, k2, l1, l2
MCKey   == {k1, k2}
MCLayer == {l1, l2}
MCPathless == {l2}
=============================================================================
