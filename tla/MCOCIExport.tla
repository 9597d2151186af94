---------------------------- MODULE MCOCIExport -----------------------------
(***************************************************************************)
(* Three builds that export to one path; two layer digests, so that later  *)
(* builds meet the blobs of earlier ones.                                  *)
(***************************************************************************)
EXTENDS OCIExport

CONSTANTS d1, d2

MCDigest == {d1, d2}
L(d)     == [digest |-> d, empty |-> FALSE]
MCImages == {<<L(d1)>>, <<L(d1), L(d2)>>, <<L(d2), L(d2)>>,
             <<[digest |-> d2, empty |-> TRUE], L(d1)>>}
=============================================================================
