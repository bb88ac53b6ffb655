------------------------- MODULE MCExternalFileCache -------------------------
(***************************************************************************)
(* Three files for ExternalFileCache, one of them with room for one entry. *)
(***************************************************************************)
EXTENDS ExternalFileCache, TLC

CONSTANTS f1, f2, f3

MCFiles == {f1, f2, f3}

MCmax_nfiles == f1 :> 2 @@ f2 :> 2 @@ f3 :> 1

\* f1 and f2 differ in name only.
Symmetric == Permutations({f1, f2})
=============================================================================
