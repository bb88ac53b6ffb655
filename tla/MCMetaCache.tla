---------------------------- MODULE MCMetaCache ----------------------------
(* Small instances of MetaCache for TLC. *)
EXTENDS MetaCache

\* A chain through a proxy and a direct dependency: 1 over 2 over 3, 1 over 3.
MCMayDepend == {<<1, 2>>, <<2, 3>>, <<1, 3>>}
=============================================================================
