---------------------------- MODULE MCIdentifiers ----------------------------
(***************************************************************************)
(* Small instances of the identifiers: the two types are interchangeable.  *)
(***************************************************************************)
EXTENDS Identifiers, TLC

Symmetry == Permutations(Types)
=============================================================================
