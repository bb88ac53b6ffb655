------------------------------ MODULE MCIOCQueue ------------------------------
(***************************************************************************)
(* Small instances of the I/O concentrator: a subfile of two or three      *)
(* bytes, requests that overlap in part, and operations of every kind.     *)
(***************************************************************************)
EXTENDS IOCQueue, TLC

Op(tag, offset, len) == [tag |-> tag, offset |-> offset, len |-> len]

\* Writes and reads that overlap in part, and the two barriers.
Overlapping == {Op("WRITE_INDEP", 0, 2), Op("WRITE_INDEP", 1, 1),
                Op("READ_INDEP", 0, 1),
                Op("TRUNC_OP", 0, 1), Op("GET_EOF_OP", 0, 0)}

\* One request of each kind.
OneOfEach == {Op("WRITE_INDEP", 0, 1), Op("READ_INDEP", 0, 1),
              Op("TRUNC_OP", 0, 0), Op("GET_EOF_OP", 0, 0)}

Symmetry == Permutations(Workers) \cup Permutations(Clients)
=============================================================================
