---------------------------- MODULE MCCacheFlush ----------------------------
(* Finite instances of CacheFlush: 1 and 2 are parent and child in one      *)
(* object, 3 is the proxy of the child, 4 belongs to nothing, 5 is the      *)
(* superblock in the inner ring.                                            *)
EXTENDS CacheFlush

MCRing == [e \in Entry |-> IF e = 5 THEN 2 ELSE 1]
MCDepend == {<<1, 2>>, <<3, 2>>}
=============================================================================
