--------------------------- MODULE MetaCache_proof ---------------------------
(***************************************************************************)
(* Proofs about MetaCache, for any finite set of entries and any flush     *)
(* dependencies between them.                                              *)
(*                                                                         *)
(* IInv is inductive.  Its parts lean on each other: the counters agree    *)
(* only because both ends of a dependency stay cached, which holds because *)
(* a parent is pinned while it has children, which the counters decide.    *)
(***************************************************************************)
EXTENDS MetaCache, FiniteSetTheorems, TLAPS

NC == \A p \in Entry : nchildren[p] = Cardinality(Children(p))
ND == \A p \in Entry :
        ndirty_children[p] = Cardinality(Children(p) \cap is_dirty)
NU == \A p \in Entry :
        nunser_children[p] = Cardinality(Children(p) \ image_up_to_date)

IInv == /\ TypeOK
        /\ ListsAgree
        /\ PinsAgree
        /\ CountsAgree
        /\ DependentsCached
        /\ NoLostUpdate

\* The three counters are treated one by one.
LEMMA SplitCounts == CountsAgree <=> NC /\ ND /\ NU
BY DEF CountsAgree, NC, ND, NU

-----------------------------------------------------------------------------
(* Counting.                                                               *)

\* Subsets of Entry can be counted, and one element more or less changes the
\* count by one.
LEMMA Counting ==
  ASSUME NEW S \in SUBSET Entry
  PROVE  /\ Cardinality(S) \in Nat
         /\ Cardinality(S) = 0 <=> S = {}
         /\ \A x : x \notin S =>
              Cardinality(S \cup {x}) = Cardinality(S) + 1
         /\ \A x \in S : Cardinality(S \ {x}) = Cardinality(S) - 1
<1>1. IsFiniteSet(S)
  BY EntryAssumption, FS_Subset
<1> QED
  BY <1>1, FS_CardinalityType, FS_EmptySet, FS_AddElement, FS_RemoveElement

\* Adding e to the set a counter selects children by, and bumping the
\* counter of e's parents, keeps the two in step.
LEMMA BumpUp ==
  ASSUME NEW e \in Entry, NEW S, NEW count \in [Entry -> Nat], e \notin S,
         \A p \in Entry : count[p] = Cardinality(Children(p) \cap S)
  PROVE  /\ Bump(count, e, 1) \in [Entry -> Nat]
         /\ \A p \in Entry : Bump(count, e, 1)[p]
                           = Cardinality(Children(p) \cap (S \cup {e}))
<1>1. Bump(count, e, 1) \in [Entry -> Nat]
  BY DEF Bump
<1>2. ASSUME NEW p \in Entry
      PROVE  Bump(count, e, 1)[p]
               = Cardinality(Children(p) \cap (S \cup {e}))
  <2> DEFINE K == Children(p) \cap S
  <2>1. K \in SUBSET Entry
    BY DEF Children
  <2>2. CASE p \in Parents(e)
    <3>1. Children(p) \cap (S \cup {e}) = K \cup {e} /\ e \notin K
      BY <2>2 DEF Parents, Children
    <3>2. Cardinality(K \cup {e}) = Cardinality(K) + 1
      BY <2>1, <3>1, Counting
    <3>3. Bump(count, e, 1)[p] = count[p] + 1
      BY <2>2 DEF Bump
    <3> QED
      BY <3>1, <3>2, <3>3
  <2>3. CASE p \notin Parents(e)
    <3>1. Children(p) \cap (S \cup {e}) = K
      BY <2>3 DEF Parents, Children
    <3>2. Bump(count, e, 1)[p] = count[p]
      BY <2>3 DEF Bump
    <3> QED
      BY <3>1, <3>2
  <2> QED
    BY <2>2, <2>3
<1> QED
  BY <1>1, <1>2

\* The converse: e leaves the set and its parents' counters go down.
LEMMA BumpDown ==
  ASSUME NEW e \in Entry, NEW S, NEW count \in [Entry -> Nat], e \in S,
         \A p \in Entry : count[p] = Cardinality(Children(p) \cap S)
  PROVE  /\ Bump(count, e, -1) \in [Entry -> Nat]
         /\ \A p \in Entry : Bump(count, e, -1)[p]
                           = Cardinality(Children(p) \cap (S \ {e}))
<1>1. ASSUME NEW p \in Entry
      PROVE  /\ Bump(count, e, -1)[p]
                  = Cardinality(Children(p) \cap (S \ {e}))
             /\ Bump(count, e, -1)[p] \in Nat
  <2> DEFINE K == Children(p) \cap S
  <2>1. K \in SUBSET Entry /\ K \ {e} \in SUBSET Entry
    BY DEF Children
  <2>2. CASE p \in Parents(e)
    <3>1. Children(p) \cap (S \ {e}) = K \ {e} /\ e \in K
      BY <2>2 DEF Parents, Children
    <3>2. Cardinality(K \ {e}) = Cardinality(K) - 1
      BY <2>1, <3>1, Counting
    <3>3. Bump(count, e, -1)[p] = count[p] - 1
      BY <2>2 DEF Bump
    <3>4. Cardinality(K \ {e}) \in Nat
      BY <2>1, Counting
    <3> QED
      BY <3>1, <3>2, <3>3, <3>4
  <2>3. CASE p \notin Parents(e)
    <3>1. Children(p) \cap (S \ {e}) = K
      BY <2>3 DEF Parents, Children
    <3>2. Bump(count, e, -1)[p] = count[p]
      BY <2>3 DEF Bump
    <3>3. Cardinality(K) \in Nat
      BY <2>1, Counting
    <3> QED
      BY <3>1, <3>2, <3>3
  <2> QED
    BY <2>2, <2>3
<1>2. Bump(count, e, -1) = [p \in Entry |-> Bump(count, e, -1)[p]]
  BY DEF Bump
<1> QED
  BY <1>1, <1>2

\* Turning a flag of e on or off, with the matching walk over its parents.
LEMMA FlagSteps ==
  ASSUME TypeOK, ND, NU, NEW e \in Entry, flush_dep' = flush_dep
  PROVE  /\ is_dirty' = is_dirty \cup {e} /\ mark_flush_dep_dirty(e)
              => ND' /\ ndirty_children' \in [Entry -> Nat]
         /\ is_dirty' = is_dirty \ {e} /\ mark_flush_dep_clean(e)
              => ND' /\ ndirty_children' \in [Entry -> Nat]
         /\ ( /\ image_up_to_date' = image_up_to_date \ {e}
              /\ mark_flush_dep_unserialized(e) )
              => NU' /\ nunser_children' \in [Entry -> Nat]
         /\ ( /\ image_up_to_date' = image_up_to_date \cup {e}
              /\ mark_flush_dep_serialized(e) )
              => NU' /\ nunser_children' \in [Entry -> Nat]
<1> DEFINE U == Entry \ image_up_to_date
<1>1. \A p \in Entry : Children(p)' = Children(p) /\ Children(p) \subseteq Entry
  BY DEF Children
<1>2. \A p \in Entry : nunser_children[p] = Cardinality(Children(p) \cap U)
  <2>1. \A p \in Entry : Children(p) \ image_up_to_date = Children(p) \cap U
    BY <1>1
  <2> QED
    BY <2>1 DEF NU
<1>3. /\ ndirty_children \in [Entry -> Nat]
      /\ nunser_children \in [Entry -> Nat]
  BY DEF TypeOK
<1>4. ASSUME is_dirty' = is_dirty \cup {e}, mark_flush_dep_dirty(e)
      PROVE  ND' /\ ndirty_children' \in [Entry -> Nat]
  <2>1. CASE e \in is_dirty
    <3>1. is_dirty' = is_dirty /\ ndirty_children' = ndirty_children
      BY <1>4, <2>1 DEF mark_flush_dep_dirty
    <3> QED
      BY <1>1, <1>3, <3>1 DEF ND
  <2>2. CASE e \notin is_dirty
    <3>1. ndirty_children' = Bump(ndirty_children, e, 1)
      BY <1>4, <2>2 DEF mark_flush_dep_dirty
    <3> QED
      BY <1>1, <1>3, <1>4, <2>2, <3>1, BumpUp DEF ND
  <2> QED
    BY <2>1, <2>2
<1>5. ASSUME is_dirty' = is_dirty \ {e}, mark_flush_dep_clean(e)
      PROVE  ND' /\ ndirty_children' \in [Entry -> Nat]
  <2>1. CASE e \notin is_dirty
    <3>1. is_dirty' = is_dirty /\ ndirty_children' = ndirty_children
      BY <1>5, <2>1 DEF mark_flush_dep_clean
    <3> QED
      BY <1>1, <1>3, <3>1 DEF ND
  <2>2. CASE e \in is_dirty
    <3>1. ndirty_children' = Bump(ndirty_children, e, -1)
      BY <1>5, <2>2 DEF mark_flush_dep_clean
    <3> QED
      BY <1>1, <1>3, <1>5, <2>2, <3>1, BumpDown DEF ND
  <2> QED
    BY <2>1, <2>2
<1>6. ASSUME image_up_to_date' = image_up_to_date \ {e},
             mark_flush_dep_unserialized(e)
      PROVE  NU' /\ nunser_children' \in [Entry -> Nat]
  <2>1. CASE e \notin image_up_to_date
    <3>1. /\ image_up_to_date' = image_up_to_date
          /\ nunser_children' = nunser_children
      BY <1>6, <2>1 DEF mark_flush_dep_unserialized
    <3> QED
      BY <1>1, <1>3, <3>1 DEF NU
  <2>2. CASE e \in image_up_to_date
    <3>1. nunser_children' = Bump(nunser_children, e, 1)
      BY <1>6, <2>2 DEF mark_flush_dep_unserialized
    <3>2. /\ nunser_children' \in [Entry -> Nat]
          /\ \A p \in Entry : nunser_children'[p]
                              = Cardinality(Children(p) \cap (U \cup {e}))
      BY <1>2, <1>3, <2>2, <3>1, BumpUp
    <3>3. \A p \in Entry : Children(p)' \ image_up_to_date'
                          = Children(p) \cap (U \cup {e})
      BY <1>1, <1>6
    <3> QED
      BY <3>2, <3>3 DEF NU
  <2> QED
    BY <2>1, <2>2
<1>7. ASSUME image_up_to_date' = image_up_to_date \cup {e},
             mark_flush_dep_serialized(e)
      PROVE  NU' /\ nunser_children' \in [Entry -> Nat]
  <2>1. CASE e \in image_up_to_date
    <3>1. /\ image_up_to_date' = image_up_to_date
          /\ nunser_children' = nunser_children
      BY <1>7, <2>1 DEF mark_flush_dep_serialized
    <3> QED
      BY <1>1, <1>3, <3>1 DEF NU
  <2>2. CASE e \notin image_up_to_date
    <3>1. nunser_children' = Bump(nunser_children, e, -1)
      BY <1>7, <2>2 DEF mark_flush_dep_serialized
    <3>2. /\ nunser_children' \in [Entry -> Nat]
          /\ \A p \in Entry : nunser_children'[p]
                              = Cardinality(Children(p) \cap (U \ {e}))
      BY <1>2, <1>3, <2>2, <3>1, BumpDown
    <3>3. \A p \in Entry : Children(p)' \ image_up_to_date'
                          = Children(p) \cap (U \ {e})
      BY <1>1, <1>7
    <3> QED
      BY <3>2, <3>3 DEF NU
  <2> QED
    BY <2>1, <2>2
<1> QED
  BY <1>4, <1>5, <1>6, <1>7

\* Destroying an entry takes it out of every count.
LEMMA DestroyCounts ==
  ASSUME TypeOK, NC, ND, NU, NEW e \in Entry, Destroy(e)
  PROVE  /\ NC' /\ ND' /\ NU'
         /\ nchildren' \in [Entry -> Nat]
         /\ ndirty_children' \in [Entry -> Nat]
         /\ nunser_children' \in [Entry -> Nat]
<1> DEFINE U == Entry \ image_up_to_date
<1>1. \A p \in Entry : /\ Children(p)' = Children(p) \ {e}
                       /\ Children(p) \subseteq Entry
  BY DEF Children, Destroy, TypeOK
<1>2. /\ nchildren \in [Entry -> Nat]
      /\ ndirty_children \in [Entry -> Nat]
      /\ nunser_children \in [Entry -> Nat]
  BY DEF TypeOK
<1>3. NC' /\ nchildren' \in [Entry -> Nat]
  <2>1. \A p \in Entry : Children(p) \cap Entry = Children(p)
    BY <1>1
  <2>2. \A p \in Entry : nchildren[p] = Cardinality(Children(p) \cap Entry)
    BY <2>1 DEF NC
  <2>3. nchildren' = Bump(nchildren, e, -1)
    BY DEF Destroy
  <2>4. /\ nchildren' \in [Entry -> Nat]
        /\ \A p \in Entry : nchildren'[p]
                            = Cardinality(Children(p) \cap (Entry \ {e}))
    BY <1>2, <2>2, <2>3, BumpDown
  <2>5. \A p \in Entry : Children(p)' = Children(p) \cap (Entry \ {e})
    BY <1>1
  <2> QED
    BY <2>4, <2>5 DEF NC
<1>4. ND' /\ ndirty_children' \in [Entry -> Nat]
  <2>1. is_dirty' = is_dirty \ {e}
    BY DEF Destroy
  <2>2. \A p \in Entry : Children(p)' \cap is_dirty'
                        = Children(p) \cap (is_dirty \ {e})
    BY <1>1, <2>1
  <2>3. CASE e \in is_dirty
    <3>1. ndirty_children' = Bump(ndirty_children, e, -1)
      BY <2>3 DEF Destroy
    <3>2. /\ ndirty_children' \in [Entry -> Nat]
          /\ \A p \in Entry : ndirty_children'[p]
                = Cardinality(Children(p) \cap (is_dirty \ {e}))
      BY <1>2, <2>3, <3>1, BumpDown DEF ND
    <3> QED
      BY <2>2, <3>2 DEF ND
  <2>4. CASE e \notin is_dirty
    <3>1. ndirty_children' = ndirty_children /\ is_dirty \ {e} = is_dirty
      BY <2>4 DEF Destroy
    <3> QED
      BY <1>2, <2>2, <3>1 DEF ND
  <2> QED
    BY <2>3, <2>4
<1>5. NU' /\ nunser_children' \in [Entry -> Nat]
  <2>1. image_up_to_date' = image_up_to_date \ {e}
    BY DEF Destroy
  <2>2. \A p \in Entry :
          /\ Children(p)' \ image_up_to_date' = Children(p) \cap (U \ {e})
          /\ Children(p) \ image_up_to_date = Children(p) \cap U
    BY <1>1, <2>1
  <2>3. CASE e \notin image_up_to_date
    <3>1. nunser_children' = Bump(nunser_children, e, -1)
      BY <2>3 DEF Destroy
    <3>2. \A p \in Entry : nunser_children[p] = Cardinality(Children(p) \cap U)
      BY <2>2 DEF NU
    <3>3. /\ nunser_children' \in [Entry -> Nat]
          /\ \A p \in Entry : nunser_children'[p]
                = Cardinality(Children(p) \cap (U \ {e}))
      BY <1>2, <2>3, <3>1, <3>2, BumpDown
    <3> QED
      BY <2>2, <3>3 DEF NU
  <2>4. CASE e \in image_up_to_date
    <3>1. nunser_children' = nunser_children /\ U \ {e} = U
      BY <2>4 DEF Destroy
    <3>2. \A p \in Entry :
            Children(p)' \ image_up_to_date' = Children(p) \ image_up_to_date
      BY <2>2, <3>1
    <3> QED
      BY <1>2, <3>1, <3>2 DEF NU
  <2> QED
    BY <2>3, <2>4
<1> QED
  BY <1>3, <1>4, <1>5

-----------------------------------------------------------------------------
(* The steps, sorted by what they leave alone.                             *)

HoldStep(e) ==
  \/ \E pin \in BOOLEAN : insert_entry(e, pin)
  \/ \E ro, dirty \in BOOLEAN : protect(e, ro, dirty)
  \/ protect_shared(e)
  \/ pin_protected_entry(e)
  \/ unpin_entry(e)
  \/ \E op \in {"none", "pin", "unpin"} : unprotect_shared(e, op)
  \/ \E op \in {"none", "pin", "unpin"} :
       \E flagged \in BOOLEAN : unprotect(e, flagged, op)

ContentStep(e) ==
  \/ mark_protected_dirty(e)
  \/ mark_pinned_dirty(e)
  \/ resize_entry(e)
  \/ move_entry(e)
  \/ mark_entry_clean(e)
  \/ mark_entry_unserialized(e)
  \/ mark_entry_serialized(e)
  \/ flush_in_ring(e)
  \/ make_space_flush(e)
  \/ serialize_single_entry(e)

DestroyStep(e) ==
  \/ \E op \in {"none", "unpin"} : unprotect_deleted(e, op)
  \/ evict(e)
  \/ expunge_entry(e)
  \/ remove_entry(e)

\* Every operation holds an entry or lets it go, changes its content, destroys
\* it, or changes a dependency.
LEMMA SortSteps ==
  ASSUME Next
  PROVE  \/ \E e \in Entry : HoldStep(e) \/ ContentStep(e) \/ DestroyStep(e)
         \/ \E p, c \in Entry : DependencyStep(p, c)
<1>1. ASSUME NEW e \in Entry, EntryStep(e) \/ FlushStep(e)
      PROVE  HoldStep(e) \/ ContentStep(e) \/ DestroyStep(e)
  BY <1>1, Zenon
     DEF EntryStep, FlushStep, HoldStep, ContentStep, DestroyStep
<1> QED
  BY <1>1, Zenon DEF Next

\* Holding an entry or letting it go moves no flush dependency.
LEMMA HoldFrame ==
  ASSUME NEW e \in Entry, HoldStep(e)
  PROVE  UNCHANGED <<flush_dep, nchildren, pinned_from_cache>>
BY DEF HoldStep, insert_entry, protect, protect_shared, pin_protected_entry,
       unpin_entry, unprotect_shared, unprotect, depVars, pinVars

\* New content, a new image or a write moves no entry between lists.
LEMMA ContentFrame ==
  ASSUME NEW e \in Entry, ContentStep(e)
  PROVE  UNCHANGED <<index, is_protected, is_read_only, ro_ref_count,
                     is_pinned, pinned_from_client, pinned_from_cache,
                     LRU, pel, pl, flush_dep, nchildren>>
BY DEF ContentStep, mark_protected_dirty, mark_pinned_dirty, resize_entry,
       move_entry, mark_entry_clean, mark_entry_unserialized,
       mark_entry_serialized, flush_in_ring, make_space_flush,
       flush_single_entry, serialize_single_entry, protVars, pinVars,
       listVars, depVars

\* An entry is destroyed only when nobody but its last holder needs it: it
\* is cached, on the LRU or the protected list, and has no children.
LEMMA DestroyFrame ==
  ASSUME IInv, NEW e \in Entry, DestroyStep(e)
  PROVE  /\ Destroy(e)
         /\ e \in index
         /\ e \in is_pinned => e \in is_protected
         /\ e \notin pinned_from_cache
         /\ Children(e) = {}
<1>1. Destroy(e) /\ e \in index
  BY DEF DestroyStep, unprotect_deleted, evict, expunge_entry, remove_entry,
         IInv, ListsAgree
<1>2. e \notin pinned_from_cache /\ (e \in is_pinned => e \in is_protected)
  <2>1. CASE \E op \in {"none", "unpin"} : unprotect_deleted(e, op)
    BY <2>1 DEF unprotect_deleted, NewPinned, IInv, PinsAgree
  <2>2. CASE evict(e) \/ expunge_entry(e) \/ remove_entry(e)
    BY <2>2 DEF evict, expunge_entry, remove_entry, IInv, PinsAgree
  <2> QED
    BY <2>1, <2>2 DEF DestroyStep
<1>3. Children(e) = {}
  BY <1>2 DEF IInv, PinsAgree
<1> QED
  BY <1>1, <1>2, <1>3

\* Which parents lose their last child with an entry c.
LEMMA LastChild ==
  ASSUME TypeOK, NC, NEW p \in Entry, NEW c \in Children(p)
  PROVE  nchildren[p] = 1 <=> Children(p) \ {c} = {}
<1>1. Children(p) \in SUBSET Entry /\ Children(p) \ {c} \in SUBSET Entry
  BY DEF Children
<1>2. /\ Cardinality(Children(p) \ {c}) = Cardinality(Children(p)) - 1
      /\ Cardinality(Children(p)) \in Nat
      /\ Cardinality(Children(p) \ {c}) = 0 <=> Children(p) \ {c} = {}
  BY <1>1, Counting
<1>3. nchildren[p] = Cardinality(Children(p))
  BY DEF NC
<1> QED
  BY <1>2, <1>3

-----------------------------------------------------------------------------
(* The parts of the invariant, one by one.                                 *)

\* No operation leaves a dependency on an entry that is not cached.
LEMMA DependentsStep ==
  ASSUME IInv, Next
  PROVE  DependentsCached'
<1>1. ASSUME NEW e \in Entry, HoldStep(e)
      PROVE  DependentsCached'
  <2>1. index \subseteq index'
    BY <1>1 DEF HoldStep, insert_entry, protect, protect_shared,
                pin_protected_entry, unpin_entry, unprotect_shared, unprotect
  <2> QED
    BY <1>1, <2>1, HoldFrame DEF DependentsCached, IInv
<1>2. ASSUME NEW e \in Entry, ContentStep(e)
      PROVE  DependentsCached'
  BY <1>2, ContentFrame DEF DependentsCached, IInv
<1>3. ASSUME NEW e \in Entry, DestroyStep(e)
      PROVE  DependentsCached'
  <2>1. Destroy(e) /\ Children(e) = {}
    BY <1>3, DestroyFrame
  <2>2. flush_dep' = {d \in flush_dep : d[2] # e} /\ index' = index \ {e}
    BY <2>1 DEF Destroy
  <2>3. \A d \in flush_dep : /\ d \in index \X index
                             /\ d \in Entry \X Entry
                             /\ d = <<d[1], d[2]>>
    BY DependAssumption DEF IInv, TypeOK, DependentsCached
  <2>4. \A d \in flush_dep : d[1] # e
    BY <2>1, <2>3 DEF Children
  <2> QED
    BY <2>2, <2>3, <2>4 DEF DependentsCached
<1>4. ASSUME NEW p \in Entry, NEW c \in Entry, DependencyStep(p, c)
      PROVE  DependentsCached'
  BY <1>4 DEF DependencyStep, create_flush_dependency,
              destroy_flush_dependency, DependentsCached, IInv
<1> QED
  BY <1>1, <1>2, <1>3, <1>4, SortSteps

\* No operation forgets content that the file lacks.
LEMMA UpdateStep ==
  ASSUME IInv, Next
  PROVE  NoLostUpdate'
<1>1. ASSUME NEW e \in Entry, HoldStep(e)
      PROVE  NoLostUpdate'
  BY <1>1 DEF HoldStep, insert_entry, protect, protect_shared,
              pin_protected_entry, unpin_entry, unprotect_shared, unprotect,
              BecomeDirty, NoLostUpdate, IInv, ListsAgree, entryVars,
              protVars
<1>2. ASSUME NEW e \in Entry, ContentStep(e)
      PROVE  NoLostUpdate'
  BY <1>2, ProxyAssumption
     DEF ContentStep, mark_protected_dirty, mark_pinned_dirty, resize_entry,
         move_entry, mark_entry_clean, mark_entry_unserialized,
         mark_entry_serialized, flush_in_ring, make_space_flush,
         flush_single_entry, serialize_single_entry, BecomeDirty, protVars,
         NoLostUpdate, IInv, ListsAgree, TypeOK
<1>3. ASSUME NEW e \in Entry, DestroyStep(e)
      PROVE  NoLostUpdate'
  <2>1. Destroy(e)
    BY <1>3, DestroyFrame
  <2> QED
    BY <2>1 DEF Destroy, NoLostUpdate, IInv
<1>4. ASSUME NEW p \in Entry, NEW c \in Entry, DependencyStep(p, c)
      PROVE  NoLostUpdate'
  BY <1>4 DEF DependencyStep, create_flush_dependency,
              destroy_flush_dependency, protVars, NoLostUpdate, IInv
<1> QED
  BY <1>1, <1>2, <1>3, <1>4, SortSteps

\* Every operation leaves an entry pinned while a client or a child needs it.
LEMMA PinsStep ==
  ASSUME IInv, Next
  PROVE  PinsAgree'
<1>1. ASSUME NEW e \in Entry, HoldStep(e)
      PROVE  PinsAgree'
  <2>1. /\ pinned_from_cache' = pinned_from_cache
        /\ \A p \in Entry : Children(p)' = Children(p)
    BY <1>1, HoldFrame DEF Children
  <2>2. is_pinned' = pinned_from_client' \cup pinned_from_cache'
    BY <1>1, <2>1
       DEF HoldStep, insert_entry, protect, protect_shared,
           pin_protected_entry, unpin_entry, unprotect_shared, unprotect,
           PinFlags, NewPinned, pinVars, IInv, PinsAgree
  <2> QED
    BY <2>1, <2>2 DEF IInv, PinsAgree
<1>2. ASSUME NEW e \in Entry, ContentStep(e)
      PROVE  PinsAgree'
  BY <1>2, ContentFrame DEF IInv, PinsAgree, Children
<1>3. ASSUME NEW e \in Entry, DestroyStep(e)
      PROVE  PinsAgree'
  <2> DEFINE childless == {p \in Parents(e) : nchildren[p] = 1}
  <2>1. Destroy(e) /\ e \notin pinned_from_cache
    BY <1>3, DestroyFrame
  <2>2. /\ pinned_from_cache' = pinned_from_cache \ childless
        /\ is_pinned' = is_pinned
              \ ((childless \ pinned_from_client) \cup {e})
        /\ pinned_from_client' = pinned_from_client \ {e}
    BY <2>1 DEF Destroy, LoseChild
  <2>3. is_pinned' = pinned_from_client' \cup pinned_from_cache'
    <3>1. is_pinned = pinned_from_client \cup pinned_from_cache
      BY DEF IInv, PinsAgree
    <3>2. e \notin childless
      BY DependAssumption DEF Parents, IInv, TypeOK
    <3> HIDE DEF childless
    <3> QED
      BY <2>1, <2>2, <3>1, <3>2
  <2>4. ASSUME NEW p \in Entry
        PROVE  p \in pinned_from_cache' <=> Children(p)' # {}
    <3>1. Children(p)' = Children(p) \ {e}
      BY <2>1 DEF Destroy, Children, IInv, TypeOK
    <3>2. CASE e \in Children(p)
      <4>1. p \in Parents(e) /\ p \in pinned_from_cache
        BY <3>2 DEF Parents, Children, IInv, PinsAgree
      <4>2. nchildren[p] = 1 <=> Children(p) \ {e} = {}
        BY <3>2, LastChild, SplitCounts DEF IInv
      <4> QED
        BY <2>2, <3>1, <4>1, <4>2
    <3>3. CASE e \notin Children(p)
      <4>1. p \notin childless /\ Children(p)' = Children(p)
        BY <3>1, <3>3 DEF Parents, Children
      <4> QED
        BY <2>2, <4>1 DEF IInv, PinsAgree
    <3> QED
      BY <3>2, <3>3
  <2> QED
    BY <2>3, <2>4 DEF PinsAgree
<1>4. ASSUME NEW p \in Entry, NEW c \in Entry, create_flush_dependency(p, c)
      PROVE  PinsAgree'
  <2>1. \A q \in Entry : Children(q)' = IF q = p THEN Children(q) \cup {c}
                                         ELSE Children(q)
    BY <1>4 DEF create_flush_dependency, Children
  <2> QED
    BY <1>4, <2>1 DEF create_flush_dependency, IInv, PinsAgree
<1>5. ASSUME NEW p \in Entry, NEW c \in Entry,
             destroy_flush_dependency(p, c)
      PROVE  PinsAgree'
  <2>1. \A q \in Entry : Children(q)' = IF q = p THEN Children(q) \ {c}
                                         ELSE Children(q)
    BY <1>5 DEF destroy_flush_dependency, Children, IInv, TypeOK
  <2>2. c \in Children(p)
    BY <1>5 DEF destroy_flush_dependency, Children
  <2>3. nchildren[p] = 1 <=> Children(p) \ {c} = {}
    BY <2>2, LastChild, SplitCounts DEF IInv
  <2>4. /\ pinned_from_cache' = IF nchildren[p] = 1
                                THEN pinned_from_cache \ {p}
                                ELSE pinned_from_cache
        /\ is_pinned' = IF nchildren[p] = 1 /\ p \notin pinned_from_client
                        THEN is_pinned \ {p} ELSE is_pinned
        /\ pinned_from_client' = pinned_from_client
    BY <1>5 DEF destroy_flush_dependency, LoseChild
  <2>5. /\ is_pinned = pinned_from_client \cup pinned_from_cache
        /\ \A q \in Entry : q \in pinned_from_cache <=> Children(q) # {}
    BY DEF IInv, PinsAgree
  <2>6. is_pinned' = pinned_from_client' \cup pinned_from_cache'
    BY <2>4, <2>5
  <2>7. \A q \in Entry : q \in pinned_from_cache' <=> Children(q)' # {}
    BY <2>1, <2>2, <2>3, <2>4, <2>5
  <2> QED
    BY <2>6, <2>7 DEF PinsAgree
<1> QED
  BY <1>1, <1>2, <1>3, <1>4, <1>5, SortSteps DEF DependencyStep

\* Every operation leaves each entry on the list its flags name.
LEMMA ListsStep ==
  ASSUME IInv, Next
  PROVE  ListsAgree'
<1>1. ASSUME NEW e \in Entry, HoldStep(e)
      PROVE  ListsAgree'
  <2>1. ASSUME NEW pin \in BOOLEAN, insert_entry(e, pin)
        PROVE  ListsAgree'
    BY <2>1 DEF insert_entry, protVars, IInv, ListsAgree
  <2>2. ASSUME NEW ro \in BOOLEAN, NEW dirty \in BOOLEAN,
               protect(e, ro, dirty)
        PROVE  ListsAgree'
    BY <2>2 DEF protect, RP_for_protect, pinVars, IInv, ListsAgree
  <2>3. CASE protect_shared(e)
    BY <2>3 DEF protect_shared, pinVars, listVars, IInv, ListsAgree
  <2>4. CASE pin_protected_entry(e)
    BY <2>4 DEF pin_protected_entry, protVars, listVars, IInv, ListsAgree
  <2>5. CASE unpin_entry(e)
    BY <2>5 DEF unpin_entry, protVars, IInv, ListsAgree
  <2>6. ASSUME NEW op \in {"none", "pin", "unpin"}, unprotect_shared(e, op)
        PROVE  ListsAgree'
    BY <2>6 DEF unprotect_shared, PinFlags, NewPinned, listVars, IInv,
                ListsAgree
  <2>7. ASSUME NEW op \in {"none", "pin", "unpin"}, NEW flagged \in BOOLEAN,
               unprotect(e, flagged, op)
        PROVE  ListsAgree'
    <3>1. /\ e \in is_protected /\ index' = index
          /\ is_protected' = is_protected \ {e}
          /\ pl' = pl \ {e}
          /\ is_pinned' = NewPinned(e, op)
          /\ pel' = IF e \in NewPinned(e, op) THEN pel \cup {e} ELSE pel
          /\ LRU' = IF e \in NewPinned(e, op) THEN LRU ELSE LRU \cup {e}
      BY <2>7 DEF unprotect, PinFlags
    <3>2. /\ NewPinned(e, op) \ {e} = is_pinned \ {e}
      BY DEF NewPinned
    <3> QED
      BY <3>1, <3>2 DEF IInv, ListsAgree
  <2> QED
    BY <1>1, <2>1, <2>2, <2>3, <2>4, <2>5, <2>6, <2>7 DEF HoldStep
<1>2. ASSUME NEW e \in Entry, ContentStep(e)
      PROVE  ListsAgree'
  BY <1>2, ContentFrame DEF IInv, ListsAgree
<1>3. ASSUME NEW e \in Entry, DestroyStep(e)
      PROVE  ListsAgree'
  <2> DEFINE childless == {p \in Parents(e) : nchildren[p] = 1}
             unpinned  == childless \ pinned_from_client
  <2>1. Destroy(e) /\ (e \in is_pinned => e \in is_protected)
    BY <1>3, DestroyFrame
  <2>2. /\ index' = index \ {e}
        /\ is_protected' = is_protected \ {e}
        /\ is_pinned' = is_pinned \ (unpinned \cup {e})
        /\ pel' = pel \ (unpinned \ is_protected)
        /\ LRU' = (LRU \cup (unpinned \ is_protected)) \ {e}
        /\ pl' = pl \ {e}
    BY <2>1 DEF Destroy, LoseChild
  <2>3. unpinned \subseteq is_pinned /\ e \notin unpinned
    BY DependAssumption DEF IInv, PinsAgree, TypeOK, Parents, Children
  <2> HIDE DEF unpinned
  <2> QED
    BY <2>1, <2>2, <2>3 DEF IInv, ListsAgree
<1>4. ASSUME NEW p \in Entry, NEW c \in Entry, create_flush_dependency(p, c)
      PROVE  ListsAgree'
  BY <1>4 DEF create_flush_dependency, protVars, listVars, IInv, ListsAgree
<1>5. ASSUME NEW p \in Entry, NEW c \in Entry,
             destroy_flush_dependency(p, c)
      PROVE  ListsAgree'
  <2> DEFINE unpinned == {q \in {p} : nchildren[q] = 1} \ pinned_from_client
  <2>1. /\ index' = index
        /\ is_protected' = is_protected
        /\ is_pinned' = is_pinned \ unpinned
        /\ pel' = pel \ (unpinned \ is_protected)
        /\ LRU' = LRU \cup (unpinned \ is_protected)
        /\ pl' = pl
    BY <1>5 DEF destroy_flush_dependency, LoseChild, protVars
  <2>2. unpinned \subseteq is_pinned
    BY <1>5 DEF destroy_flush_dependency
  <2> HIDE DEF unpinned
  <2> QED
    BY <2>1, <2>2 DEF IInv, ListsAgree
<1> QED
  BY <1>1, <1>2, <1>3, <1>4, <1>5, SortSteps DEF DependencyStep

\* Counters and the sets they count; their types come along because a counter
\* could leave Nat only by disagreeing with its set.
CountTypes == /\ nchildren \in [Entry -> Nat]
              /\ ndirty_children \in [Entry -> Nat]
              /\ nunser_children \in [Entry -> Nat]

\* Every operation keeps the counters of flush dependency parents exact.
LEMMA CountsStep ==
  ASSUME IInv, Next
  PROVE  CountsAgree' /\ CountTypes'
<1> USE DEF CountTypes
<1>1. TypeOK /\ NC /\ ND /\ NU /\ CountTypes
  BY SplitCounts DEF IInv, TypeOK
<1>2. ASSUME NC', ND', NU'
      PROVE  CountsAgree'
  BY <1>2 DEF CountsAgree, NC, ND, NU
<1>3. ASSUME NEW e \in Entry, BecomeDirty(e), flush_dep' = flush_dep
      PROVE  /\ ND' /\ NU'
             /\ ndirty_children' \in [Entry -> Nat]
             /\ nunser_children' \in [Entry -> Nat]
  BY <1>1, <1>3, FlagSteps DEF BecomeDirty
<1>4. ASSUME flush_dep' = flush_dep, nchildren' = nchildren
      PROVE  /\ NC' /\ nchildren' \in [Entry -> Nat]
             /\ \A p \in Entry : Children(p)' = Children(p)
  BY <1>1, <1>4 DEF NC, Children
<1>5. ASSUME NEW e \in Entry, HoldStep(e)
      PROVE  NC' /\ ND' /\ NU' /\ CountTypes'
  <2>1. flush_dep' = flush_dep /\ nchildren' = nchildren
    BY <1>5, HoldFrame
  <2>2. CASE \/ \E pin \in BOOLEAN : insert_entry(e, pin)
             \/ \E ro, dirty \in BOOLEAN : protect(e, ro, dirty)
    <3>1. /\ is_dirty' \ {e} = is_dirty \ {e}
          /\ image_up_to_date' \ {e} = image_up_to_date \ {e}
          /\ e \in index =>
               is_dirty' = is_dirty /\ image_up_to_date' = image_up_to_date
          /\ UNCHANGED <<ndirty_children, nunser_children>>
      BY <2>2 DEF insert_entry, protect
    <3>2. ASSUME NEW p \in Entry, e \notin index
          PROVE  e \notin Children(p)
      BY <3>2 DEF Children, IInv, DependentsCached
    <3>3. \A p \in Entry :
            /\ Children(p) \cap is_dirty' = Children(p) \cap is_dirty
            /\ Children(p) \ image_up_to_date'
                 = Children(p) \ image_up_to_date
      BY <3>1, <3>2
    <3> QED
      BY <1>1, <1>4, <2>1, <3>1, <3>3 DEF ND, NU
  <2>3. CASE \/ protect_shared(e) \/ pin_protected_entry(e) \/ unpin_entry(e)
             \/ \E op \in {"none", "pin", "unpin"} : unprotect_shared(e, op)
    <3>1. UNCHANGED <<is_dirty, image_up_to_date, ndirty_children,
                      nunser_children>>
      BY <2>3 DEF protect_shared, pin_protected_entry, unpin_entry,
                  unprotect_shared, entryVars
    <3> QED
      BY <1>1, <1>4, <2>1, <3>1 DEF ND, NU
  <2>4. CASE \E op \in {"none", "pin", "unpin"} :
               \E flagged \in BOOLEAN : unprotect(e, flagged, op)
    <3>1. \/ BecomeDirty(e)
          \/ UNCHANGED <<is_dirty, image_up_to_date, ndirty_children,
                         nunser_children>>
      BY <2>4 DEF unprotect
    <3> QED
      BY <1>1, <1>3, <1>4, <2>1, <3>1 DEF ND, NU
  <2> QED
    BY <1>5, <2>2, <2>3, <2>4 DEF HoldStep
<1>6. ASSUME NEW e \in Entry, ContentStep(e)
      PROVE  NC' /\ ND' /\ NU' /\ CountTypes'
  <2>1. flush_dep' = flush_dep /\ nchildren' = nchildren
    BY <1>6, ContentFrame
  <2>2. NC' /\ nchildren' \in [Entry -> Nat]
        /\ \A p \in Entry : Children(p)' = Children(p)
    BY <1>4, <2>1
  <2>3. CASE mark_pinned_dirty(e) \/ resize_entry(e) \/ move_entry(e)
    <3>1. BecomeDirty(e)
      BY <2>3 DEF mark_pinned_dirty, resize_entry, move_entry
    <3> QED
      BY <1>3, <2>1, <2>2, <3>1
  <2>4. CASE mark_protected_dirty(e) \/ mark_entry_unserialized(e)
    <3>1. /\ image_up_to_date' = image_up_to_date \ {e}
          /\ mark_flush_dep_unserialized(e)
          /\ UNCHANGED <<is_dirty, ndirty_children>>
      BY <2>4 DEF mark_protected_dirty, mark_entry_unserialized
    <3>2. ND' /\ ndirty_children' \in [Entry -> Nat]
      BY <1>1, <2>2, <3>1 DEF ND
    <3> QED
      BY <1>1, <2>1, <2>2, <3>1, <3>2, FlagSteps
  <2>5. CASE mark_entry_clean(e)
    <3>1. /\ is_dirty' = is_dirty \ {e}
          /\ mark_flush_dep_clean(e)
          /\ UNCHANGED <<image_up_to_date, nunser_children>>
      BY <2>5 DEF mark_entry_clean
    <3>2. NU' /\ nunser_children' \in [Entry -> Nat]
      BY <1>1, <2>2, <3>1 DEF NU
    <3> QED
      BY <1>1, <2>1, <2>2, <3>1, <3>2, FlagSteps
  <2>6. CASE mark_entry_serialized(e) \/ serialize_single_entry(e)
    <3>1. /\ image_up_to_date' = image_up_to_date \cup {e}
          /\ mark_flush_dep_serialized(e)
          /\ UNCHANGED <<is_dirty, ndirty_children>>
      BY <2>6 DEF mark_entry_serialized, serialize_single_entry,
                  generate_image
    <3>2. ND' /\ ndirty_children' \in [Entry -> Nat]
      BY <1>1, <2>2, <3>1 DEF ND
    <3> QED
      BY <1>1, <2>1, <2>2, <3>1, <3>2, FlagSteps
  <2>7. CASE flush_in_ring(e) \/ make_space_flush(e)
    <3>1. /\ image_up_to_date' = image_up_to_date \cup {e}
          /\ mark_flush_dep_serialized(e)
          /\ is_dirty' = is_dirty \ {e}
          /\ mark_flush_dep_clean(e)
      BY <2>7 DEF flush_in_ring, make_space_flush, flush_single_entry,
                  generate_image
    <3> QED
      BY <1>1, <2>1, <2>2, <3>1, FlagSteps
  <2> QED
    BY <1>6, <2>3, <2>4, <2>5, <2>6, <2>7 DEF ContentStep
<1>7. ASSUME NEW e \in Entry, DestroyStep(e)
      PROVE  NC' /\ ND' /\ NU' /\ CountTypes'
  BY <1>1, <1>7, DestroyFrame, DestroyCounts
<1>8. ASSUME NEW p \in Entry, NEW c \in Entry, create_flush_dependency(p, c)
      PROVE  NC' /\ ND' /\ NU' /\ CountTypes'
  <2> DEFINE K == Children(p)
  <2>1. /\ \A q \in Entry : q # p => Children(q)' = Children(q)
        /\ K' = K \cup {c} /\ c \notin K
    BY <1>8 DEF create_flush_dependency, Children
  <2>2. K \in SUBSET Entry /\ K \cap is_dirty \in SUBSET Entry
        /\ K \ image_up_to_date \in SUBSET Entry
    BY DEF Children
  <2>3. UNCHANGED <<is_dirty, image_up_to_date>>
    BY <1>8 DEF create_flush_dependency
  <2>4. /\ nchildren[p] = Cardinality(K)
        /\ ndirty_children[p] = Cardinality(K \cap is_dirty)
        /\ nunser_children[p] = Cardinality(K \ image_up_to_date)
    BY <1>1 DEF NC, ND, NU
  <2> HIDE DEF K
  <2>5. Cardinality(K') = nchildren[p] + 1
    BY <2>1, <2>2, <2>4, Counting
  <2>6. Cardinality(K' \cap is_dirty') =
          IF c \in is_dirty THEN ndirty_children[p] + 1
          ELSE ndirty_children[p]
    <3> DEFINE D == K \cap is_dirty
    <3>1. K' \cap is_dirty' = IF c \in is_dirty THEN D \cup {c} ELSE D
      BY <2>1, <2>3
    <3>2. Cardinality(D \cup {c}) = Cardinality(D) + 1
      BY <2>1, <2>2, Counting
    <3> QED
      BY <2>4, <3>1, <3>2
  <2>7. Cardinality(K' \ image_up_to_date') =
          IF c \in image_up_to_date THEN nunser_children[p]
          ELSE nunser_children[p] + 1
    <3> DEFINE N == K \ image_up_to_date
    <3>1. K' \ image_up_to_date' = IF c \in image_up_to_date THEN N
                                   ELSE N \cup {c}
      BY <2>1, <2>3
    <3>2. Cardinality(N \cup {c}) = Cardinality(N) + 1
      BY <2>1, <2>2, Counting
    <3> QED
      BY <2>4, <3>1, <3>2
  <2>8. /\ nchildren' = [nchildren EXCEPT ![p] = @ + 1]
        /\ ndirty_children' = IF c \in is_dirty
                              THEN [ndirty_children EXCEPT ![p] = @ + 1]
                              ELSE ndirty_children
        /\ nunser_children' = IF c \in image_up_to_date THEN nunser_children
                              ELSE [nunser_children EXCEPT ![p] = @ + 1]
    BY <1>8 DEF create_flush_dependency
  <2>9. CountTypes'
    BY <1>1, <2>8
  <2>10. NC'
    BY <1>1, <2>1, <2>5, <2>8 DEF NC, K
  <2>11. ND'
    BY <1>1, <2>1, <2>3, <2>6, <2>8 DEF ND, K
  <2>12. NU'
    BY <1>1, <2>1, <2>3, <2>7, <2>8 DEF NU, K
  <2> QED
    BY <2>9, <2>10, <2>11, <2>12
<1>9. ASSUME NEW p \in Entry, NEW c \in Entry,
             destroy_flush_dependency(p, c)
      PROVE  NC' /\ ND' /\ NU' /\ CountTypes'
  <2> DEFINE K == Children(p)
  <2>1. /\ \A q \in Entry : q # p => Children(q)' = Children(q)
        /\ K' = K \ {c} /\ c \in K
    BY <1>1, <1>9 DEF destroy_flush_dependency, Children, TypeOK
  <2>2. K \in SUBSET Entry /\ K \cap is_dirty \in SUBSET Entry
        /\ K \ image_up_to_date \in SUBSET Entry
        /\ K' \in SUBSET Entry /\ K' \cap is_dirty \in SUBSET Entry
        /\ K' \ image_up_to_date \in SUBSET Entry
    BY DEF Children
  <2>3. UNCHANGED <<is_dirty, image_up_to_date>>
    BY <1>9 DEF destroy_flush_dependency
  <2>4. /\ nchildren[p] = Cardinality(K)
        /\ ndirty_children[p] = Cardinality(K \cap is_dirty)
        /\ nunser_children[p] = Cardinality(K \ image_up_to_date)
    BY <1>1 DEF NC, ND, NU
  <2> HIDE DEF K
  <2>5. /\ Cardinality(K') = nchildren[p] - 1
        /\ Cardinality(K') \in Nat
    BY <2>1, <2>2, <2>4, Counting
  <2>6. /\ Cardinality(K' \cap is_dirty') =
             IF c \in is_dirty THEN ndirty_children[p] - 1
             ELSE ndirty_children[p]
        /\ Cardinality(K' \cap is_dirty') \in Nat
    <3> DEFINE D == K \cap is_dirty
    <3>1. K' \cap is_dirty' = IF c \in is_dirty THEN D \ {c} ELSE D
      BY <2>1, <2>3
    <3>2. c \in is_dirty => Cardinality(D \ {c}) = Cardinality(D) - 1
      BY <2>1, <2>2, Counting
    <3>3. Cardinality(K' \cap is_dirty') \in Nat
      BY <2>2, <2>3, Counting
    <3> QED
      BY <2>4, <3>1, <3>2, <3>3
  <2>7. /\ Cardinality(K' \ image_up_to_date') =
             IF c \in image_up_to_date THEN nunser_children[p]
             ELSE nunser_children[p] - 1
        /\ Cardinality(K' \ image_up_to_date') \in Nat
    <3> DEFINE N == K \ image_up_to_date
    <3>1. K' \ image_up_to_date' = IF c \in image_up_to_date THEN N
                                   ELSE N \ {c}
      BY <2>1, <2>3
    <3>2. c \notin image_up_to_date =>
            Cardinality(N \ {c}) = Cardinality(N) - 1
      BY <2>1, <2>2, Counting
    <3>3. Cardinality(K' \ image_up_to_date') \in Nat
      BY <2>2, <2>3, Counting
    <3> QED
      BY <2>4, <3>1, <3>2, <3>3
  <2>8. /\ nchildren' = [nchildren EXCEPT ![p] = @ - 1]
        /\ ndirty_children' = IF c \in is_dirty
                              THEN [ndirty_children EXCEPT ![p] = @ - 1]
                              ELSE ndirty_children
        /\ nunser_children' = IF c \in image_up_to_date THEN nunser_children
                              ELSE [nunser_children EXCEPT ![p] = @ - 1]
    BY <1>9 DEF destroy_flush_dependency
  <2>9. CountTypes'
    BY <1>1, <2>5, <2>6, <2>7, <2>8
  <2>10. NC'
    BY <1>1, <2>1, <2>5, <2>8 DEF NC, K
  <2>11. ND'
    BY <1>1, <2>1, <2>3, <2>6, <2>8 DEF ND, K
  <2>12. NU'
    BY <1>1, <2>1, <2>3, <2>7, <2>8 DEF NU, K
  <2> QED
    BY <2>9, <2>10, <2>11, <2>12
<1> QED
  BY <1>2, <1>5, <1>6, <1>7, <1>8, <1>9, SortSteps DEF DependencyStep

\* Every operation keeps the types; counters stay above zero as they are exact.
LEMMA TypeStep ==
  ASSUME IInv, Next
  PROVE  TypeOK'
<1>1. TypeOK /\ CountTypes'
  BY CountsStep DEF IInv
<1>2. 1 \in 0..MaxRO /\ 0 \in 0..MaxRO
  BY MaxROAssumption
<1>3. ASSUME NEW e \in Entry, HoldStep(e)
      PROVE  TypeOK'
  <2>1. ASSUME NEW pin \in BOOLEAN, insert_entry(e, pin)
        PROVE  TypeOK'
    BY <1>1, <2>1 DEF insert_entry, Nothing, protVars, depVars, TypeOK
  <2>2. ASSUME NEW ro \in BOOLEAN, NEW dirty \in BOOLEAN,
               protect(e, ro, dirty)
        PROVE  TypeOK'
    BY <1>1, <1>2, <2>2
       DEF protect, RP_for_protect, Nothing, pinVars, depVars, TypeOK
  <2>3. CASE protect_shared(e)
    <3>1. ro_ref_count' \in [Entry -> 0..MaxRO]
      BY <1>1, <2>3, MaxROAssumption DEF protect_shared, TypeOK
    <3> QED
      BY <1>1, <2>3, <3>1
         DEF protect_shared, Nothing, entryVars, pinVars, listVars, depVars,
             TypeOK
  <2>4. CASE pin_protected_entry(e)
    BY <1>1, <2>4 DEF pin_protected_entry, Nothing, entryVars, protVars,
                      listVars, depVars, TypeOK
  <2>5. CASE unpin_entry(e)
    BY <1>1, <2>5 DEF unpin_entry, Nothing, entryVars, protVars, depVars,
                      TypeOK
  <2>6. ASSUME NEW op \in {"none", "pin", "unpin"}, unprotect_shared(e, op)
        PROVE  TypeOK'
    <3>1. ro_ref_count' \in [Entry -> 0..MaxRO]
      BY <1>1, <2>6, MaxROAssumption DEF unprotect_shared, TypeOK
    <3> QED
      BY <1>1, <2>6, <3>1
         DEF unprotect_shared, PinFlags, NewPinned, Nothing, entryVars,
             listVars, depVars, TypeOK
  <2>7. ASSUME NEW op \in {"none", "pin", "unpin"}, NEW flagged \in BOOLEAN,
               unprotect(e, flagged, op)
        PROVE  TypeOK'
    <3>1. /\ is_dirty' \subseteq Entry
          /\ image_up_to_date' \subseteq Entry
          /\ unsaved' \subseteq Entry \ Proxy
      BY <1>1, <2>7 DEF unprotect, BecomeDirty, TypeOK
    <3>2. is_pinned' \subseteq Entry /\ pinned_from_client' \subseteq Entry
      BY <1>1, <2>7 DEF unprotect, PinFlags, NewPinned, TypeOK
    <3>3. ro_ref_count' \in [Entry -> 0..MaxRO]
      BY <1>1, <1>2, <2>7 DEF unprotect, TypeOK
    <3> QED
      BY <1>1, <2>7, <3>1, <3>2, <3>3
         DEF unprotect, Nothing, depVars, CountTypes, TypeOK
  <2> QED
    BY <1>3, <2>1, <2>2, <2>3, <2>4, <2>5, <2>6, <2>7 DEF HoldStep
<1>4. ASSUME NEW e \in Entry, ContentStep(e)
      PROVE  TypeOK'
  <2>1. /\ is_dirty' \subseteq Entry
        /\ dirtied' \subseteq Entry
        /\ image_up_to_date' \subseteq Entry
        /\ unsaved' \subseteq Entry \ Proxy
        /\ last' \in [wrote : SUBSET Entry]
    BY <1>1, <1>4
       DEF ContentStep, mark_protected_dirty, mark_pinned_dirty, resize_entry,
           move_entry, mark_entry_clean, mark_entry_unserialized,
           mark_entry_serialized, flush_in_ring, make_space_flush,
           flush_single_entry, serialize_single_entry, generate_image,
           BecomeDirty, Nothing, TypeOK
  <2> QED
    BY <1>1, <1>4, <2>1, ContentFrame DEF CountTypes, TypeOK
<1>5. ASSUME NEW e \in Entry, DestroyStep(e)
      PROVE  TypeOK'
  <2>1. Destroy(e)
    BY <1>5, DestroyFrame
  <2>2. /\ is_pinned' \subseteq Entry
        /\ pinned_from_cache' \subseteq Entry
        /\ LRU' \subseteq Entry
        /\ pel' \subseteq Entry
        /\ pl' \subseteq Entry
    BY <1>1, <2>1 DEF Destroy, LoseChild, Parents, TypeOK
  <2>3. ro_ref_count' \in [Entry -> 0..MaxRO]
    BY <1>1, <1>2, <2>1 DEF Destroy, TypeOK
  <2>4. last' \in [wrote : SUBSET Entry]
    BY <1>5 DEF DestroyStep, unprotect_deleted, evict, expunge_entry,
                remove_entry, Nothing
  <2> QED
    BY <1>1, <2>1, <2>2, <2>3, <2>4 DEF Destroy, CountTypes, TypeOK
<1>6. ASSUME NEW p \in Entry, NEW c \in Entry, create_flush_dependency(p, c)
      PROVE  TypeOK'
  BY <1>1, <1>6 DEF create_flush_dependency, Nothing, protVars, listVars,
                    CountTypes, TypeOK
<1>7. ASSUME NEW p \in Entry, NEW c \in Entry,
             destroy_flush_dependency(p, c)
      PROVE  TypeOK'
  <2>1. /\ is_pinned' \subseteq Entry
        /\ pinned_from_cache' \subseteq Entry
        /\ LRU' \subseteq Entry
        /\ pel' \subseteq Entry
        /\ pl' \subseteq Entry
    BY <1>1, <1>7 DEF destroy_flush_dependency, LoseChild, TypeOK
  <2> QED
    BY <1>1, <1>7, <2>1 DEF destroy_flush_dependency, Nothing, protVars,
                            CountTypes, TypeOK
<1> QED
  BY <1>3, <1>4, <1>5, <1>6, <1>7, SortSteps DEF DependencyStep

-----------------------------------------------------------------------------
(* The theorems.                                                           *)

\* The cache starts empty.
LEMMA InitLemma == Init => IInv /\ WriteOrder
<1> SUFFICES ASSUME Init PROVE IInv /\ WriteOrder
  OBVIOUS
<1>1. TypeOK
  BY MaxROAssumption DEF Init, Nothing, TypeOK
<1>2. \A p \in Entry : Children(p) = {}
  BY DEF Init, Children
<1>3. CountsAgree
  <2>1. Cardinality({}) = 0
    BY FS_EmptySet
  <2> QED
    BY <1>2, <2>1 DEF Init, CountsAgree
<1> QED
  BY <1>1, <1>2, <1>3
     DEF Init, Nothing, IInv, ListsAgree, PinsAgree, DependentsCached,
         NoLostUpdate, WriteOrder

\* The entry a step writes has no dirty child: the loops of the flush test
\* the counter, and entries that are evicted or on the LRU list are not
\* pinned and so have no children.
LEMMA WriteStep ==
  ASSUME IInv, Next
  PROVE  WriteOrder'
<1>1. ASSUME NEW e \in Entry, HoldStep(e)
      PROVE  WriteOrder'
  BY <1>1 DEF HoldStep, insert_entry, protect, protect_shared,
              pin_protected_entry, unpin_entry, unprotect_shared, unprotect,
              Nothing, WriteOrder
<1>2. ASSUME NEW e \in Entry, ContentStep(e)
      PROVE  WriteOrder'
  <2>1. CASE flush_in_ring(e) \/ make_space_flush(e)
    <3>1. Children(e) \cap is_dirty = {}
      <4>1. /\ Children(e) \in SUBSET Entry
            /\ Children(e) \cap is_dirty \in SUBSET Entry
        BY DEF Children
      <4>2. /\ nchildren[e] = Cardinality(Children(e))
            /\ ndirty_children[e] = Cardinality(Children(e) \cap is_dirty)
        BY DEF IInv, CountsAgree
      <4>3. CASE flush_in_ring(e)
        BY <4>1, <4>2, <4>3, Counting DEF flush_in_ring, MayFlush
      <4>4. CASE make_space_flush(e)
        BY <4>4 DEF make_space_flush, IInv, ListsAgree, PinsAgree
      <4> QED
        BY <2>1, <4>3, <4>4
    <3>2. /\ last'.wrote = {e}
          /\ is_dirty' = is_dirty \ {e}
          /\ Children(e)' = Children(e)
      BY <2>1 DEF flush_in_ring, make_space_flush, flush_single_entry,
                  Children, depVars
    <3> QED
      BY <3>1, <3>2 DEF WriteOrder
  <2>2. CASE ~(flush_in_ring(e) \/ make_space_flush(e))
    BY <1>2, <2>2 DEF ContentStep, mark_protected_dirty, mark_pinned_dirty,
                      resize_entry, move_entry, mark_entry_clean,
                      mark_entry_unserialized, mark_entry_serialized,
                      serialize_single_entry, Nothing, WriteOrder
  <2> QED
    BY <2>1, <2>2
<1>3. ASSUME NEW e \in Entry, DestroyStep(e)
      PROVE  WriteOrder'
  <2>1. Children(e) = {} /\ Destroy(e)
    BY <1>3, DestroyFrame
  <2>2. Children(e)' = {}
    BY <2>1 DEF Children, Destroy
  <2>3. last'.wrote \subseteq {e}
    BY <1>3 DEF DestroyStep, unprotect_deleted, evict, expunge_entry,
                remove_entry, Nothing
  <2> QED
    BY <2>2, <2>3 DEF WriteOrder
<1>4. ASSUME NEW p \in Entry, NEW c \in Entry, DependencyStep(p, c)
      PROVE  WriteOrder'
  BY <1>4 DEF DependencyStep, create_flush_dependency,
              destroy_flush_dependency, Nothing, WriteOrder
<1> QED
  BY <1>1, <1>2, <1>3, <1>4, SortSteps

\* IInv is an invariant, and every write it allows is in order.
THEOREM Inductive == Spec => [](IInv /\ WriteOrder)
<1>1. Init => IInv /\ WriteOrder
  BY InitLemma
<1>2. (IInv /\ WriteOrder) /\ [Next]_vars => (IInv /\ WriteOrder)'
  <2> SUFFICES ASSUME IInv, WriteOrder, [Next]_vars
               PROVE  (IInv /\ WriteOrder)'
    OBVIOUS
  <2>1. CASE Next
    BY <2>1, TypeStep, ListsStep, PinsStep, CountsStep, DependentsStep,
       UpdateStep, WriteStep DEF IInv
  <2>2. CASE UNCHANGED vars
    BY <2>2 DEF vars, entryVars, protVars, pinVars, listVars, depVars, IInv,
                TypeOK, ListsAgree, PinsAgree, CountsAgree, Children,
                DependentsCached, NoLostUpdate, WriteOrder
  <2> QED
    BY <2>1, <2>2
<1> QED
  BY <1>1, <1>2, PTL DEF Spec

\* Every operation of the metadata cache keeps its state well-typed; in
\* particular no counter of a parent ever goes below zero.
THEOREM TypeCorrect == Spec => []TypeOK
<1>1. IInv => TypeOK
  BY DEF IInv
<1> QED
  BY <1>1, Inductive, PTL

\* The replacement policy macros of H5Cpkg.h always find an entry on the list
\* they unlink it from.
THEOREM ListsAgreeHolds == Spec => []ListsAgree
<1>1. IInv => ListsAgree
  BY DEF IInv
<1> QED
  BY <1>1, Inductive, PTL

\* H5C__unpin_entry_real runs exactly when neither the client nor a flush
\* dependency child needs the entry any more.
THEOREM PinsAgreeHolds == Spec => []PinsAgree
<1>1. IInv => PinsAgree
  BY DEF IInv
<1> QED
  BY <1>1, Inductive, PTL

\* The counters of flush dependency children, which every operation updates
\* by walking the parents of one entry, are always the true counts.
THEOREM CountsAgreeHolds == Spec => []CountsAgree
<1>1. IInv => CountsAgree
  BY DEF IInv
<1> QED
  BY <1>1, Inductive, PTL

\* What the operations keep redundantly - lists, pins and counters - never
\* contradicts itself.
THEOREM ConsistentHolds == Spec => []Consistent
<1>1. IInv => Consistent
  BY DEF IInv, Consistent
<1> QED
  BY <1>1, Inductive, PTL

\* No eviction, expunge, removal or deletion frees an entry that a flush
\* dependency still points to.
THEOREM DependentsCachedHolds == Spec => []DependentsCached
<1>1. IInv => DependentsCached
  BY DEF IInv
<1> QED
  BY <1>1, Inductive, PTL

\* New content is never dropped: it stays on a dirty entry, or on one that
\* H5C_unprotect will make dirty, until it is written or deleted.
THEOREM NoLostUpdateHolds == Spec => []NoLostUpdate
<1>1. IInv => NoLostUpdate
  BY DEF IInv
<1> QED
  BY <1>1, Inductive, PTL

\* The ordering flush dependencies promise: no entry is written while one of
\* its children is dirty, whichever loop of the cache writes it.
THEOREM WriteOrderHolds == Spec => []WriteOrder
BY Inductive, PTL
=============================================================================
