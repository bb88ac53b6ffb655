------------------------------ MODULE MetaCache ------------------------------
(***************************************************************************)
(* The entries of the metadata cache (src/src/H5Centry.c and the macros of *)
(* H5Cpkg.h): protection, pinning, the three lists of the replacement      *)
(* policy, the dirty and image flags, and the flush dependencies that make *)
(* a parent wait for its children.                                         *)
(*                                                                         *)
(* The cache runs under one lock, so each operation is one step.  The      *)
(* loops that flush the cache (H5C__flush_ring, H5C__flush_invalidate_ring,*)
(* H5C__make_space_in_cache, H5C__serialize_ring) appear as the steps they *)
(* take on single entries, each under the test the loop applies; client    *)
(* callbacks run between those steps, so any operation may come between.   *)
(* Flag fields of entries are the sets of the entries that have them.      *)
(* Sizes, rings, tags and addresses are in other modules of the project.   *)
(***************************************************************************)
EXTENDS Integers, FiniteSets

CONSTANTS Entry,    \* the metadata objects that can be cached
          Proxy,    \* those that are proxies (H5ACproxy_entry.c): no content
          MayDepend,\* pairs <<parent, child>> the client ever relates
          MaxRO     \* bound on ro_ref_count

ASSUME EntryAssumption == IsFiniteSet(Entry)
ASSUME ProxyAssumption == Proxy \subseteq Entry
ASSUME DependAssumption ==
  /\ MayDepend \subseteq Entry \X Entry
  /\ \A e \in Entry : <<e, e>> \notin MayDepend
ASSUME MaxROAssumption == MaxRO \in Nat \ {0}

VARIABLES
  index,                \* entries in the hash table
  is_dirty, dirtied, image_up_to_date,
  is_protected, is_read_only, ro_ref_count,
  is_pinned, pinned_from_client, pinned_from_cache,
  LRU, pel, pl,         \* the LRU, pinned and protected entry lists
  flush_dep,            \* pairs <<parent, child>>: the flush_dep_parent arrays
  nchildren, ndirty_children, nunser_children,
  unsaved,              \* auxiliary: content the file does not have yet
  last                  \* auxiliary: what the last step wrote

entryVars == <<is_dirty, dirtied, image_up_to_date, ndirty_children,
               nunser_children, unsaved>>
protVars  == <<is_protected, is_read_only, ro_ref_count>>
pinVars   == <<is_pinned, pinned_from_client, pinned_from_cache>>
listVars  == <<LRU, pel, pl>>
depVars   == <<flush_dep, nchildren>>
vars == <<index, entryVars, protVars, pinVars, listVars, depVars, last>>

Parents(e) == {p \in Entry : <<p, e>> \in flush_dep}
Children(p) == {c \in Entry : <<p, c>> \in flush_dep}

\* The cache's fields keep their types: no counter of a flush dependency
\* parent, decremented by a dozen operations, goes below zero.
TypeOK ==
  /\ index \subseteq Entry
  /\ is_dirty \subseteq Entry
  /\ dirtied \subseteq Entry
  /\ image_up_to_date \subseteq Entry
  /\ is_protected \subseteq Entry
  /\ is_read_only \subseteq Entry
  /\ ro_ref_count \in [Entry -> 0..MaxRO]
  /\ is_pinned \subseteq Entry
  /\ pinned_from_client \subseteq Entry
  /\ pinned_from_cache \subseteq Entry
  /\ LRU \subseteq Entry
  /\ pel \subseteq Entry
  /\ pl \subseteq Entry
  /\ flush_dep \subseteq MayDepend
  /\ nchildren \in [Entry -> Nat]
  /\ ndirty_children \in [Entry -> Nat]
  /\ nunser_children \in [Entry -> Nat]
  /\ unsaved \subseteq Entry \ Proxy
  /\ last \in [wrote : SUBSET Entry]

Nothing == [wrote |-> {}]

Init ==
  /\ index = {}
  /\ is_dirty = {} /\ dirtied = {} /\ image_up_to_date = {}
  /\ is_protected = {} /\ is_read_only = {}
  /\ ro_ref_count = [e \in Entry |-> 0]
  /\ is_pinned = {} /\ pinned_from_client = {} /\ pinned_from_cache = {}
  /\ LRU = {} /\ pel = {} /\ pl = {}
  /\ flush_dep = {}
  /\ nchildren = [e \in Entry |-> 0]
  /\ ndirty_children = [e \in Entry |-> 0]
  /\ nunser_children = [e \in Entry |-> 0]
  /\ unsaved = {}
  /\ last = Nothing

-----------------------------------------------------------------------------
(* What the flags of an entry do to its parents' counts.                   *)

Bump(count, e, by) ==
  [p \in Entry |-> IF p \in Parents(e) THEN count[p] + by ELSE count[p]]

\* Mutant: the parents are told again when the entry was dirty already.
mark_flush_dep_dirty_again(e) ==
  ndirty_children' = Bump(ndirty_children, e, 1)

\* H5C__mark_flush_dep_dirty, called when e was clean
mark_flush_dep_dirty(e) ==
  ndirty_children' = IF e \in is_dirty THEN ndirty_children
                     ELSE Bump(ndirty_children, e, 1)

\* H5C__mark_flush_dep_clean, called when e was dirty
mark_flush_dep_clean(e) ==
  ndirty_children' = IF e \in is_dirty THEN Bump(ndirty_children, e, -1)
                     ELSE ndirty_children

mark_flush_dep_unserialized(e) ==
  nunser_children' = IF e \in image_up_to_date
                     THEN Bump(nunser_children, e, 1) ELSE nunser_children

mark_flush_dep_serialized(e) ==
  nunser_children' = IF e \in image_up_to_date THEN nunser_children
                     ELSE Bump(nunser_children, e, -1)

\* e gets new content: dirty, and its image out of date.
BecomeDirty(e) ==
  /\ is_dirty' = is_dirty \cup {e}
  /\ mark_flush_dep_dirty(e)
  /\ image_up_to_date' = image_up_to_date \ {e}
  /\ mark_flush_dep_unserialized(e)
  /\ unsaved' = unsaved \cup ({e} \ Proxy)

-----------------------------------------------------------------------------
(* Insertion, protection, pinning.                                         *)

\* H5C_insert_entry.
insert_entry(e, pin) ==
  /\ e \notin index
  /\ index' = index \cup {e}
  /\ is_dirty' = is_dirty \cup {e}
  /\ unsaved' = unsaved \cup ({e} \ Proxy)
  /\ is_pinned' = IF pin THEN is_pinned \cup {e} ELSE is_pinned
  /\ pinned_from_client' = IF pin THEN pinned_from_client \cup {e}
                           ELSE pinned_from_client
  /\ pel' = IF pin THEN pel \cup {e} ELSE pel
  /\ LRU' = IF pin THEN LRU ELSE LRU \cup {e}
  /\ last' = Nothing
  /\ UNCHANGED <<dirtied, image_up_to_date, ndirty_children, nunser_children,
                 protVars, pinned_from_cache, pl, depVars>>

\* H5C__UPDATE_RP_FOR_PROTECT after H5C__UPDATE_RP_FOR_INSERTION of a new e
RP_for_protect(e) ==
  /\ pel' = IF e \in is_pinned THEN pel \ {e} ELSE pel
  /\ LRU' = IF e \in is_pinned THEN LRU ELSE LRU \ {e}
  /\ pl' = pl \cup {e}

\* H5C_protect of an entry that nobody has protected.  On a miss the entry
\* is loaded first; deserialization may leave it dirty.
protect(e, read_only, dirty) ==
  /\ e \notin is_protected
  /\ e \in index => ~dirty
  /\ index' = index \cup {e}
  /\ is_dirty' = IF dirty THEN is_dirty \cup {e} ELSE is_dirty
  /\ unsaved' = IF dirty THEN unsaved \cup ({e} \ Proxy) ELSE unsaved
  /\ image_up_to_date' = IF e \notin index /\ ~dirty
                         THEN image_up_to_date \cup {e} ELSE image_up_to_date
  /\ RP_for_protect(e)
  /\ is_protected' = is_protected \cup {e}
  /\ is_read_only' = IF read_only THEN is_read_only \cup {e} ELSE is_read_only
  /\ ro_ref_count' = IF read_only THEN [ro_ref_count EXCEPT ![e] = 1]
                     ELSE ro_ref_count
  /\ dirtied' = dirtied \ {e}
  /\ last' = Nothing
  /\ UNCHANGED <<ndirty_children, nunser_children, pinVars, depVars>>

\* H5C_protect of an entry already protected: readers share it.
protect_shared(e) ==
  /\ e \in is_protected /\ e \in is_read_only
  /\ ro_ref_count[e] < MaxRO
  /\ ro_ref_count' = [ro_ref_count EXCEPT ![e] = @ + 1]
  /\ last' = Nothing
  /\ UNCHANGED <<index, entryVars, is_protected, is_read_only, pinVars,
                 listVars, depVars>>

\* H5C_pin_protected_entry
pin_protected_entry(e) ==
  /\ e \in is_protected /\ e \notin pinned_from_client
  /\ is_pinned' = is_pinned \cup {e}
  /\ pinned_from_client' = pinned_from_client \cup {e}
  /\ last' = Nothing
  /\ UNCHANGED <<index, entryVars, protVars, pinned_from_cache, listVars,
                 depVars>>

\* H5C_unpin_entry: a pin for flush dependencies outlives the client's.
unpin_entry(e) ==
  /\ e \in is_pinned /\ e \in pinned_from_client
  /\ pinned_from_client' = pinned_from_client \ {e}
  /\ is_pinned' = IF e \in pinned_from_cache THEN is_pinned
                  ELSE is_pinned \ {e}
  /\ LET update == e \notin pinned_from_cache /\ e \notin is_protected
     IN  /\ pel' = IF update THEN pel \ {e} ELSE pel
         /\ LRU' = IF update THEN LRU \cup {e} ELSE LRU
  /\ last' = Nothing
  /\ UNCHANGED <<index, entryVars, protVars, pinned_from_cache, pl, depVars>>

\* The pins H5C_unprotect takes or gives up, as its flags ask.
NewPinned(e, op) ==
  IF op = "pin" THEN is_pinned \cup {e}
  ELSE IF op = "unpin" /\ e \notin pinned_from_cache THEN is_pinned \ {e}
  ELSE is_pinned

PinFlags(e, op) ==
  /\ op = "pin" => e \notin pinned_from_client
  /\ op = "unpin" => e \in pinned_from_client
  /\ is_pinned' = NewPinned(e, op)
  /\ pinned_from_client' = IF op = "pin" THEN pinned_from_client \cup {e}
                           ELSE IF op = "unpin" THEN pinned_from_client \ {e}
                           ELSE pinned_from_client

\* H5C_unprotect by one reader of several.
unprotect_shared(e, op) ==
  /\ e \in is_protected /\ ro_ref_count[e] > 1
  /\ ro_ref_count' = [ro_ref_count EXCEPT ![e] = @ - 1]
  /\ PinFlags(e, op)
  /\ last' = Nothing
  /\ UNCHANGED <<index, entryVars, is_protected, is_read_only,
                 pinned_from_cache, listVars, depVars>>

\* Mutant: what H5C_mark_entry_dirty noted while protected is not applied.
unprotect_flag_only(e, flagged, op) ==
  /\ e \in is_protected /\ ro_ref_count[e] <= 1
  /\ e \in is_read_only => ~flagged
  /\ IF flagged THEN BecomeDirty(e)
     ELSE UNCHANGED <<is_dirty, image_up_to_date, ndirty_children,
                      nunser_children, unsaved>>
  /\ is_read_only' = is_read_only \ {e}
  /\ ro_ref_count' = [ro_ref_count EXCEPT ![e] = 0]
  /\ PinFlags(e, op)
  /\ pl' = pl \ {e}
  /\ pel' = IF e \in NewPinned(e, op) THEN pel \cup {e} ELSE pel
  /\ LRU' = IF e \in NewPinned(e, op) THEN LRU ELSE LRU \cup {e}
  /\ is_protected' = is_protected \ {e}
  /\ last' = Nothing
  /\ UNCHANGED <<index, dirtied, pinned_from_cache, depVars>>

\* H5C_unprotect by the last holder; flagged tells H5C__DIRTIED_FLAG.
unprotect(e, flagged, op) ==
  LET dirty == flagged \/ e \in dirtied IN
  /\ e \in is_protected /\ ro_ref_count[e] <= 1
  /\ e \in is_read_only => ~dirty
  /\ IF dirty THEN BecomeDirty(e)
     ELSE UNCHANGED <<is_dirty, image_up_to_date, ndirty_children,
                      nunser_children, unsaved>>
  /\ is_read_only' = is_read_only \ {e}
  /\ ro_ref_count' = [ro_ref_count EXCEPT ![e] = 0]
  /\ PinFlags(e, op)
  /\ pl' = pl \ {e}
  /\ pel' = IF e \in NewPinned(e, op) THEN pel \cup {e} ELSE pel
  /\ LRU' = IF e \in NewPinned(e, op) THEN LRU ELSE LRU \cup {e}
  /\ is_protected' = is_protected \ {e}
  /\ last' = Nothing
  /\ UNCHANGED <<index, dirtied, pinned_from_cache, depVars>>

-----------------------------------------------------------------------------
(* Dirtying and cleaning.                                                  *)

\* H5C_mark_entry_dirty of a protected entry: noted, applied by unprotect.
mark_protected_dirty(e) ==
  /\ e \in is_protected /\ e \notin is_read_only
  /\ dirtied' = dirtied \cup {e}
  /\ image_up_to_date' = image_up_to_date \ {e}
  /\ mark_flush_dep_unserialized(e)
  /\ unsaved' = unsaved \cup ({e} \ Proxy)
  /\ last' = Nothing
  /\ UNCHANGED <<index, is_dirty, ndirty_children, protVars, pinVars,
                 listVars, depVars>>

\* H5C_mark_entry_dirty of a pinned entry that is not protected.
mark_pinned_dirty(e) ==
  /\ e \notin is_protected /\ e \in is_pinned
  /\ BecomeDirty(e)
  /\ last' = Nothing
  /\ UNCHANGED <<index, dirtied, protVars, pinVars, listVars, depVars>>

\* H5C_resize_entry to another size.  Unlike H5C_mark_entry_dirty it makes
\* even a protected entry dirty at once.
resize_entry(e) ==
  /\ e \in is_pinned \cup is_protected
  /\ BecomeDirty(e)
  /\ last' = Nothing
  /\ UNCHANGED <<index, dirtied, protVars, pinVars, listVars, depVars>>

\* H5C_move_entry: the entry is dirty at its new address.
move_entry(e) ==
  /\ e \in index /\ e \notin is_read_only
  /\ BecomeDirty(e)
  /\ last' = Nothing
  /\ UNCHANGED <<index, dirtied, protVars, pinVars, listVars, depVars>>

\* H5C_mark_entry_clean, which only proxies call on themselves.
mark_entry_clean(e) ==
  /\ e \in Proxy /\ e \in is_pinned /\ e \notin is_protected
  /\ is_dirty' = is_dirty \ {e}
  /\ mark_flush_dep_clean(e)
  /\ last' = Nothing
  /\ UNCHANGED <<index, dirtied, image_up_to_date, nunser_children, unsaved,
                 protVars, pinVars, listVars, depVars>>

\* H5C_mark_entry_unserialized, which only proxies call on themselves.
mark_entry_unserialized(e) ==
  /\ e \in Proxy /\ e \in is_pinned \cup is_protected
  /\ image_up_to_date' = image_up_to_date \ {e}
  /\ mark_flush_dep_unserialized(e)
  /\ last' = Nothing
  /\ UNCHANGED <<index, is_dirty, dirtied, ndirty_children, unsaved,
                 protVars, pinVars, listVars, depVars>>

\* H5C_mark_entry_serialized, which only proxies call on themselves.
mark_entry_serialized(e) ==
  /\ e \in Proxy /\ e \in is_pinned /\ e \notin is_protected
  /\ image_up_to_date' = image_up_to_date \cup {e}
  /\ mark_flush_dep_serialized(e)
  /\ last' = Nothing
  /\ UNCHANGED <<index, is_dirty, dirtied, ndirty_children, unsaved,
                 protVars, pinVars, listVars, depVars>>

-----------------------------------------------------------------------------
(* Flush dependencies.                                                     *)

\* H5C_create_flush_dependency: the parent is pinned for as long as it has
\* children.
create_flush_dependency(p, c) ==
  /\ <<p, c>> \in MayDepend \ flush_dep
  /\ p \in index /\ c \in index
  /\ p \in is_protected \cup is_pinned
  /\ flush_dep' = flush_dep \cup {<<p, c>>}
  /\ nchildren' = [nchildren EXCEPT ![p] = @ + 1]
  /\ ndirty_children' = IF c \in is_dirty
                        THEN [ndirty_children EXCEPT ![p] = @ + 1]
                        ELSE ndirty_children
  /\ nunser_children' = IF c \in image_up_to_date THEN nunser_children
                        ELSE [nunser_children EXCEPT ![p] = @ + 1]
  /\ is_pinned' = is_pinned \cup {p}
  /\ pinned_from_cache' = pinned_from_cache \cup {p}
  /\ last' = Nothing
  /\ UNCHANGED <<index, is_dirty, dirtied, image_up_to_date, unsaved,
                 protVars, pinned_from_client, listVars>>

\* Parents in the set ps lose a child; the ones that lose their last child,
\* and are not pinned by the client, are unpinned (H5C__unpin_entry_real).
\* gone is the entry this removes from the LRU and protected lists as well.
LoseChild(ps, gone) ==
  LET childless == {p \in ps : nchildren[p] = 1}
      unpinned  == childless \ pinned_from_client
      moved     == unpinned \ is_protected
  IN  /\ pinned_from_cache' = pinned_from_cache \ childless
      /\ is_pinned' = is_pinned \ (unpinned \cup gone)
      /\ pel' = pel \ moved
      /\ LRU' = (LRU \cup moved) \ gone
      /\ pl' = pl \ gone

\* H5C_destroy_flush_dependency.
destroy_flush_dependency(p, c) ==
  /\ <<p, c>> \in flush_dep /\ p \in is_pinned
  /\ flush_dep' = flush_dep \ {<<p, c>>}
  /\ nchildren' = [nchildren EXCEPT ![p] = @ - 1]
  /\ ndirty_children' = IF c \in is_dirty
                        THEN [ndirty_children EXCEPT ![p] = @ - 1]
                        ELSE ndirty_children
  /\ nunser_children' = IF c \in image_up_to_date THEN nunser_children
                        ELSE [nunser_children EXCEPT ![p] = @ - 1]
  /\ LoseChild({p}, {})
  /\ last' = Nothing
  /\ UNCHANGED <<index, is_dirty, dirtied, image_up_to_date, unsaved,
                 protVars, pinned_from_client>>

-----------------------------------------------------------------------------
(* Flushing, evicting and deleting single entries.                         *)

\* H5C__generate_image: what e's image does to its parents' counts.
generate_image(e) ==
  /\ image_up_to_date' = image_up_to_date \cup {e}
  /\ mark_flush_dep_serialized(e)

\* H5C__flush_single_entry without H5C__FLUSH_INVALIDATE_FLAG.  A proxy is
\* clean by the time its children are (H5AC__proxy_entry_notify), so it is
\* never flushed.
flush_single_entry(e) ==
  /\ e \in index \ Proxy /\ e \in is_dirty /\ e \notin is_protected
  /\ generate_image(e)
  /\ is_dirty' = is_dirty \ {e}
  /\ mark_flush_dep_clean(e)
  /\ unsaved' = unsaved \ {e}
  /\ last' = [wrote |-> {e}]
  /\ UNCHANGED <<index, dirtied, protVars, pinVars, listVars, depVars>>

\* Mutant: the wrong counter is consulted.
MayFlush_unser(e) == nchildren[e] = 0 \/ nunser_children[e] = 0

\* The test of H5C__flush_ring, and of H5C__flush_invalidate_ring for an
\* entry that is pinned.
MayFlush(e) == nchildren[e] = 0 \/ ndirty_children[e] = 0

flush_in_ring(e) == MayFlush(e) /\ flush_single_entry(e)

\* H5C__make_space_in_cache writes dirty entries of the LRU list only.
make_space_flush(e) == e \in LRU /\ flush_single_entry(e)

\* H5C__serialize_ring and H5C__serialize_single_entry.
serialize_single_entry(e) ==
  /\ e \in index \ Proxy /\ e \notin image_up_to_date
  /\ nunser_children[e] = 0
  /\ e \in is_dirty /\ e \notin is_protected
  /\ generate_image(e)
  /\ last' = Nothing
  /\ UNCHANGED <<index, is_dirty, dirtied, ndirty_children, unsaved,
                 protVars, pinVars, listVars, depVars>>

\* H5C__flush_single_entry with H5C__FLUSH_INVALIDATE_FLAG: the client's
\* BEFORE_EVICT callback takes e from its parents, then e is removed from
\* the index and the lists, and freed.
Destroy(e) ==
  /\ index' = index \ {e}
  /\ is_dirty' = is_dirty \ {e}
  /\ dirtied' = dirtied \ {e}
  /\ image_up_to_date' = image_up_to_date \ {e}
  /\ unsaved' = unsaved \ {e}
  /\ flush_dep' = {d \in flush_dep : d[2] # e}
  /\ nchildren' = Bump(nchildren, e, -1)
  /\ ndirty_children' = IF e \in is_dirty THEN Bump(ndirty_children, e, -1)
                        ELSE ndirty_children
  /\ nunser_children' = IF e \in image_up_to_date THEN nunser_children
                        ELSE Bump(nunser_children, e, -1)
  /\ LoseChild(Parents(e), {e})
  /\ pinned_from_client' = pinned_from_client \ {e}
  /\ is_protected' = is_protected \ {e}
  /\ is_read_only' = is_read_only \ {e}
  /\ ro_ref_count' = [ro_ref_count EXCEPT ![e] = 0]

\* Mutant: only the client's pins keep an entry in the cache.
evict_cache_pinned(e) ==
  /\ e \in index \ Proxy
  /\ e \notin is_protected /\ e \notin pinned_from_client
  /\ Destroy(e)
  /\ last' = IF e \in is_dirty THEN [wrote |-> {e}] ELSE Nothing

\* Eviction by H5C__make_space_in_cache, H5C__flush_invalidate_ring or
\* H5C_evict_tagged_entries: a dirty entry is written first.
evict(e) ==
  /\ e \in index \ Proxy
  /\ e \notin is_protected /\ e \notin is_pinned
  /\ Destroy(e)
  /\ last' = IF e \in is_dirty THEN [wrote |-> {e}] ELSE Nothing

\* H5C_expunge_entry: the object is deleted, nothing is written.
expunge_entry(e) ==
  /\ e \in index /\ e \notin is_protected /\ e \notin is_pinned
  /\ Destroy(e)
  /\ last' = Nothing

\* H5C_unprotect with H5C__DELETED_FLAG by the last holder.
unprotect_deleted(e, op) ==
  /\ e \in is_protected /\ ro_ref_count[e] <= 1
  /\ op = "unpin" => e \in pinned_from_client
  /\ e \notin NewPinned(e, op)
  /\ Destroy(e)
  /\ last' = Nothing

\* H5C_remove_entry: the client takes the entry back.
remove_entry(e) ==
  /\ e \in index /\ e \notin is_dirty
  /\ e \notin is_protected /\ e \notin is_pinned
  /\ Parents(e) = {} /\ nchildren[e] = 0
  /\ Destroy(e)
  /\ last' = Nothing

-----------------------------------------------------------------------------

EntryStep(e) ==
  \/ \E pin \in BOOLEAN : insert_entry(e, pin)
  \/ \E ro, dirty \in BOOLEAN : protect(e, ro, dirty)
  \/ protect_shared(e)
  \/ pin_protected_entry(e)
  \/ unpin_entry(e)
  \/ \E op \in {"none", "pin", "unpin"} :
       \/ unprotect_shared(e, op)
       \/ \E flagged \in BOOLEAN : unprotect(e, flagged, op)
  \/ \E op \in {"none", "unpin"} : unprotect_deleted(e, op)
  \/ mark_protected_dirty(e)
  \/ mark_pinned_dirty(e)
  \/ resize_entry(e)
  \/ move_entry(e)
  \/ mark_entry_clean(e)
  \/ mark_entry_unserialized(e)
  \/ mark_entry_serialized(e)

FlushStep(e) ==
  \/ flush_in_ring(e)
  \/ make_space_flush(e)
  \/ serialize_single_entry(e)
  \/ evict(e)
  \/ expunge_entry(e)
  \/ remove_entry(e)

DependencyStep(p, c) ==
  \/ create_flush_dependency(p, c)
  \/ destroy_flush_dependency(p, c)

Next ==
  \/ \E e \in Entry : EntryStep(e) \/ FlushStep(e)
  \/ \E p, c \in Entry : DependencyStep(p, c)

Spec == Init /\ [][Next]_vars

-----------------------------------------------------------------------------
(* Properties.                                                             *)

\* Every cached entry is on exactly one list, and on the one its flags name:
\* the replacement policy macros pick the list they unlink an entry from by
\* its flags alone.
ListsAgree ==
  /\ pl = is_protected
  /\ pel = is_pinned \ is_protected
  /\ LRU = index \ (is_pinned \cup is_protected)
  /\ is_pinned \cup is_protected \subseteq index

\* An entry is pinned exactly while the client or some child needs it.
PinsAgree ==
  /\ is_pinned = pinned_from_client \cup pinned_from_cache
  /\ \A p \in Entry : p \in pinned_from_cache <=> Children(p) # {}

\* The counters a parent keeps are the numbers of its children, of its dirty
\* children and of its children without a current image.
CountsAgree ==
  \A p \in Entry :
    /\ nchildren[p] = Cardinality(Children(p))
    /\ ndirty_children[p] = Cardinality(Children(p) \cap is_dirty)
    /\ nunser_children[p] = Cardinality(Children(p) \ image_up_to_date)

\* The redundant state of the cache agrees with itself after any sequence of
\* operations: each entry is on the list its flags name, its pins are those
\* of the client and its children, and its counters are exact.
Consistent == ListsAgree /\ PinsAgree /\ CountsAgree

\* Both ends of a flush dependency stay cached: no eviction, expunge or
\* deletion leaves a pointer to a freed entry behind.
DependentsCached == flush_dep \subseteq index \X index

\* The order SWMR readers rely on: an entry is written only when none of its
\* flush dependency children is dirty.
WriteOrder ==
  \A e \in last.wrote : Children(e) \cap is_dirty = {}

\* No update is forgotten: content the file does not have belongs to a cached
\* entry that is dirty, or protected and noted to become dirty.
NoLostUpdate ==
  /\ unsaved \subseteq index
  /\ unsaved \subseteq is_dirty \cup (dirtied \cap is_protected)

=============================================================================
