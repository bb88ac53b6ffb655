------------------------------ MODULE CacheFlush ------------------------------
(***************************************************************************)
(* Flushing the metadata cache: H5C_flush_cache and H5C__flush_ring (ring  *)
(* by ring, pass after pass over the skip list of dirty entries), under    *)
(* its two callers, H5F__flush_phase2 for a whole file and                 *)
(* H5C_flush_tagged_entries for one object.                                *)
(*                                                                         *)
(* While an entry is flushed, client callbacks run: they dirty, insert,    *)
(* load or move other entries, and make space by writing and evicting      *)
(* entries of the LRU list.  The scan holds a pointer to the next node of  *)
(* the skip list across them.                                              *)
(*                                                                         *)
(* Entries are taken in any order where the code takes them by address.    *)
(* Flush dependencies and pins do not change here (MetaCache has that),    *)
(* and the counters of dirty children are the counts MetaCache proves.     *)
(***************************************************************************)
EXTENDS Integers, FiniteSets

CONSTANTS Entry,        \* the metadata objects that can be cached
          Ring,         \* the ring of each entry, 1 is the outermost
          NRing,        \* H5C_RING_SB, the innermost ring
          Depend,       \* flush dependencies <<parent, child>>
          Proxy,        \* entries of H5ACproxy_entry.c
          Last,         \* entries with flush_me_last
          Tagged,       \* the entries with the tag of one object
          Held,         \* the entries clients keep protected between calls
          NoEntry,      \* the NULL pointer
          MaxCallbacks  \* bound on what callbacks do in one flush

ASSUME EntryAssumption == IsFiniteSet(Entry) /\ NoEntry \notin Entry
ASSUME RingAssumption == NRing \in Nat \ {0} /\ Ring \in [Entry -> 1..NRing]
ASSUME SetsAssumption ==
  /\ Proxy \subseteq Entry /\ Last \subseteq Entry
  /\ Tagged \subseteq Entry /\ Held \subseteq Entry \ Proxy
\* Dependencies order flushes within a ring and relate entries of one
\* object; a proxy is untagged and is no child of a proxy.
ASSUME DependAssumption ==
  /\ Depend \subseteq Entry \X Entry
  /\ \A d \in Depend :
       /\ d[1] # d[2] /\ Ring[d[1]] = Ring[d[2]]
       /\ d[1] \in Tagged => d[2] \in Tagged \cup Proxy
       /\ d[2] \in Tagged => d[1] \in Tagged \cup Proxy
       /\ d[1] \in Proxy => d[2] \notin Proxy
\* H5C_create_flush_dependency asserts that there are no cycles: in any set of
\* entries one has no child among them.
ASSUME AcyclicAssumption ==
  \A S \in SUBSET Entry : S # {} => \E e \in S : \A c \in S : <<e, c>> \notin Depend
\* The superblock and the driver information, in the innermost ring and free
\* of flush dependencies (H5Fsuper.c)
ASSUME LastAssumption ==
  /\ \A e \in Last : Ring[e] = NRing
  /\ \A d \in Depend : d[1] \notin Last /\ d[2] \notin Last
ASSUME MaxCallbacksAssumption == MaxCallbacks \in Nat

VARIABLES
  index, dirty, is_protected,
  slist, slist_enabled, slist_changed,
  populated,          \* auxiliary: slist was enabled with every dirty entry
  call, failed,       \* the call in progress and its ret_value
  ring, pc,
  cur,                \* the entry in H5C__flush_single_entry
  node, visited,      \* the scan's next node, and what lies behind it
  flushed_entries_last_pass, tried_to_flush_protected_entry,
  flush_ok,           \* what H5C_flush_cache returned
  callbacks           \* what callbacks may still do in this call

slistVars == <<slist, slist_enabled, slist_changed, populated>>
scanVars  == <<node, visited, flushed_entries_last_pass,
               tried_to_flush_protected_entry>>
callVars  == <<call, failed, ring, pc, cur, flush_ok>>
vars == <<index, dirty, is_protected, slistVars, scanVars, callVars,
          callbacks>>

\* Parents stay pinned for their children, last entries by the client.
Pinned == {d[1] : d \in Depend} \cup Last

\* What MetaCache proves of the lists (its ListsAgree).
LRU == index \ (Pinned \cup is_protected)

\* The cache stays well formed under a flush: pinned and protected entries are
\* never evicted, nor is one that is dirty or in the slist.
TypeOK ==
  /\ index \subseteq Entry /\ Pinned \cup is_protected \subseteq index
  /\ dirty \subseteq index /\ is_protected \subseteq Held
  /\ slist \subseteq index
  /\ slist_enabled \in BOOLEAN /\ slist_changed \in BOOLEAN
  /\ populated \in BOOLEAN
  /\ call \in {"none", "file1", "file2", "tagged"}
  /\ pc \in {"idle", "ring", "visit", "flush", "flushed", "done"}
  /\ failed \in BOOLEAN /\ flush_ok \in BOOLEAN
  /\ ring \in 1..NRing
  /\ cur \in Entry \cup {NoEntry} /\ node \in Entry \cup {NoEntry}
  /\ visited \subseteq Entry
  /\ flushed_entries_last_pass \in BOOLEAN
  /\ tried_to_flush_protected_entry \in BOOLEAN
  /\ callbacks \in 0..MaxCallbacks

Init ==
  /\ index = Pinned /\ dirty = {} /\ is_protected = {}
  /\ slist = {} /\ slist_enabled = FALSE /\ slist_changed = FALSE
  /\ populated = FALSE
  /\ call = "none" /\ failed = FALSE /\ ring = 1 /\ pc = "idle"
  /\ cur = NoEntry /\ node = NoEntry /\ visited = {}
  /\ flushed_entries_last_pass = TRUE
  /\ tried_to_flush_protected_entry = FALSE
  /\ flush_ok = TRUE /\ callbacks = 0

-----------------------------------------------------------------------------
(* What clients do between calls, and callbacks while cur is flushed.      *)

\* Proxies are dirty exactly while a child is (H5AC__proxy_entry_notify).
WithProxies(d) ==
  (d \ Proxy) \cup {p \in Proxy : \E c \in d \ Proxy : <<p, c>> \in Depend}

\* The entries cur has to be written after, directly or through a proxy.
Below(e) ==
  {c \in Entry : \/ <<e, c>> \in Depend
                 \/ \E p \in Proxy : <<e, p>> \in Depend /\ <<p, c>> \in Depend}

\* Callbacks leave outer rings, and what cur waits for, alone.
MayTouch(e) ==
  /\ e \notin Proxy
  /\ \/ pc = "idle"
     \/ /\ pc = "flush" /\ callbacks > 0
        /\ Ring[e] >= Ring[cur] /\ e # cur /\ e \notin Below(cur)

Charge ==
  /\ callbacks' = IF pc = "flush" THEN callbacks - 1 ELSE callbacks
  /\ UNCHANGED <<scanVars, callVars>>

\* Mutant: a dirtied entry does not reach the slist.
slist_insert_lost(es) ==
  /\ slist' = slist
  /\ slist_changed' = (slist_changed \/ slist_enabled)

\* H5C__INSERT_ENTRY_IN_SLIST for the entries of es that are not in it
slist_insert(es) ==
  /\ slist' = IF slist_enabled THEN slist \cup es ELSE slist
  /\ slist_changed' = (slist_changed \/ (slist_enabled /\ ~(es \subseteq slist)))

BecomeDirty(e) ==
  /\ dirty' = WithProxies(dirty \cup {e})
  /\ slist_insert({e} \cup (WithProxies(dirty \cup {e}) \ dirty))

\* H5C_mark_entry_dirty of a pinned entry, or H5C_protect and a dirtying
\* H5C_unprotect.
dirty_entry(e) ==
  /\ MayTouch(e) /\ e \in index \ is_protected
  /\ BecomeDirty(e)
  /\ Charge
  /\ UNCHANGED <<index, is_protected, slist_enabled, populated>>

\* H5C_insert_entry.  Whether it has to make space depends on sizes, which are
\* left out: the make_space actions stand for what it then does first.
insert_entry(e) ==
  /\ MayTouch(e) /\ e \notin index
  /\ index' = index \cup {e}
  /\ BecomeDirty(e)
  /\ Charge
  /\ UNCHANGED <<is_protected, slist_enabled, populated>>

\* H5C_protect of an entry that has to be loaded
load_entry(e) ==
  /\ MayTouch(e) /\ e \notin index
  /\ index' = index \cup {e}
  /\ Charge
  /\ UNCHANGED <<dirty, is_protected, slistVars>>

\* H5C_move_entry: out of the slist and in again, dirty at the new address.
move_entry(e) ==
  /\ MayTouch(e) /\ e \in index \ is_protected
  /\ dirty' = WithProxies(dirty \cup {e})
  /\ slist' = IF slist_enabled THEN slist \cup {e} \cup (dirty' \ dirty)
              ELSE slist
  /\ slist_changed' = (slist_changed \/ slist_enabled)
  /\ Charge
  /\ UNCHANGED <<index, is_protected, slist_enabled, populated>>

\* The entry being flushed gets its final address from pre_serialize: out of
\* the slist and in again (H5C__generate_image).
move_self ==
  /\ pc = "flush" /\ callbacks > 0
  /\ slist_changed' = TRUE
  /\ Charge
  /\ UNCHANGED <<index, dirty, is_protected, slist, slist_enabled, populated>>

\* Mutant: the removal is not reported to the scan.
slist_remove_silent(e, cleaned) ==
  /\ slist' = slist \ ({e} \cup cleaned)
  /\ slist_changed' = slist_changed

\* H5C__REMOVE_ENTRY_FROM_SLIST outside of the scan
slist_remove(e, cleaned) ==
  /\ slist' = slist \ ({e} \cup cleaned)
  /\ slist_changed' = (slist_changed \/ slist_enabled)

\* H5C__make_space_in_cache writes a dirty entry of the LRU list.
make_space_flush(e) ==
  LET clean == WithProxies(dirty \ {e}) IN
  /\ MayTouch(e) /\ e \in LRU \cap dirty
  /\ slist_enabled => e \in slist
  /\ dirty' = clean
  /\ slist_remove(e, dirty \ clean)
  /\ Charge
  /\ UNCHANGED <<index, is_protected, slist_enabled, populated>>

\* The same when the slist is enabled and does not have the entry:
\* H5SL_remove fails, and so do the callback and the flush.
make_space_missing(e) ==
  /\ MayTouch(e) /\ e \in LRU \cap dirty
  /\ slist_enabled /\ e \notin slist
  /\ callbacks' = IF pc = "flush" THEN callbacks - 1 ELSE callbacks
  /\ flush_ok' = IF pc = "flush" THEN FALSE ELSE flush_ok
  /\ cur' = IF pc = "flush" THEN NoEntry ELSE cur
  /\ pc' = IF pc = "flush" THEN "flushed" ELSE pc
  /\ UNCHANGED <<index, dirty, is_protected, slistVars, scanVars, call, failed,
                 ring>>

\* H5C__make_space_in_cache evicts a clean entry of the LRU list.
make_space_evict(e) ==
  /\ MayTouch(e) /\ e \in LRU \ dirty
  /\ index' = index \ {e}
  /\ Charge
  /\ UNCHANGED <<dirty, is_protected, slistVars>>

\* H5C_protect held across a call, as iteration callbacks see it.
protect(e) ==
  /\ pc = "idle" /\ e \in Held \cap index /\ e \notin is_protected
  /\ is_protected' = is_protected \cup {e}
  /\ UNCHANGED <<index, dirty, slistVars, scanVars, callVars, callbacks>>

unprotect(e) ==
  /\ pc = "idle" /\ e \in is_protected
  /\ is_protected' = is_protected \ {e}
  /\ UNCHANGED <<index, dirty, slistVars, scanVars, callVars, callbacks>>

-----------------------------------------------------------------------------
(* H5C__flush_ring.                                                        *)

\* What a call of H5C__flush_ring starts with.
start_ring(r) ==
  /\ ring' = r /\ pc' = "ring"
  /\ flushed_entries_last_pass' = TRUE
  /\ tried_to_flush_protected_entry' = FALSE
  /\ node' = NoEntry /\ visited' = {}

InRing == {e \in slist : Ring[e] = ring}

\* Mutant: the passes wait for protected entries to be given back.
MorePasses_wait == InRing # {}

MorePasses ==
  /\ InRing # {} /\ ~tried_to_flush_protected_entry
  /\ flushed_entries_last_pass

begin_pass ==
  /\ pc = "ring" /\ MorePasses
  /\ flushed_entries_last_pass' = FALSE
  /\ visited' = {} /\ node' \in slist
  /\ pc' = "visit"
  /\ UNCHANGED <<index, dirty, is_protected, slistVars, callbacks,
                 tried_to_flush_protected_entry, call, failed, ring, cur,
                 flush_ok>>

\* H5SL_next: some node of the slist that the scan has not passed yet.
NextNode(behind) ==
  IF slist \subseteq behind THEN node' = NoEntry
  ELSE node' \in slist \ behind

Eligible(e) ==
  /\ e \in Last => Cardinality(Last) >= Cardinality(slist)
  /\ \A c \in dirty : <<e, c>> \notin Depend
  /\ Ring[e] = ring

visit ==
  /\ pc = "visit" /\ node # NoEntry
  /\ NextNode(visited \cup {node})
  /\ visited' = visited \cup {node}
  /\ tried_to_flush_protected_entry' =
       (tried_to_flush_protected_entry
          \/ (Eligible(node) /\ node \in is_protected))
  /\ IF Eligible(node) /\ node \notin is_protected
     THEN pc' = "flush" /\ cur' = node
     ELSE UNCHANGED <<pc, cur>>
  /\ UNCHANGED <<index, dirty, is_protected, slistVars, callbacks,
                 flushed_entries_last_pass, call, failed, ring, flush_ok>>

\* What is dirty once e is written; a clean child may clean its proxy.
written(e) == WithProxies(dirty \ {e})

\* H5C__flush_single_entry returns; the scan restarts if the slist changed.
flush_done ==
  LET cleaned == (dirty \ written(cur)) \ {cur}
      changed == slist_changed \/ cleaned \cap slist # {}
  IN
  /\ pc = "flush"
  /\ dirty' = written(cur)
  /\ slist' = slist \ ({cur} \cup cleaned)
  /\ slist_changed' = FALSE
  /\ visited' = IF changed THEN {} ELSE visited
  /\ IF ~changed THEN node' = node
     ELSE IF slist' = {} THEN node' = NoEntry
     ELSE node' \in slist'
  /\ flushed_entries_last_pass' = TRUE
  /\ cur' = NoEntry /\ pc' = "visit"
  /\ UNCHANGED <<index, is_protected, slist_enabled, populated, callbacks,
                 tried_to_flush_protected_entry, call, failed, ring, flush_ok>>

\* The write, or a callback, fails: the entry stays dirty and in the slist.
flush_fails ==
  /\ pc = "flush"
  /\ cur' = NoEntry /\ flush_ok' = FALSE /\ pc' = "flushed"
  /\ UNCHANGED <<index, dirty, is_protected, slistVars, scanVars, callbacks,
                 call, failed, ring>>

end_pass ==
  /\ pc = "visit" /\ node = NoEntry
  /\ pc' = "ring"
  /\ UNCHANGED <<index, dirty, is_protected, slistVars, scanVars, callbacks,
                 call, failed, ring, cur, flush_ok>>

\* Mutant: only the protected entries of the index count, not those the scan
\* met, so that a tagged flush takes no notice of them.
RingFailed_ignored == is_protected # {} /\ call # "tagged"

\* A tagged flush passes H5C__FLUSH_IGNORE_PROTECTED_FLAG.
RingFailed ==
  \/ is_protected # {} /\ call # "tagged"
  \/ tried_to_flush_protected_entry

\* H5C__flush_ring returns, and H5C_flush_cache goes on to the next ring.
end_ring ==
  /\ pc = "ring" /\ ~MorePasses
  /\ IF ~RingFailed /\ ring < NRing
     THEN start_ring(ring + 1) /\ slist_changed' = FALSE
          /\ UNCHANGED flush_ok
     ELSE /\ pc' = "flushed" /\ flush_ok' = ~RingFailed
          /\ UNCHANGED <<ring, scanVars, slist_changed>>
  /\ UNCHANGED <<index, dirty, is_protected, slist, slist_enabled, populated,
                 callbacks, call, failed, cur>>

-----------------------------------------------------------------------------
(* The callers.                                                            *)

\* H5F__flush_phase2: H5AC_prep_for_file_flush (H5C_set_slist_enabled), whose
\* failure is noted, and the first H5AC_flush.
flush_phase2 ==
  /\ pc = "idle"
  /\ call' = "file1" /\ failed' = slist_enabled
  /\ slist_enabled' = TRUE
  /\ slist' = IF slist_enabled THEN slist ELSE dirty
  /\ populated' = (populated \/ ~slist_enabled)
  /\ slist_changed' = FALSE
  /\ start_ring(1)
  /\ callbacks' = MaxCallbacks
  /\ UNCHANGED <<index, dirty, is_protected, cur, flush_ok>>

\* The second H5AC_flush, after the file was truncated.
flush_again ==
  /\ pc = "flushed" /\ call = "file1"
  /\ call' = "file2" /\ failed' = (failed \/ ~flush_ok)
  /\ slist_changed' = FALSE
  /\ start_ring(1)
  /\ UNCHANGED <<index, dirty, is_protected, slist, slist_enabled, populated,
                 cur, flush_ok, callbacks>>

\* H5C_set_slist_enabled(false): it fails if the slist is not empty.
disable_slist ==
  /\ slist_enabled' = (slist # {})
  /\ populated' = (populated /\ slist # {})

secure_from_file_flush ==
  /\ pc = "flushed" /\ call = "file2"
  /\ disable_slist
  /\ failed' = (failed \/ ~flush_ok \/ slist # {})
  /\ pc' = "done"
  /\ UNCHANGED <<index, dirty, is_protected, slist, slist_changed, scanVars,
                 callbacks, call, ring, cur, flush_ok>>

\* H5C_flush_tagged_entries: the slist is enabled with the entries of the tag.
flush_tagged_entries ==
  /\ pc = "idle" /\ ~slist_enabled
  /\ call' = "tagged" /\ failed' = FALSE
  /\ slist_enabled' = TRUE /\ populated' = FALSE
  /\ slist' = dirty \cap Tagged /\ slist_changed' = FALSE
  /\ start_ring(1)
  /\ callbacks' = MaxCallbacks
  /\ UNCHANGED <<index, dirty, is_protected, cur, flush_ok>>

\* Mutant: the slist stays enabled.
end_tagged_open ==
  /\ pc = "flushed" /\ call = "tagged"
  /\ failed' = (~flush_ok \/ slist # {})
  /\ pc' = "done"
  /\ UNCHANGED <<index, dirty, is_protected, slistVars, scanVars, callbacks,
                 call, ring, cur, flush_ok>>

\* It disables the slist only when the flush succeeded.
end_tagged ==
  /\ pc = "flushed" /\ call = "tagged"
  /\ IF flush_ok THEN disable_slist
     ELSE UNCHANGED <<slist_enabled, populated>>
  /\ failed' = (~flush_ok \/ slist # {})
  /\ pc' = "done"
  /\ UNCHANGED <<index, dirty, is_protected, slist, slist_changed, scanVars,
                 callbacks, call, ring, cur, flush_ok>>

\* The call returns to the client.
return ==
  /\ pc = "done"
  /\ pc' = "idle" /\ call' = "none" /\ failed' = FALSE /\ ring' = 1
  /\ flush_ok' = TRUE /\ callbacks' = 0
  /\ slist_changed' = FALSE
  /\ node' = NoEntry /\ visited' = {}
  /\ flushed_entries_last_pass' = TRUE
  /\ tried_to_flush_protected_entry' = FALSE
  /\ UNCHANGED <<index, dirty, is_protected, slist, slist_enabled, populated,
                 cur>>

-----------------------------------------------------------------------------

ClientStep(e) ==
  \/ dirty_entry(e)
  \/ insert_entry(e)
  \/ load_entry(e)
  \/ move_entry(e)
  \/ make_space_flush(e)
  \/ make_space_missing(e)
  \/ make_space_evict(e)
  \/ protect(e)
  \/ unprotect(e)

FlushStep ==
  \/ begin_pass
  \/ visit
  \/ flush_done
  \/ flush_fails
  \/ end_pass
  \/ end_ring
  \/ flush_again
  \/ secure_from_file_flush
  \/ end_tagged
  \/ return

Next ==
  \/ \E e \in Entry : ClientStep(e)
  \/ move_self
  \/ flush_phase2
  \/ flush_tagged_entries
  \/ FlushStep

Spec == Init /\ [][Next]_vars

\* A flush that has begun keeps running: its caller does nothing else.
FairSpec == Spec /\ WF_vars(FlushStep)

-----------------------------------------------------------------------------
(* Properties.                                                             *)

\* The scan's pointer to the next node never outlives the node: whatever the
\* callbacks removed, the scan restarts before it follows the pointer.
NodeLive == pc = "visit" => node \in slist \cup {NoEntry}

\* While the slist is enabled for the whole file it holds exactly the dirty
\* entries; for a tag it holds at least the dirty ones of the tag.
SlistAgree ==
  /\ slist \subseteq dirty
  /\ ~slist_enabled => slist = {}
  /\ slist_enabled => dirty \cap Tagged \subseteq slist
  /\ slist_enabled /\ populated => slist = dirty

\* The slist has the dirty children of its entries: it has all dirty entries,
\* or all flush dependencies are within the object it was enabled for.
ChildrenListed == populated \/ \A d \in Depend : d[2] \in Tagged \cup Proxy

\* H5C__flush_ring asserts that the rings outside of the one it flushes have
\* nothing left in the slist.
RingsInOrder ==
  pc \in {"ring", "visit", "flush"} /\ ChildrenListed
    => \A e \in slist : Ring[e] >= ring

\* A flush that reports success has written everything it was asked to, and
\* has closed the slist behind it.
FlushComplete ==
  pc = "done" /\ ~failed =>
    /\ ~slist_enabled
    /\ dirty \cap (IF call = "tagged" THEN Tagged ELSE Entry) = {}

\* A proxy is never written: it is clean, and off the slist, by the time the
\* scan comes to it.
ProxyNeverFlushed == pc = "flush" => cur \notin Proxy

\* Every flush comes to an end, whatever is protected or fails.
FlushTerminates == pc # "idle" ~> pc = "idle"

=============================================================================
