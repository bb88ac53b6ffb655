-------------------------- MODULE CacheFlush_proof --------------------------
(***************************************************************************)
(* Proofs about CacheFlush, for any entries, rings, dependencies and any   *)
(* bound on what callbacks do.                                             *)
(*                                                                         *)
(* The scan's pointer stays alive because every removal it does not make   *)
(* itself is reported in slist_changed; the only removals it makes itself  *)
(* are the entry it flushes, which it has passed, and proxies, which it    *)
(* looks for.  That no proxy is flushed needs the slist to hold only dirty *)
(* entries and proxies to be dirty only with a dirty child.                *)
(*                                                                         *)
(* Rings are left in order because a pass that writes nothing, and meets   *)
(* no protected entry, has seen every entry of the slist wait; but one     *)
(* without dirty children never waits, and there always is one.            *)
(***************************************************************************)
EXTENDS CacheFlush, TLAPS, FiniteSetTheorems

ProxiesAgree == dirty = WithProxies(dirty)

\* While an entry is flushed the pointer is good unless the slist changed.
PointerWaits ==
  pc = "flush" =>
    /\ cur \in dirty /\ cur \in visited /\ node \notin visited
    /\ ~slist_changed => node \in slist \cup {NoEntry}

ScanAhead == pc = "visit" => node \notin visited

BusyEnabled == pc \notin {"idle", "done"} => slist_enabled

IInv == /\ TypeOK
        /\ ProxiesAgree
        /\ SlistAgree
        /\ BusyEnabled
        /\ NodeLive
        /\ ScanAhead
        /\ PointerWaits
        /\ ProxyNeverFlushed

\* The set of dirty entries with its proxies: it grows with its argument, it
\* is closed, and its proxies are pinned.
LEMMA ProxyClosure ==
  ASSUME NEW D \in SUBSET Entry
  PROVE  /\ WithProxies(D) \ Proxy = D \ Proxy
         /\ WithProxies(WithProxies(D)) = WithProxies(D)
         /\ \A E \in SUBSET D : WithProxies(E) \subseteq WithProxies(D)
         /\ WithProxies(D) \subseteq D \cup Pinned
         /\ WithProxies(D) \subseteq Entry
<1>1. \A p, c : <<p, c>> \in Depend => p \in Pinned
  BY DEF Pinned
<1>2. WithProxies(D) \ Proxy = D \ Proxy
  BY DEF WithProxies
<1>3. WithProxies(WithProxies(D)) = WithProxies(D)
  BY <1>2 DEF WithProxies
<1>4. \A E \in SUBSET D : WithProxies(E) \subseteq WithProxies(D)
  BY DEF WithProxies
<1>5. WithProxies(D) \subseteq D \cup Pinned
  BY <1>1 DEF WithProxies
<1>6. WithProxies(D) \subseteq Entry
  BY SetsAssumption DEF WithProxies
<1> QED
  BY <1>2, <1>3, <1>4, <1>5, <1>6

\* Dirtying one more entry: nothing becomes clean.
LEMMA DirtyMore ==
  ASSUME IInv, NEW e \in Entry, e \notin Proxy
  PROVE  /\ dirty \cup {e} \subseteq WithProxies(dirty \cup {e})
         /\ WithProxies(dirty \cup {e}) \subseteq dirty \cup {e} \cup Pinned
         /\ WithProxies(WithProxies(dirty \cup {e}))
              = WithProxies(dirty \cup {e})
<1>1. dirty \in SUBSET Entry /\ dirty \cup {e} \in SUBSET Entry
  BY DEF IInv, TypeOK
<1>2. WithProxies(dirty) \subseteq WithProxies(dirty \cup {e})
  BY <1>1, ProxyClosure
<1>3. dirty \subseteq WithProxies(dirty \cup {e})
  BY <1>2 DEF IInv, ProxiesAgree
<1>4. e \in WithProxies(dirty \cup {e})
  BY <1>1, ProxyClosure
<1> QED
  BY <1>1, <1>3, <1>4, ProxyClosure

\* Writing an entry that is no proxy: it and some proxies become clean.
LEMMA DirtyLess ==
  ASSUME IInv, NEW e \in Entry, e \notin Proxy
  PROVE  /\ written(e) \subseteq dirty \ {e}
         /\ written(e) = WithProxies(written(e))
         /\ written(e) = WithProxies(dirty \ {e})
<1>1. dirty \in SUBSET Entry /\ dirty \ {e} \in SUBSET dirty
  BY DEF IInv, TypeOK
<1>2. WithProxies(dirty \ {e}) \subseteq WithProxies(dirty)
  BY <1>1, ProxyClosure
<1>3. e \notin WithProxies(dirty \ {e})
  BY <1>1, ProxyClosure
<1> QED
  BY <1>1, <1>2, <1>3, ProxyClosure DEF written, IInv, ProxiesAgree

\* What every call starts with is in range.
LEMMA Ranges ==
  1 \in 1..NRing /\ 0 \in 0..MaxCallbacks /\ MaxCallbacks \in 0..MaxCallbacks
<1>1. NRing \in Nat \ {0}
  BY RingAssumption
<1> QED
  BY <1>1, MaxCallbacksAssumption

\* The cache starts empty but for the pinned entries, with no call running.
LEMMA InitLemma == Init => IInv
<1> SUFFICES ASSUME Init PROVE IInv
  OBVIOUS
<1>1. Pinned \subseteq Entry
  BY SetsAssumption, DependAssumption DEF Pinned
<1>2. TypeOK
  BY <1>1, Ranges DEF Init, TypeOK
<1>3. ProxiesAgree
  BY DEF Init, ProxiesAgree, WithProxies
<1>4. SlistAgree
  BY DEF Init, SlistAgree
<1>5. pc = "idle"
  BY DEF Init
<1>6. BusyEnabled /\ NodeLive /\ ScanAhead /\ ProxyNeverFlushed
  BY <1>5 DEF BusyEnabled, NodeLive, ScanAhead, ProxyNeverFlushed
<1>7. PointerWaits
  BY <1>5 DEF PointerWaits
<1> QED
  BY <1>2, <1>3, <1>4, <1>6, <1>7 DEF IInv

-----------------------------------------------------------------------------
(* What clients and callbacks do.                                          *)

\* A step that leaves the scan alone and charges for a callback keeps the
\* types of what it leaves alone.
LEMMA ChargeType ==
  ASSUME TypeOK, Charge, pc = "idle" \/ (pc = "flush" /\ callbacks > 0)
  PROVE  /\ callbacks' \in 0..MaxCallbacks
         /\ UNCHANGED <<scanVars, callVars>>
BY MaxCallbacksAssumption DEF Charge, TypeOK

\* The part of IInv a client step has to restore, if it charges.
LEMMA ClientFrame ==
  ASSUME IInv, Charge, pc = "idle" \/ (pc = "flush" /\ callbacks > 0),
         UNCHANGED <<is_protected, slist_enabled, populated>>,
         index' \subseteq Entry, Pinned \cup is_protected \subseteq index',
         dirty' \subseteq index', slist' \subseteq index',
         slist_changed' \in BOOLEAN,
         ProxiesAgree', SlistAgree',
         cur \in dirty => cur \in dirty',
         slist_changed' \/ (~slist_changed /\ slist \subseteq slist')
           \/ pc = "idle"
  PROVE  IInv'
<1>1. /\ callbacks' \in 0..MaxCallbacks
      /\ UNCHANGED <<scanVars, callVars>>
  BY ChargeType DEF IInv
<1>2. TypeOK'
  BY <1>1 DEF IInv, TypeOK, scanVars, callVars
<1>3. NodeLive' /\ ScanAhead' /\ BusyEnabled' /\ ProxyNeverFlushed'
  BY <1>1 DEF IInv, NodeLive, ScanAhead, BusyEnabled, ProxyNeverFlushed,
              scanVars, callVars
<1>4. PointerWaits'
  BY <1>1 DEF IInv, PointerWaits, scanVars, callVars
<1> QED
  BY <1>2, <1>3, <1>4 DEF IInv

\* What clients and callbacks do: removals behind the scan are reported in
\* slist_changed, so the pointer is not trusted across them.
LEMMA ClientLemma ==
  ASSUME IInv, NEW e \in Entry, ClientStep(e)
  PROVE  IInv'
<1> DEFINE more == WithProxies(dirty \cup {e})
<1>1. MayTouch(e) => /\ e \notin Proxy
                     /\ pc = "idle" \/ (pc = "flush" /\ callbacks > 0)
                     /\ pc = "flush" => e # cur
  BY DEF MayTouch
<1>2. ASSUME MayTouch(e), dirty' = more, index' = index \cup {e}, Charge,
             slist' = IF slist_enabled
                      THEN slist \cup {e} \cup (more \ dirty) ELSE slist,
             slist_changed' \in BOOLEAN,
             slist_changed' \/ ~slist_changed,
             UNCHANGED <<is_protected, slist_enabled, populated>>
      PROVE  IInv'
  <2>1. /\ dirty \cup {e} \subseteq more
        /\ more \subseteq dirty \cup {e} \cup Pinned
        /\ WithProxies(more) = more
    BY <1>1, <1>2, DirtyMore
  <2>2. ProxiesAgree'
    BY <1>2, <2>1 DEF ProxiesAgree, WithProxies
  <2> HIDE DEF more
  <2>3. /\ index' \subseteq Entry
        /\ Pinned \cup is_protected \subseteq index'
        /\ dirty' \subseteq index' /\ slist' \subseteq index'
    BY <1>2, <2>1 DEF IInv, TypeOK
  <2>4. SlistAgree'
    BY <1>2, <2>1 DEF IInv, SlistAgree
  <2>5. slist \subseteq slist' /\ dirty \subseteq dirty'
    BY <1>2, <2>1
  <2> QED
    BY <1>1, <1>2, <2>2, <2>3, <2>4, <2>5, ClientFrame
<1>3. slist_changed \in BOOLEAN /\ slist_enabled \in BOOLEAN
  BY DEF IInv, TypeOK
<1>4. CASE dirty_entry(e)
  <2>1. index' = index \cup {e}
    BY <1>4 DEF dirty_entry
  <2> QED
    BY <1>2, <1>3, <1>4, <2>1 DEF dirty_entry, BecomeDirty, slist_insert
<1>5. CASE insert_entry(e)
  BY <1>2, <1>3, <1>5 DEF insert_entry, BecomeDirty, slist_insert
<1>6. CASE move_entry(e)
  <2>1. index' = index \cup {e}
    BY <1>6 DEF move_entry
  <2> QED
    BY <1>2, <1>3, <1>6, <2>1 DEF move_entry
<1>7. CASE load_entry(e)
  <2>1. /\ index' = index \cup {e}
        /\ MayTouch(e) /\ Charge
        /\ UNCHANGED <<dirty, is_protected, slistVars>>
    BY <1>7 DEF load_entry
  <2>2. ProxiesAgree' /\ SlistAgree'
    BY <2>1 DEF IInv, ProxiesAgree, WithProxies, SlistAgree, slistVars
  <2> QED
    BY <1>1, <1>3, <2>1, <2>2, ClientFrame DEF IInv, TypeOK, slistVars
<1>8. CASE make_space_evict(e)
  <2>1. /\ index' = index \ {e} /\ e \notin dirty
        /\ e \notin Pinned \cup is_protected
        /\ MayTouch(e) /\ Charge
        /\ UNCHANGED <<dirty, is_protected, slistVars>>
    BY <1>8 DEF make_space_evict, LRU
  <2>2. ProxiesAgree' /\ SlistAgree'
    BY <2>1 DEF IInv, ProxiesAgree, WithProxies, SlistAgree, slistVars
  <2>3. slist' \subseteq index' /\ dirty' \subseteq index'
    BY <2>1 DEF IInv, TypeOK, SlistAgree, slistVars
  <2>4. index' \subseteq Entry /\ Pinned \cup is_protected \subseteq index'
    BY <2>1 DEF IInv, TypeOK
  <2> QED
    BY <1>1, <1>3, <2>1, <2>2, <2>3, <2>4, ClientFrame DEF slistVars
<1>9. CASE make_space_flush(e)
  <2> DEFINE clean == WithProxies(dirty \ {e})
  <2>1. /\ MayTouch(e) /\ Charge /\ e \in dirty
        /\ slist_enabled => e \in slist
        /\ dirty' = clean
        /\ slist' = slist \ ({e} \cup (dirty \ clean))
        /\ slist_changed' = (slist_changed \/ slist_enabled)
        /\ UNCHANGED <<index, is_protected, slist_enabled, populated>>
    BY <1>9 DEF make_space_flush, slist_remove
  <2>2. clean \subseteq dirty \ {e} /\ clean = WithProxies(clean)
    BY <1>1, <2>1, DirtyLess DEF written
  <2>3. ProxiesAgree'
    BY <2>1, <2>2 DEF ProxiesAgree, WithProxies
  <2>4. (dirty \ {e}) \ Proxy \subseteq clean
    BY DEF WithProxies
  <2> HIDE DEF clean
  <2>5. SlistAgree'
    BY <2>1, <2>2 DEF IInv, SlistAgree
  <2>6. pc = "flush" => slist_enabled /\ cur \in clean
    BY <1>1, <2>1, <2>4
       DEF IInv, BusyEnabled, PointerWaits, ProxyNeverFlushed
  <2>7. /\ index' \subseteq Entry
        /\ Pinned \cup is_protected \subseteq index'
        /\ dirty' \subseteq index' /\ slist' \subseteq index'
    BY <2>1, <2>2 DEF IInv, TypeOK
  <2>8. cur \in dirty => cur \in dirty' \/ pc = "idle"
    BY <1>1, <2>1, <2>6
  <2>9. TypeOK'
    BY <1>1, <1>3, <2>1, <2>7, ChargeType
       DEF IInv, TypeOK, scanVars, callVars
  <2>10. NodeLive' /\ ScanAhead' /\ BusyEnabled' /\ ProxyNeverFlushed'
         /\ PointerWaits'
    BY <1>1, <2>1, <2>6
       DEF IInv, Charge, NodeLive, ScanAhead, BusyEnabled, ProxyNeverFlushed,
           PointerWaits, scanVars, callVars
  <2> QED
    BY <2>3, <2>5, <2>9, <2>10 DEF IInv
<1>10. CASE make_space_missing(e)
  <2>1. /\ callbacks' \in 0..MaxCallbacks
        /\ pc' \in {"idle", "flushed"} /\ cur' \in Entry \cup {NoEntry}
        /\ flush_ok' \in BOOLEAN
        /\ UNCHANGED <<index, dirty, is_protected, slistVars, scanVars, call,
                       failed, ring>>
        /\ slist_enabled
    <3>1. pc = "idle" \/ (pc = "flush" /\ callbacks > 0)
      BY <1>1, <1>10 DEF make_space_missing
    <3>2. callbacks' \in 0..MaxCallbacks
      BY <1>10, <3>1, MaxCallbacksAssumption
         DEF make_space_missing, IInv, TypeOK
    <3>3. pc' \in {"idle", "flushed"} /\ cur' \in Entry \cup {NoEntry}
      BY <1>10, <3>1 DEF make_space_missing, IInv, TypeOK
    <3>4. flush_ok' \in BOOLEAN
      BY <1>10 DEF make_space_missing, IInv, TypeOK
    <3> QED
      BY <1>10, <3>2, <3>3, <3>4 DEF make_space_missing
  <2>2. TypeOK'
    BY <2>1 DEF IInv, TypeOK, slistVars, scanVars
  <2>3. ProxiesAgree' /\ SlistAgree'
    BY <2>1 DEF IInv, ProxiesAgree, WithProxies, SlistAgree, slistVars
  <2>4. BusyEnabled'
    BY <2>1 DEF BusyEnabled, slistVars
  <2>5. NodeLive' /\ ScanAhead' /\ ProxyNeverFlushed'
    BY <2>1 DEF NodeLive, ScanAhead, ProxyNeverFlushed
  <2>6. PointerWaits'
    BY <2>1 DEF PointerWaits
  <2> QED
    BY <2>2, <2>3, <2>4, <2>5, <2>6 DEF IInv
<1>11. CASE protect(e) \/ unprotect(e)
  <2>1. /\ is_protected' \subseteq Held /\ is_protected' \subseteq index
        /\ UNCHANGED <<index, dirty, slistVars, scanVars, callVars, callbacks>>
    BY <1>11 DEF protect, unprotect, IInv, TypeOK
  <2> QED
    BY <2>1 DEF IInv, TypeOK, ProxiesAgree, WithProxies, SlistAgree,
                BusyEnabled, NodeLive, ScanAhead, PointerWaits,
                ProxyNeverFlushed, slistVars, scanVars, callVars
<1> QED
  BY <1>4, <1>5, <1>6, <1>7, <1>8, <1>9, <1>10, <1>11 DEF ClientStep

-----------------------------------------------------------------------------
(* The scan and its callers.                                               *)

\* Steps that leave the entries alone keep the parts of IInv about them.
LEMMA EntriesFrame ==
  ASSUME IInv, UNCHANGED <<index, dirty, slist, slist_enabled, populated>>
  PROVE  ProxiesAgree' /\ SlistAgree'
BY DEF IInv, ProxiesAgree, WithProxies, SlistAgree

\* A step to where no pointer is held, with the slist enabled.
LEMMA NoScan ==
  ASSUME TypeOK', ProxiesAgree', SlistAgree',
         pc' \in {"ring", "flushed"}, slist_enabled'
  PROVE  IInv'
<1>1. BusyEnabled' /\ NodeLive' /\ ScanAhead' /\ ProxyNeverFlushed'
  BY DEF BusyEnabled, NodeLive, ScanAhead, ProxyNeverFlushed
<1>2. PointerWaits'
  BY DEF PointerWaits
<1> QED
  BY <1>1, <1>2 DEF IInv

\* The same at the end of the call.
LEMMA NoCall ==
  ASSUME TypeOK', ProxiesAgree', SlistAgree', pc' \in {"idle", "done"}
  PROVE  IInv'
<1>1. BusyEnabled' /\ NodeLive' /\ ScanAhead' /\ ProxyNeverFlushed'
  BY DEF BusyEnabled, NodeLive, ScanAhead, ProxyNeverFlushed
<1>2. PointerWaits'
  BY DEF PointerWaits
<1> QED
  BY <1>1, <1>2 DEF IInv

\* Disabling the slist, or failing to because it is not empty.
LEMMA DisableLemma ==
  ASSUME IInv, disable_slist, UNCHANGED <<index, dirty, slist>>
  PROVE  /\ ProxiesAgree' /\ SlistAgree'
         /\ slist_enabled' \in BOOLEAN /\ populated' \in BOOLEAN
<1>1. ProxiesAgree'
  BY DEF IInv, ProxiesAgree, WithProxies
<1>2. slist_enabled' \in BOOLEAN /\ populated' \in BOOLEAN
  BY DEF disable_slist, IInv, TypeOK
<1>3. SlistAgree'
  BY DEF disable_slist, IInv, SlistAgree
<1> QED
  BY <1>1, <1>2, <1>3

\* visit: what the scan finds in the slist is dirty, so a proxy it finds has
\* a dirty child and waits.
LEMMA VisitLemma == IInv /\ visit => IInv'
<1> SUFFICES ASSUME IInv, visit PROVE IInv'
  OBVIOUS
<1>1. /\ pc = "visit" /\ node # NoEntry /\ node \notin visited
      /\ NextNode(visited \cup {node})
      /\ visited' = visited \cup {node}
      /\ UNCHANGED <<index, dirty, is_protected, slistVars, callbacks,
                     flushed_entries_last_pass, call, failed, ring, flush_ok>>
  BY DEF visit, IInv, ScanAhead
<1>2. node \in slist /\ node \in dirty /\ node \in Entry /\ slist \subseteq Entry
  BY <1>1 DEF IInv, NodeLive, SlistAgree, TypeOK
<1>3. node' \in slist \cup {NoEntry} /\ node' \notin visited'
  BY <1>1, <1>2, EntryAssumption DEF NextNode, IInv, TypeOK
<1>4. \/ pc' = "flush" /\ cur' = node /\ Eligible(node)
      \/ pc' = "visit" /\ cur' = cur
  BY <1>1 DEF visit
<1>5. tried_to_flush_protected_entry' \in BOOLEAN
  BY DEF visit, IInv, TypeOK
<1>6. TypeOK'
  BY <1>1, <1>2, <1>3, <1>4, <1>5 DEF IInv, TypeOK, slistVars
<1>7. ProxiesAgree' /\ SlistAgree'
  BY <1>1, EntriesFrame DEF slistVars
<1>8. NodeLive' /\ ScanAhead' /\ BusyEnabled'
  BY <1>1, <1>3 DEF IInv, NodeLive, ScanAhead, BusyEnabled, slistVars
<1>9. PointerWaits'
  BY <1>1, <1>2, <1>3, <1>4 DEF PointerWaits, slistVars
<1>10. ASSUME node \in Proxy PROVE ~Eligible(node)
  <2>1. node \in WithProxies(dirty)
    BY <1>2 DEF IInv, ProxiesAgree
  <2>2. PICK c \in dirty : <<node, c>> \in Depend
    BY <1>10, <2>1 DEF WithProxies
  <2> QED
    BY <2>2 DEF Eligible
<1>11. ProxyNeverFlushed'
  BY <1>4, <1>10 DEF ProxyNeverFlushed
<1> QED
  BY <1>6, <1>7, <1>8, <1>9, <1>11 DEF IInv

\* flush_done: the entry is no proxy; unless the slist changed, the next node
\* was not passed yet and is no proxy that became clean.
LEMMA FlushDoneLemma == IInv /\ flush_done => IInv'
<1> SUFFICES ASSUME IInv, flush_done PROVE IInv'
  OBVIOUS
<1> DEFINE cleaned == (dirty \ written(cur)) \ {cur}
           changed == slist_changed \/ cleaned \cap slist # {}
<1>1. /\ pc = "flush" /\ dirty' = written(cur)
      /\ slist' = slist \ ({cur} \cup cleaned)
      /\ slist_changed' = FALSE
      /\ visited' = IF changed THEN {} ELSE visited
      /\ changed => node' \in slist' \cup {NoEntry}
      /\ ~changed => node' = node
      /\ flushed_entries_last_pass' = TRUE
      /\ cur' = NoEntry /\ pc' = "visit"
      /\ UNCHANGED <<index, is_protected, slist_enabled, populated, callbacks,
                     tried_to_flush_protected_entry, call, failed, ring,
                     flush_ok>>
  BY DEF flush_done
<1>2. /\ cur \in dirty /\ cur \in Entry /\ cur \notin Proxy
      /\ cur \in visited /\ node \notin visited
      /\ ~slist_changed => node \in slist \cup {NoEntry}
  BY <1>1 DEF IInv, PointerWaits, ProxyNeverFlushed, TypeOK
<1>3. /\ written(cur) \subseteq dirty \ {cur}
      /\ WithProxies(written(cur)) = written(cur)
  BY <1>2, DirtyLess
<1>4. ProxiesAgree'
  BY <1>1, <1>3 DEF ProxiesAgree, WithProxies
<1>5. SlistAgree'
  BY <1>1, <1>3 DEF IInv, SlistAgree
<1>6. node' \in slist' \cup {NoEntry} /\ node' \notin visited'
  <2>1. CASE changed
    BY <1>1, <2>1
  <2>2. CASE ~changed
    <3>1. node \in slist \cup {NoEntry} /\ node # cur /\ node \notin cleaned \cap slist
      BY <1>2, <2>2
    <3> QED
      BY <1>1, <1>2, <2>2, <3>1
  <2> QED
    BY <2>1, <2>2
<1>7. TypeOK'
  <2>1. slist' \subseteq index' /\ dirty' \subseteq index' /\ slist' \subseteq Entry
    BY <1>1, <1>3 DEF IInv, TypeOK
  <2>2. visited' \subseteq Entry /\ node' \in Entry \cup {NoEntry}
    BY <1>1, <1>6, <2>1 DEF IInv, TypeOK
  <2> QED
    BY <1>1, <2>1, <2>2 DEF IInv, TypeOK
<1>8. NodeLive' /\ ScanAhead' /\ BusyEnabled' /\ ProxyNeverFlushed'
  BY <1>1, <1>6 DEF IInv, NodeLive, ScanAhead, BusyEnabled, ProxyNeverFlushed
<1>9. PointerWaits'
  BY <1>1 DEF PointerWaits
<1> QED
  BY <1>4, <1>5, <1>7, <1>8, <1>9 DEF IInv

\* The steps of the flush itself, from the start of a pass to the return.
LEMMA FlushLemma ==
  ASSUME IInv, FlushStep
  PROVE  IInv'
<1>0. pc \notin {"idle", "done"} => slist_enabled
  BY DEF IInv, BusyEnabled
<1>1. CASE begin_pass
  <2>1. /\ pc = "ring" /\ visited' = {} /\ node' \in slist /\ pc' = "visit"
        /\ flushed_entries_last_pass' = FALSE
        /\ UNCHANGED <<index, dirty, is_protected, slistVars, callbacks,
                       tried_to_flush_protected_entry, call, failed, ring, cur,
                       flush_ok>>
    BY <1>1 DEF begin_pass
  <2>2. ProxiesAgree' /\ SlistAgree'
    BY <2>1, EntriesFrame DEF slistVars
  <2>3. TypeOK'
    BY <2>1 DEF IInv, TypeOK, slistVars
  <2>4. NodeLive' /\ ScanAhead' /\ BusyEnabled' /\ ProxyNeverFlushed'
    BY <1>0, <2>1
       DEF NodeLive, ScanAhead, BusyEnabled, ProxyNeverFlushed, slistVars
  <2>5. PointerWaits'
    BY <2>1 DEF PointerWaits
  <2> QED
    BY <2>2, <2>3, <2>4, <2>5 DEF IInv
<1>2. CASE visit
  BY <1>2, VisitLemma
<1>3. CASE flush_done
  BY <1>3, FlushDoneLemma
<1>4. CASE flush_fails
  <2>1. ProxiesAgree' /\ SlistAgree'
    BY <1>4, EntriesFrame DEF flush_fails, slistVars
  <2>2. TypeOK' /\ pc' = "flushed" /\ slist_enabled'
    BY <1>0, <1>4 DEF flush_fails, IInv, TypeOK, slistVars, scanVars
  <2> QED
    BY <2>1, <2>2, NoScan
<1>5. CASE end_pass
  <2>1. ProxiesAgree' /\ SlistAgree'
    BY <1>5, EntriesFrame DEF end_pass, slistVars
  <2>2. TypeOK' /\ pc' = "ring" /\ slist_enabled'
    BY <1>0, <1>5 DEF end_pass, IInv, TypeOK, slistVars, scanVars
  <2> QED
    BY <2>1, <2>2, NoScan
<1>6. CASE end_ring
  <2>1. ProxiesAgree' /\ SlistAgree'
    BY <1>6, EntriesFrame DEF end_ring
  <2>2. pc' \in {"ring", "flushed"} /\ slist_enabled'
    BY <1>0, <1>6 DEF end_ring, start_ring
  <2>3. TypeOK'
    <3>1. CASE ~RingFailed /\ ring < NRing
      <4>1. ring + 1 \in 1..NRing
        BY <3>1, RingAssumption DEF IInv, TypeOK
      <4> QED
        BY <1>6, <3>1, <4>1 DEF end_ring, start_ring, IInv, TypeOK
    <3>2. CASE ~(~RingFailed /\ ring < NRing)
      <4>1. flush_ok' \in BOOLEAN
        BY <1>6, <3>2 DEF end_ring
      <4> QED
        BY <1>6, <3>2, <4>1 DEF end_ring, IInv, TypeOK, scanVars
    <3> QED
      BY <3>1, <3>2
  <2> QED
    BY <2>1, <2>2, <2>3, NoScan
<1>7. CASE flush_again
  <2>1. ProxiesAgree' /\ SlistAgree'
    BY <1>7, EntriesFrame DEF flush_again
  <2>2. pc' = "ring" /\ slist_enabled'
    BY <1>0, <1>7 DEF flush_again, start_ring
  <2>3. TypeOK'
    BY <1>7, Ranges DEF flush_again, start_ring, IInv, TypeOK
  <2> QED
    BY <2>1, <2>2, <2>3, NoScan
<1>8. CASE secure_from_file_flush
  <2>1. /\ disable_slist /\ UNCHANGED <<index, dirty, slist>> /\ pc' = "done"
        /\ failed' \in BOOLEAN
    BY <1>8 DEF secure_from_file_flush
  <2>2. /\ ProxiesAgree' /\ SlistAgree'
        /\ slist_enabled' \in BOOLEAN /\ populated' \in BOOLEAN
    BY <2>1, DisableLemma
  <2>3. TypeOK'
    BY <1>8, <2>1, <2>2 DEF secure_from_file_flush, IInv, TypeOK, scanVars
  <2> QED
    BY <2>1, <2>2, <2>3, NoCall
<1>9. CASE end_tagged
  <2>1. UNCHANGED <<index, dirty, slist>> /\ pc' = "done" /\ failed' \in BOOLEAN
    BY <1>9 DEF end_tagged
  <2>2. /\ ProxiesAgree' /\ SlistAgree'
        /\ slist_enabled' \in BOOLEAN /\ populated' \in BOOLEAN
    <3>1. CASE flush_ok
      BY <1>9, <2>1, <3>1, DisableLemma DEF end_tagged
    <3>2. CASE ~flush_ok
      <4>1. UNCHANGED <<slist_enabled, populated>>
        BY <1>9, <3>2 DEF end_tagged
      <4> QED
        BY <2>1, <4>1, EntriesFrame DEF IInv, TypeOK
    <3> QED
      BY <3>1, <3>2
  <2>3. TypeOK'
    BY <1>9, <2>1, <2>2 DEF end_tagged, IInv, TypeOK, scanVars
  <2> QED
    BY <2>1, <2>2, <2>3, NoCall
<1>10. CASE return
  <2>1. ProxiesAgree' /\ SlistAgree'
    BY <1>10, EntriesFrame DEF return
  <2>2. TypeOK'
    BY <1>10, Ranges DEF return, IInv, TypeOK
  <2>3. pc' = "idle"
    BY <1>10 DEF return
  <2> QED
    BY <2>1, <2>2, <2>3, NoCall
<1> QED
  BY <1>1, <1>2, <1>3, <1>4, <1>5, <1>6, <1>7, <1>8, <1>9, <1>10 DEF FlushStep

-----------------------------------------------------------------------------
(* The theorems.                                                           *)

\* Every step preserves the invariant.
LEMMA InductiveStep == IInv /\ [Next]_vars => IInv'
<1> SUFFICES ASSUME IInv, [Next]_vars PROVE IInv'
  OBVIOUS
<1>1. CASE \E e \in Entry : ClientStep(e)
  BY <1>1, ClientLemma
<1>2. CASE move_self
  <2>1. /\ pc = "flush" /\ callbacks > 0 /\ slist_changed' = TRUE /\ Charge
        /\ UNCHANGED <<index, dirty, is_protected, slist, slist_enabled,
                       populated>>
    BY <1>2 DEF move_self
  <2>2. ProxiesAgree' /\ SlistAgree'
    BY <2>1, EntriesFrame
  <2> QED
    BY <2>1, <2>2, ClientFrame DEF IInv, TypeOK
<1>3. CASE flush_phase2
  <2>1. /\ pc' = "ring" /\ slist_enabled' = TRUE
        /\ UNCHANGED <<index, dirty, is_protected>>
        /\ slist' = IF slist_enabled THEN slist ELSE dirty
        /\ populated' = (populated \/ ~slist_enabled)
    BY <1>3 DEF flush_phase2, start_ring
  <2>2. ProxiesAgree'
    BY <2>1 DEF IInv, ProxiesAgree, WithProxies
  <2>3. SlistAgree'
    BY <2>1 DEF IInv, SlistAgree, TypeOK
  <2>4. TypeOK'
    BY <1>3, <2>1, Ranges
       DEF flush_phase2, start_ring, IInv, TypeOK
  <2> QED
    BY <2>1, <2>2, <2>3, <2>4, NoScan
<1>4. CASE flush_tagged_entries
  <2>1. /\ pc' = "ring" /\ slist_enabled' = TRUE /\ populated' = FALSE
        /\ UNCHANGED <<index, dirty, is_protected>>
        /\ slist' = dirty \cap Tagged
    BY <1>4 DEF flush_tagged_entries, start_ring
  <2>2. ProxiesAgree'
    BY <2>1 DEF IInv, ProxiesAgree, WithProxies
  <2>3. SlistAgree'
    BY <2>1 DEF IInv, SlistAgree, TypeOK
  <2>4. TypeOK'
    BY <1>4, <2>1, Ranges
       DEF flush_tagged_entries, start_ring, IInv, TypeOK
  <2> QED
    BY <2>1, <2>2, <2>3, <2>4, NoScan
<1>5. CASE FlushStep
  BY <1>5, FlushLemma
<1>6. CASE UNCHANGED vars
  BY <1>6 DEF vars, slistVars, scanVars, callVars, IInv, TypeOK, ProxiesAgree,
              WithProxies, SlistAgree, BusyEnabled, NodeLive, ScanAhead,
              PointerWaits, ProxyNeverFlushed
<1> QED
  BY <1>1, <1>2, <1>3, <1>4, <1>5, <1>6 DEF Next

\* The invariant holds in every reachable state of the flush code.
LEMMA Inductive == Spec => []IInv
<1>1. Init => IInv
  BY InitLemma
<1>2. IInv /\ [Next]_vars => IInv'
  BY InductiveStep
<1> QED
  BY <1>1, <1>2, PTL DEF Spec

\* Every state of a flush, with the callbacks it runs, is well formed: pinned
\* entries stay cached and nothing dirty is evicted.
THEOREM TypeCorrect == Spec => []TypeOK
<1>1. IInv => TypeOK
  BY DEF IInv
<1> QED
  BY <1>1, Inductive, PTL

\* H5C__flush_ring never follows a pointer to a node that was removed from the
\* skip list while it was flushing an entry.
THEOREM NodeLiveHolds == Spec => []NodeLive
<1>1. IInv => NodeLive
  BY DEF IInv
<1> QED
  BY <1>1, Inductive, PTL

\* The skip list holds what a flush of the file, or of one object, has to
\* write, and nothing clean.
THEOREM SlistAgreeHolds == Spec => []SlistAgree
<1>1. IInv => SlistAgree
  BY DEF IInv
<1> QED
  BY <1>1, Inductive, PTL

\* The scan never asks a proxy entry to be written.
THEOREM ProxyNeverFlushedHolds == Spec => []ProxyNeverFlushed
<1>1. IInv => ProxyNeverFlushed
  BY DEF IInv
<1> QED
  BY <1>1, Inductive, PTL

-----------------------------------------------------------------------------
(* Passes, rings, and what a flush that succeeds has done.                 *)

CurInRing == pc = "flush" => Ring[cur] = ring

\* What a pass that has written nothing yet knows of the entries behind it.
ScanIdle ==
  ~flushed_entries_last_pass /\ ~tried_to_flush_protected_entry =>
    /\ pc = "visit" => /\ \A e \in slist \cap visited : ~Eligible(e)
                       /\ node = NoEntry => slist \subseteq visited
    /\ pc = "ring" => \A e \in slist : ~Eligible(e)

\* A flush of the file on a slist it did not enable itself has failed already.
FileWhole ==
  pc \notin {"idle", "done"} /\ call # "tagged" /\ ~failed => populated

RInv == CurInRing /\ ScanIdle /\ FileWhole /\ RingsInOrder /\ FlushComplete

\* In a ring with entries left, one of them waits for nothing: it is the
\* superblock or the driver information only if they are all that is left.
LEMMA SomeEligible ==
  ASSUME IInv, RingsInOrder, ChildrenListed, pc = "ring", InRing # {}
  PROVE  \E e \in slist : Eligible(e)
<1> DEFINE waiting == {e \in dirty : /\ Ring[e] = ring /\ e \notin Last
                                     /\ e \in slist \cup Proxy}
<1>1. /\ slist \subseteq dirty /\ dirty \subseteq Entry
      /\ slist_enabled /\ dirty \cap Tagged \subseteq slist
      /\ populated => slist = dirty
      /\ dirty = WithProxies(dirty)
  BY DEF IInv, TypeOK, SlistAgree, BusyEnabled, ProxiesAgree
<1>2. \A e \in slist : Ring[e] >= ring
  BY DEF RingsInOrder
<1>3. \A d \in Depend : /\ d[1] \in Entry /\ d[2] \in Entry
                        /\ Ring[d[1]] = Ring[d[2]]
                        /\ d[1] \notin Last /\ d[2] \notin Last
                        /\ d[1] \in Proxy => d[2] \notin Proxy
  BY DependAssumption, LastAssumption
<1>4. ASSUME NEW c \in dirty, NEW e \in Entry, <<e, c>> \in Depend, Ring[e] = ring
      PROVE  c \in waiting
  <2>1. Ring[c] = ring /\ c \notin Last
    BY <1>3, <1>4
  <2>2. c \in slist \cup Proxy
    BY <1>1, <1>4 DEF ChildrenListed
  <2> QED
    BY <2>1, <2>2
<1>5. CASE waiting # {}
  <2>1. waiting \in SUBSET Entry
    BY <1>1
  <2>2. PICK e \in waiting : \A c \in waiting : <<e, c>> \notin Depend
    BY <1>5, <2>1, AcyclicAssumption
  <2>3. \A c \in dirty : <<e, c>> \notin Depend
    BY <1>1, <1>4, <2>2
  <2>4. e \notin Proxy
    BY <1>1, <2>2, <2>3 DEF WithProxies
  <2>5. e \in slist /\ Eligible(e)
    BY <2>2, <2>3, <2>4 DEF Eligible
  <2> QED
    BY <2>5
<1>6. CASE waiting = {}
  <2>1. PICK e \in slist : Ring[e] = ring /\ e \in Last
    BY <1>1, <1>6 DEF InRing
  <2>2. ring = NRing
    BY <2>1, LastAssumption
  <2>3. \A x \in slist : Ring[x] = ring
    <3> TAKE x \in slist
    <3>1. Ring[x] \in 1..NRing /\ NRing \in Nat
      BY <1>1, RingAssumption
    <3> QED
      BY <1>2, <2>2, <3>1
  <2>4. slist \subseteq Last
    BY <1>1, <1>6, <2>3
  <2>5. IsFiniteSet(Last)
    BY FS_Subset, EntryAssumption, SetsAssumption
  <2>6. /\ Cardinality(Last) \in Nat /\ Cardinality(slist) \in Nat
        /\ Cardinality(slist) <= Cardinality(Last)
    BY <2>4, <2>5, FS_Subset, FS_CardinalityType
  <2>7. \A c \in dirty : <<e, c>> \notin Depend
    BY <1>3, <2>1
  <2> QED
    BY <2>1, <2>6, <2>7 DEF Eligible
<1> QED
  BY <1>5, <1>6

\* H5C__flush_ring returns without a failure only when the ring is empty.
LEMMA RingEmptied ==
  ASSUME IInv, RInv, end_ring, ChildrenListed, ~RingFailed
  PROVE  InRing = {}
<1>1. pc = "ring" /\ ~MorePasses /\ ~tried_to_flush_protected_entry
  BY DEF end_ring, RingFailed
<1>2. ASSUME InRing # {} PROVE FALSE
  <2>1. ~flushed_entries_last_pass
    BY <1>1, <1>2 DEF MorePasses
  <2>2. \A e \in slist : ~Eligible(e)
    BY <1>1, <2>1 DEF RInv, ScanIdle
  <2> QED
    BY <1>1, <1>2, <2>2, SomeEligible DEF RInv
<1> QED
  BY <1>2

\* The proxies that become dirty with an entry are in its ring.
LEMMA ProxiesInRing ==
  ASSUME IInv, NEW e \in Entry,
         NEW x \in WithProxies(dirty \cup {e}) \ dirty
  PROVE  Ring[x] = Ring[e]
<1>1. dirty = WithProxies(dirty)
  BY DEF IInv, ProxiesAgree
<1>2. CASE x \in dirty \cup {e}
  BY <1>2
<1>3. CASE x \notin dirty \cup {e}
  <2>1. PICK c \in (dirty \cup {e}) \ Proxy : x \in Proxy /\ <<x, c>> \in Depend
    BY <1>3 DEF WithProxies
  <2>2. c \notin dirty
    BY <1>1, <2>1 DEF WithProxies
  <2> QED
    BY <2>1, <2>2, DependAssumption
<1> QED
  BY <1>2, <1>3

\* Callbacks reach no outer ring, so they put nothing behind the flush.
LEMMA ClientRings ==
  ASSUME IInv, RInv, NEW e \in Entry, ClientStep(e)
  PROVE  RInv'
<1>1. CASE protect(e) \/ unprotect(e)
  BY <1>1 DEF protect, unprotect, RInv, CurInRing, ScanIdle, FileWhole,
              RingsInOrder, ChildrenListed, FlushComplete, scanVars, callVars,
              slistVars
<1>2. CASE make_space_missing(e)
  <2>1. pc' \in {"idle", "flushed"}
    BY <1>2 DEF make_space_missing, MayTouch
  <2>2. /\ UNCHANGED <<call, failed, slistVars>>
        /\ pc' = "flushed" => pc = "flush"
    BY <1>2 DEF make_space_missing, MayTouch
  <2>3. CurInRing' /\ ScanIdle' /\ RingsInOrder' /\ FlushComplete'
    BY <2>1 DEF CurInRing, ScanIdle, RingsInOrder, FlushComplete
  <2>4. FileWhole'
    BY <2>1, <2>2 DEF RInv, FileWhole, slistVars
  <2> QED
    BY <2>3, <2>4 DEF RInv
<1>3. ASSUME MayTouch(e), Charge, UNCHANGED populated,
             \A x \in slist' : x \in slist \/ Ring[x] = Ring[e]
      PROVE  RInv'
  <2>1. pc \in {"idle", "flush"} /\ UNCHANGED <<scanVars, callVars>>
    BY <1>3 DEF MayTouch, Charge
  <2>2. pc = "flush" => Ring[e] >= ring
    BY <1>3 DEF MayTouch, RInv, CurInRing
  <2>3. CurInRing' /\ ScanIdle' /\ FlushComplete' /\ FileWhole'
    BY <1>3, <2>1 DEF RInv, CurInRing, ScanIdle, FlushComplete, FileWhole,
                      callVars
  <2>4. RingsInOrder'
    BY <1>3, <2>1, <2>2 DEF RInv, RingsInOrder, ChildrenListed, callVars
  <2> QED
    BY <2>3, <2>4 DEF RInv
<1>4. CASE dirty_entry(e) \/ insert_entry(e) \/ move_entry(e)
  <2>1. /\ MayTouch(e) /\ Charge /\ UNCHANGED populated
        /\ slist' \subseteq slist \cup {e} \cup (WithProxies(dirty \cup {e}) \ dirty)
    BY <1>4 DEF dirty_entry, insert_entry, move_entry, BecomeDirty, slist_insert
  <2>2. \A x \in slist' : x \in slist \/ Ring[x] = Ring[e]
    BY <2>1, ProxiesInRing
  <2> QED
    BY <1>3, <2>1, <2>2
<1>5. CASE load_entry(e) \/ make_space_flush(e) \/ make_space_evict(e)
  <2>1. /\ MayTouch(e) /\ Charge /\ UNCHANGED populated /\ slist' \subseteq slist
    BY <1>5 DEF load_entry, make_space_flush, make_space_evict, slist_remove,
                slistVars
  <2> QED
    BY <1>3, <2>1
<1> QED
  BY <1>1, <1>2, <1>4, <1>5 DEF ClientStep

\* A call starts at the outermost ring, with nothing to claim yet.
LEMMA StartRing ==
  ASSUME IInv', start_ring(1), (call # "tagged" /\ ~failed => populated)'
  PROVE  RInv'
<1>1. pc' = "ring" /\ ring' = 1 /\ flushed_entries_last_pass' = TRUE
  BY DEF start_ring
<1>2. CurInRing' /\ ScanIdle' /\ FlushComplete'
  BY <1>1 DEF CurInRing, ScanIdle, FlushComplete
<1>3. \A e \in slist' : Ring[e] \in 1..NRing
  BY RingAssumption DEF IInv, TypeOK
<1>4. RingsInOrder'
  BY <1>1, <1>3, RingAssumption DEF RingsInOrder
<1> QED
  BY <1>2, <1>4 DEF RInv, FileWhole

\* One pass after another: each step of the scan keeps what it knows.
LEMMA ScanRings ==
  ASSUME IInv, RInv, begin_pass \/ visit \/ flush_done \/ flush_fails \/ end_pass
  PROVE  RInv'
<1>1. /\ slist' \subseteq slist /\ UNCHANGED <<call, failed, populated, ring>>
      /\ pc' \in {"visit", "flush", "flushed", "ring"}
      /\ pc \in {"visit", "flush", "ring"}
      /\ pc' \in {"visit", "flush", "ring"} => pc \in {"visit", "flush", "ring"}
  BY DEF begin_pass, visit, flush_done, flush_fails, end_pass, slistVars
<1>2. FileWhole' /\ FlushComplete'
  BY <1>1 DEF RInv, FileWhole, FlushComplete
<1>3. RingsInOrder'
  BY <1>1 DEF RInv, RingsInOrder, ChildrenListed
<1>4. CurInRing'
  BY <1>1 DEF begin_pass, visit, flush_done, flush_fails, end_pass, RInv,
              CurInRing, Eligible
<1>5. ScanIdle'
  <2>1. CASE begin_pass
    <3>1. pc' = "visit" /\ visited' = {} /\ node' \in slist /\ slist \subseteq Entry
      BY <2>1 DEF begin_pass, IInv, TypeOK
    <3> QED
      BY <3>1, EntryAssumption DEF ScanIdle
  <2>2. CASE visit
    <3>1. /\ pc = "visit" /\ NextNode(visited \cup {node})
          /\ visited' = visited \cup {node}
          /\ UNCHANGED <<dirty, slist, ring, flushed_entries_last_pass>>
          /\ pc' \in {"visit", "flush"}
          /\ ~tried_to_flush_protected_entry' =>
               /\ ~tried_to_flush_protected_entry
               /\ pc' = "visit" => ~Eligible(node)
      BY <2>2 DEF visit, slistVars
    <3>2. \A e : Eligible(e)' <=> Eligible(e)
      BY <3>1 DEF Eligible
    <3>3. node' = NoEntry => slist \subseteq visited'
      BY <3>1, EntryAssumption DEF NextNode, IInv, TypeOK
    <3> QED
      BY <3>1, <3>2, <3>3 DEF RInv, ScanIdle
  <2>3. CASE end_pass
    <3>1. /\ pc = "visit" /\ node = NoEntry /\ pc' = "ring"
          /\ UNCHANGED <<dirty, slist, ring, flushed_entries_last_pass,
                         tried_to_flush_protected_entry>>
      BY <2>3 DEF end_pass, slistVars, scanVars
    <3>2. \A e : Eligible(e)' <=> Eligible(e)
      BY <3>1 DEF Eligible
    <3> QED
      BY <3>1, <3>2 DEF RInv, ScanIdle
  <2>4. CASE flush_done \/ flush_fails
    BY <2>4 DEF flush_done, flush_fails, ScanIdle
  <2> QED
    BY <2>1, <2>2, <2>3, <2>4
<1> QED
  BY <1>2, <1>3, <1>4, <1>5 DEF RInv

\* From one ring to the next, and the end of the call.
LEMMA EndRings ==
  ASSUME IInv, IInv', RInv,
         \/ end_ring \/ flush_again \/ secure_from_file_flush \/ end_tagged
         \/ return
  PROVE  RInv'
<1>1. CASE end_ring
  <2>1. /\ UNCHANGED <<slist, populated, call, failed>>
        /\ pc = "ring" /\ pc' \in {"ring", "flushed"}
        /\ pc' = "ring" => /\ ~RingFailed /\ ring' = ring + 1
                           /\ flushed_entries_last_pass' = TRUE
    BY <1>1 DEF end_ring, start_ring
  <2>2. CurInRing' /\ ScanIdle' /\ FlushComplete' /\ FileWhole'
    BY <2>1 DEF RInv, CurInRing, ScanIdle, FlushComplete, FileWhole
  <2>3. ASSUME ChildrenListed', pc' = "ring", NEW e \in slist'
        PROVE  Ring[e] >= ring'
    <3>1. ChildrenListed /\ e \in slist
      BY <2>1, <2>3 DEF ChildrenListed
    <3>2. InRing = {}
      BY <1>1, <2>1, <2>3, <3>1, RingEmptied
    <3>3. Ring[e] # ring /\ Ring[e] >= ring
      BY <2>1, <3>1, <3>2 DEF InRing, RInv, RingsInOrder
    <3>4. Ring[e] \in Nat /\ ring \in Nat
      BY <3>1, RingAssumption DEF IInv, TypeOK
    <3> QED
      BY <2>1, <2>3, <3>3, <3>4
  <2>4. RingsInOrder'
    BY <2>1, <2>3 DEF RingsInOrder
  <2> QED
    BY <2>2, <2>4 DEF RInv
<1>2. CASE flush_again
  <2>1. /\ start_ring(1) /\ call = "file1" /\ pc = "flushed"
        /\ UNCHANGED populated
        /\ ~failed' => ~failed
    BY <1>2 DEF flush_again
  <2>2. pc \notin {"idle", "done"} /\ call # "tagged"
    BY <2>1
  <2>3. ~failed => populated
    BY <2>2 DEF RInv, FileWhole
  <2>4. (call # "tagged" /\ ~failed => populated)'
    BY <2>1, <2>3
  <2> QED
    BY <2>1, <2>4, StartRing
<1>3. CASE secure_from_file_flush \/ end_tagged \/ return
  <2>1. pc' \in {"done", "idle"}
    BY <1>3 DEF secure_from_file_flush, end_tagged, return
  <2>2. CurInRing' /\ ScanIdle' /\ FileWhole' /\ RingsInOrder'
    BY <2>1 DEF CurInRing, ScanIdle, FileWhole, RingsInOrder
  <2>3. (slist_enabled /\ dirty \cap Tagged \subseteq slist) \/ pc = "done"
    BY <1>3 DEF secure_from_file_flush, end_tagged, return, IInv, BusyEnabled,
                SlistAgree
  <2>4. FlushComplete'
    <3>1. CASE secure_from_file_flush
      <4>1. /\ pc = "flushed" /\ call = "file2" /\ UNCHANGED <<call, dirty>>
            /\ ~failed' => ~failed /\ slist = {}
            /\ slist_enabled' = (slist # {})
        BY <3>1 DEF secure_from_file_flush, disable_slist
      <4>2. ~failed' => populated
        BY <4>1 DEF RInv, FileWhole
      <4>3. ~failed' => dirty = {}
        BY <2>3, <4>1, <4>2 DEF IInv, SlistAgree
      <4> QED
        BY <4>1, <4>3 DEF FlushComplete
    <3>2. CASE end_tagged
      <4>1. /\ pc = "flushed" /\ call = "tagged" /\ UNCHANGED <<call, dirty>>
            /\ ~failed' => slist = {} /\ slist_enabled' = (slist # {})
        BY <3>2 DEF end_tagged, disable_slist
      <4> QED
        BY <2>3, <4>1 DEF FlushComplete
    <3>3. CASE return
      BY <3>3 DEF return, FlushComplete
    <3> QED
      BY <1>3, <3>1, <3>2, <3>3
  <2> QED
    BY <2>2, <2>4 DEF RInv
<1> QED
  BY <1>1, <1>2, <1>3

\* Every step of a flush, of its callers or of a callback leaves the rings in
\* order and claims success only of a complete flush.
LEMMA RingsStep == IInv /\ IInv' /\ RInv /\ [Next]_vars => RInv'
<1> SUFFICES ASSUME IInv, IInv', RInv, [Next]_vars PROVE RInv'
  OBVIOUS
<1>1. CASE \E e \in Entry : ClientStep(e)
  BY <1>1, ClientRings
<1>2. CASE move_self
  BY <1>2 DEF move_self, Charge, RInv, CurInRing, ScanIdle, FileWhole,
              RingsInOrder, ChildrenListed, FlushComplete, scanVars, callVars
<1>3. CASE flush_phase2
  <2>1. start_ring(1) /\ (call # "tagged" /\ ~failed => populated)'
    BY <1>3 DEF flush_phase2
  <2> QED
    BY <2>1, StartRing
<1>4. CASE flush_tagged_entries
  BY <1>4, StartRing DEF flush_tagged_entries
<1>5. CASE FlushStep
  BY <1>5, ScanRings, EndRings DEF FlushStep
<1>6. CASE UNCHANGED vars
  BY <1>6 DEF vars, slistVars, scanVars, callVars, RInv, CurInRing, ScanIdle,
              FileWhole, RingsInOrder, ChildrenListed, FlushComplete, Eligible
<1> QED
  BY <1>1, <1>2, <1>3, <1>4, <1>5, <1>6 DEF Next

\* What is said of the rings and of complete flushes holds in every state.
LEMMA RingsInductive == Spec => []RInv
<1>1. Init => RInv
  BY DEF Init, RInv, CurInRing, ScanIdle, FileWhole, RingsInOrder, FlushComplete
<1> QED
  BY <1>1, RingsStep, Inductive, PTL DEF Spec

\* H5C__flush_ring starts a ring only when the skip list has nothing left in
\* the rings outside of it, whatever callbacks do and whatever is protected:
\* in every flush of a file, and in a flush of an object on which alone flush
\* dependencies are placed.
THEOREM RingsInOrderHolds == Spec => []RingsInOrder
<1>1. RInv => RingsInOrder
  BY DEF RInv
<1> QED
  BY <1>1, RingsInductive, PTL

\* A flush that returns success has written every entry it was asked to, also
\* those dirtied or inserted in the middle of it, and has closed the skip list.
THEOREM FlushCompleteHolds == Spec => []FlushComplete
<1>1. RInv => FlushComplete
  BY DEF RInv
<1> QED
  BY <1>1, RingsInductive, PTL
=============================================================================
