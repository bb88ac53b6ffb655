--------------------------- MODULE RecRWLock_proof ---------------------------
(***************************************************************************)
(* Proofs about RecRWLock, for any finite set of threads and any bound on  *)
(* the recursion depth: type correctness, mutual exclusion, no lost        *)
(* wake-up, no hold and wait, and that the lock implements RWLockSpec.     *)
(*                                                                         *)
(* The inductive invariant is IInv.  Mutual exclusion needs the counters   *)
(* to agree with what was granted (CountersAgree); that in turn needs that *)
(* a waiting thread holds nothing (NoHoldAndWait), or a woken thread could *)
(* be granted a lock on top of one it forgot.                              *)
(***************************************************************************)
EXTENDS RecRWLock, FiniteSetTheorems, TLAPS

\* The counted sets are finite, so adding or removing a thread moves their
\* cardinality by one.
LEMMA CountedSets ==
  /\ IsFiniteSet(Readers) /\ Cardinality(Readers) \in Nat
  /\ IsFiniteSet(WaitingWriters) /\ Cardinality(WaitingWriters) \in Nat
  /\ Cardinality(Readers) = 0 <=> Readers = {}
  /\ Cardinality(WaitingWriters) = 0 <=> WaitingWriters = {}
<1>1. Readers \subseteq Threads /\ WaitingWriters \subseteq Threads
  BY DEF Readers, WaitingWriters
<1>2. IsFiniteSet(Readers) /\ IsFiniteSet(WaitingWriters)
  BY <1>1, ThreadsAssumption, FS_Subset
<1> QED
  BY <1>2, FS_CardinalityType, FS_EmptySet

\* The lock starts free, with nobody in it.
LEMMA InitIInv == Init => IInv
<1> SUFFICES ASSUME Init PROVE IInv
  OBVIOUS
<1>1. TypeOK
  BY DEF Init, TypeOK, PC
<1>2. Readers = {} /\ WaitingWriters = {}
  BY DEF Init, Readers, WaitingWriters
<1>3. CountersAgree
  BY <1>2, FS_EmptySet DEF Init, CountersAgree, IsWriter
<1>4. NoLostWakeup /\ NoHoldAndWait /\ TsdAgrees
  BY DEF Init, NoLostWakeup, NoHoldAndWait, TsdAgrees, Waiting, In
<1> QED
  BY <1>1, <1>3, <1>4 DEF IInv

\* What waking the next thread does: nobody starts or stops waiting, the
\* waiting writers stay the same set, and if anyone is left blocked then
\* some writer is awake.
LEMMA WakeNextEffect ==
  ASSUME TypeOK, WakeNext, waiting_writers_count = Cardinality(WaitingWriters)
  PROVE  /\ pc' \in [Threads -> PC]
         /\ \A u \in Threads : pc'[u] = "idle" <=> pc[u] = "idle"
         /\ WaitingWriters' = WaitingWriters
         /\ In("readers_cv")' \cup In("writers_cv")' # {}
              => In("wr_woken")' # {}
<1>1. CASE waiting_writers_count > 0
  <2>1. cond_signal("writers_cv")
    BY <1>1 DEF WakeNext
  <2>2. WaitingWriters # {}
    BY <1>1, CountedSets
  <2>3. CASE In("writers_cv") = {} /\ UNCHANGED pc
    BY <2>2, <2>3 DEF TypeOK, In, WaitingWriters, PC
  <2>4. ASSUME NEW u \in In("writers_cv"),
               pc' = [pc EXCEPT ![u] = "wr_woken"]
        PROVE  /\ pc' \in [Threads -> PC]
               /\ \A v \in Threads : pc'[v] = "idle" <=> pc[v] = "idle"
               /\ WaitingWriters' = WaitingWriters
               /\ In("wr_woken")' # {}
    BY <2>4 DEF TypeOK, In, WaitingWriters, PC
  <2> QED
    BY <2>1, <2>3, <2>4 DEF cond_signal, Woken
<1>2. CASE ~(waiting_writers_count > 0)
  <2>1. pc' = [u \in Threads |-> IF pc[u] = "readers_cv" THEN "rd_woken"
                                                         ELSE pc[u]]
    BY <1>2 DEF WakeNext, cond_broadcast, Woken
  <2>2. WaitingWriters = {}
    BY <1>2, CountedSets
  <2> QED
    BY <2>1, <2>2 DEF TypeOK, In, WaitingWriters, PC
<1> QED
  BY <1>1, <1>2

-----------------------------------------------------------------------------
(***************************************************************************)
(* One lemma per kind of step: each preserves IInv.                        *)
(***************************************************************************)

\* A refused call changes neither the lock nor what is held.
LEMMA RefuseStep ==
  ASSUME IInv, NEW t \in Threads, pc[t] = "idle", Refuse(t) PROVE IInv'
<1> USE DEF Refuse, Return, lockVars, heldVars
<1>1. pc' = pc
  BY DEF IInv, TypeOK
<1>2. Readers' = Readers /\ WaitingWriters' = WaitingWriters
  BY <1>1 DEF Readers, WaitingWriters
<1> QED
  BY <1>1, <1>2 DEF IInv, TypeOK, CountersAgree, IsWriter, TsdAgrees,
     NoLostWakeup, In, NoHoldAndWait, Waiting

\* A thread that blocks on readers_cv does so while the lock is written.
LEMMA RdWaitStep ==
  ASSUME IInv, NEW t \in Threads, rdlock_wait(t) PROVE IInv'
<1> USE DEF rdlock_wait, Block, lockVars, heldVars
<1>1. Readers' = Readers /\ WaitingWriters' = WaitingWriters
  BY DEF Readers, WaitingWriters, IInv, TypeOK
<1>2. rd_held[t] = 0 /\ wr_held[t] = 0
  BY DEF IInv, CountersAgree, TypeOK
<1> QED
  BY <1>1, <1>2 DEF IInv, TypeOK, PC, CountersAgree, IsWriter, TsdAgrees,
     NoLostWakeup, In, NoHoldAndWait, Waiting

\* A recursive read lock deepens what the thread holds.
LEMMA RdRecursiveStep ==
  ASSUME IInv, NEW t \in Threads, rdlock_recursive(t) PROVE IInv'
<1> USE DEF rdlock_recursive, Return, lockVars
<1>1. Readers' = Readers /\ WaitingWriters' = WaitingWriters /\ pc' = pc
  BY DEF Readers, WaitingWriters, IInv, TypeOK, CountersAgree
<1>2. t \in tsd
  BY DEF IInv, TsdAgrees
<1> QED
  BY <1>1, <1>2 DEF IInv, TypeOK, PC, CountersAgree, IsWriter, TsdAgrees,
     NoLostWakeup, In, NoHoldAndWait, Waiting

\* A first read lock is granted to a thread that held nothing, and only
\* while nobody holds the write lock.
LEMMA GrantReadStep ==
  ASSUME IInv, NEW t \in Threads, GrantRead(t), lock_type # "WRITE",
         count[t] = 0, pc[t] \in {"idle", "rd_woken"},
         tsd' = tsd \cup {t}
  PROVE  IInv'
<1> USE DEF GrantRead, Return
<1>1. WaitingWriters' = WaitingWriters
  BY DEF WaitingWriters, IInv, TypeOK
<1>2. Readers' = Readers \cup {t} /\ t \notin Readers
  BY DEF Readers, IInv, TypeOK, CountersAgree
<1>3. Cardinality(Readers') = Cardinality(Readers) + 1
  BY <1>2, CountedSets, FS_AddElement
<1> QED
  BY <1>1, <1>2, <1>3 DEF IInv, TypeOK, PC, CountersAgree, IsWriter,
     TsdAgrees, NoLostWakeup, In, NoHoldAndWait, Waiting

\* The loop of a woken reader: it blocks again only while the lock is
\* written, and otherwise takes it.
LEMMA RdRetestStep ==
  ASSUME IInv, NEW t \in Threads, rdlock_retest(t) PROVE IInv'
<1>1. CASE lock_type = "WRITE"
  <2> USE <1>1 DEF rdlock_retest, Block, lockVars, heldVars
  <2>1. Readers' = Readers /\ WaitingWriters' = WaitingWriters
    BY DEF Readers, WaitingWriters, IInv, TypeOK
  <2> QED
    BY <2>1 DEF IInv, TypeOK, PC, CountersAgree, IsWriter, TsdAgrees,
       NoLostWakeup, In, NoHoldAndWait, Waiting
<1>2. CASE lock_type # "WRITE"
  <2>1. GrantRead(t) /\ pc[t] = "rd_woken" /\ count[t] = 0
    BY <1>2 DEF rdlock_retest, IInv, NoHoldAndWait, Waiting, CountersAgree
  <2>2. tsd' = tsd \cup {t}
    BY <2>1 DEF rdlock_retest, IInv, TsdAgrees
  <2> QED
    BY <1>2, <2>1, <2>2, GrantReadStep
<1> QED
  BY <1>1, <1>2

\* All ends of a call of H5TS__rec_rwlock_rdlock.
LEMMA RdLockStep ==
  ASSUME IInv, NEW t \in Threads, rdlock(t) PROVE IInv'
<1>1. CASE rdlock_refused(t)
  BY <1>1, RefuseStep DEF rdlock_refused
<1>2. CASE rdlock_grant(t)
  BY <1>2, GrantReadStep DEF rdlock_grant
<1> QED
  BY <1>1, <1>2, RdWaitStep, RdRecursiveStep DEF rdlock

\* A recursive write lock deepens what the owner holds.
LEMMA WrRecursiveStep ==
  ASSUME IInv, NEW t \in Threads, wrlock_recursive(t) PROVE IInv'
<1> USE DEF wrlock_recursive, Return
<1>1. Readers' = Readers /\ WaitingWriters' = WaitingWriters /\ pc' = pc
  BY DEF Readers, WaitingWriters, IInv, TypeOK, CountersAgree
<1> QED
  BY <1>1 DEF IInv, TypeOK, PC, CountersAgree, IsWriter, TsdAgrees,
     NoLostWakeup, In, NoHoldAndWait, Waiting

\* A thread that blocks on writers_cv holds no lock: a reader would have
\* been refused, the writer would have recursed.
LEMMA WrWaitStep ==
  ASSUME IInv, NEW t \in Threads, wrlock_wait(t) PROVE IInv'
<1> USE DEF wrlock_wait, Block, heldVars
<1>1. Readers' = Readers
  BY DEF Readers
<1>2. WaitingWriters' = WaitingWriters \cup {t} /\ t \notin WaitingWriters
  BY DEF WaitingWriters, IInv, TypeOK
<1>3. Cardinality(WaitingWriters') = Cardinality(WaitingWriters) + 1
  BY <1>2, CountedSets, FS_AddElement
<1>4. rd_held[t] = 0 /\ wr_held[t] = 0
  BY DEF IInv, TypeOK, CountersAgree, TsdAgrees, MayWrite, Readers
<1> QED
  BY <1>1, <1>2, <1>3, <1>4 DEF IInv, TypeOK, PC, CountersAgree, IsWriter,
     TsdAgrees, NoLostWakeup, In, NoHoldAndWait, Waiting

\* The write lock is granted only while the lock is unused.
LEMMA GrantWriteStep ==
  ASSUME IInv, NEW t \in Threads, GrantWrite(t), lock_type = "UNUSED",
         waiting_writers_count' \in Nat,
         waiting_writers_count' = Cardinality(WaitingWriters')
  PROVE  IInv'
<1> USE DEF GrantWrite, Return
<1>1. Readers' = Readers /\ Readers = {}
  BY DEF Readers, IInv, CountersAgree
<1> QED
  BY <1>1 DEF IInv, TypeOK, PC, CountersAgree, IsWriter,
     TsdAgrees, NoLostWakeup, In, NoHoldAndWait, Waiting, Readers

\* The loop of a woken writer: it stays counted while it blocks again, and
\* leaves the count as it takes the lock.
LEMMA WrRetestStep ==
  ASSUME IInv, NEW t \in Threads, wrlock_retest(t) PROVE IInv'
<1>1. CASE lock_type # "UNUSED"
  <2> USE <1>1 DEF wrlock_retest, Block, lockVars, heldVars
  <2>1. Readers' = Readers /\ WaitingWriters' = WaitingWriters
    BY DEF Readers, WaitingWriters, IInv, TypeOK
  <2> QED
    BY <2>1 DEF IInv, TypeOK, PC, CountersAgree, IsWriter, TsdAgrees,
       NoLostWakeup, In, NoHoldAndWait, Waiting
<1>2. CASE lock_type = "UNUSED"
  <2> USE <1>2 DEF wrlock_retest
  <2>1. WaitingWriters' = WaitingWriters \ {t} /\ t \in WaitingWriters
    BY DEF WaitingWriters, IInv, TypeOK, GrantWrite, Return
  <2>2. /\ Cardinality(WaitingWriters') = Cardinality(WaitingWriters) - 1
        /\ Cardinality(WaitingWriters') \in Nat
    BY <2>1, CountedSets, FS_RemoveElement, FS_CardinalityType
  <2> QED
    BY <2>2, GrantWriteStep DEF IInv, CountersAgree
<1> QED
  BY <1>1, <1>2

\* All ends of a call of H5TS__rec_rwlock_wrlock.
LEMMA WrLockStep ==
  ASSUME IInv, NEW t \in Threads, wrlock(t) PROVE IInv'
<1>1. CASE wrlock_refused(t)
  BY <1>1, RefuseStep DEF wrlock_refused
<1>2. CASE wrlock_grant(t)
  <2>1. WaitingWriters' = WaitingWriters
    BY <1>2 DEF wrlock_grant, GrantWrite, Return, WaitingWriters, IInv, TypeOK
  <2> QED
    BY <1>2, <2>1, GrantWriteStep DEF wrlock_grant, IInv, CountersAgree, TypeOK
<1> QED
  BY <1>1, <1>2, WrWaitStep, WrRecursiveStep DEF wrlock

\* Only the last release of the last reader frees the lock, and it leaves
\* an awake writer behind if anyone is still blocked.
LEMMA RdUnlockStep ==
  ASSUME IInv, NEW t \in Threads, rdunlock(t) PROVE IInv'
<1> USE DEF rdunlock
<1>1. t \in Readers /\ count[t] = rd_held[t] /\ count[t] \in Nat \ {0}
  BY DEF Readers, IInv, CountersAgree, TypeOK
<1>2. CASE count[t] # 1
  <2>1. Readers' = Readers /\ WaitingWriters' = WaitingWriters
    BY <1>1, <1>2 DEF Readers, WaitingWriters, IInv, TypeOK
  <2> QED
    BY <1>1, <1>2, <2>1 DEF IInv, TypeOK, PC, CountersAgree, IsWriter,
       TsdAgrees, NoLostWakeup, In, NoHoldAndWait, Waiting
<1>3. CASE count[t] = 1
  <2>1. Readers' = Readers \ {t}
    BY <1>1, <1>3 DEF Readers, IInv, TypeOK
  <2>2. /\ Cardinality(Readers') = Cardinality(Readers) - 1
        /\ Cardinality(Readers') \in Nat
        /\ Cardinality(Readers') = 0 <=> Readers' = {}
    BY <1>1, <2>1, CountedSets, FS_RemoveElement, FS_CardinalityType,
       FS_EmptySet
  <2>3. CASE reader_thread_count # 1
    <3>1. WaitingWriters' = WaitingWriters /\ Readers' # {}
      BY <1>3, <2>2, <2>3 DEF WaitingWriters, IInv, CountersAgree
    <3> QED
      BY <1>1, <1>3, <2>2, <2>3, <3>1 DEF IInv, TypeOK, PC, CountersAgree,
         IsWriter, TsdAgrees, NoLostWakeup, In, NoHoldAndWait, Waiting
  <2>4. CASE reader_thread_count = 1
    <3>1. WakeNext /\ lock_type' = "UNUSED" /\ Readers' = {}
      BY <1>3, <2>2, <2>4 DEF IInv, CountersAgree
    <3>2. /\ pc' \in [Threads -> PC]
          /\ \A u \in Threads : pc'[u] = "idle" <=> pc[u] = "idle"
          /\ WaitingWriters' = WaitingWriters
          /\ NoLostWakeup'
      BY <3>1, WakeNextEffect DEF IInv, CountersAgree, NoLostWakeup
    <3>3. \A u \in Threads : pc'[u] \in {"readers_cv", "rd_woken"}
                               => pc[u] \in {"readers_cv", "rd_woken"}
      BY <3>2 DEF WaitingWriters, IInv, TypeOK, PC
    <3>4. TypeOK'
      <4>1. /\ count' \in [Threads -> Nat] /\ rd_held' \in [Threads -> Nat]
            /\ ret' \in [Threads -> {"SUCCEED", "FAIL"}]
            /\ reader_thread_count' \in Nat
        BY <1>1, <1>3, <2>4 DEF IInv, TypeOK
      <4> QED
        BY <3>1, <3>2, <4>1 DEF IInv, TypeOK
    <3>5. TsdAgrees'
      BY <3>3, <1>1, <3>4 DEF IInv, TsdAgrees, TypeOK
    <3>6. NoHoldAndWait'
      BY <3>2 DEF IInv, NoHoldAndWait, Waiting, TypeOK
    <3>7. CountersAgree'
      BY <1>1, <1>3, <2>2, <2>4, <3>1, <3>2
         DEF IInv, TypeOK, CountersAgree, IsWriter
    <3> QED
      BY <3>2, <3>4, <3>5, <3>6, <3>7 DEF IInv
  <2> QED
    BY <2>3, <2>4
<1> QED
  BY <1>2, <1>3

\* The last write unlock frees the lock and wakes somebody if anyone waits.
LEMMA WrUnlockStep ==
  ASSUME IInv, NEW t \in Threads, wrunlock(t) PROVE IInv'
<1> USE DEF wrunlock
<1>1. /\ write_thread = t /\ Readers' = Readers /\ Readers = {}
      /\ rec_write_lock_count = wr_held[t] /\ wr_held[t] \in Nat \ {0}
  BY DEF IInv, CountersAgree, IsWriter, TypeOK, Readers
<1>2. CASE rec_write_lock_count # 1
  <2>1. WaitingWriters' = WaitingWriters
    BY <1>2 DEF WaitingWriters
  <2> QED
    BY <1>1, <1>2, <2>1 DEF IInv, TypeOK, PC, CountersAgree, IsWriter,
       TsdAgrees, NoLostWakeup, In, NoHoldAndWait, Waiting
<1>3. CASE rec_write_lock_count = 1
  <2>1. WakeNext /\ lock_type' = "UNUSED"
    BY <1>3
  <2>2. /\ pc' \in [Threads -> PC]
        /\ \A u \in Threads : pc'[u] = "idle" <=> pc[u] = "idle"
        /\ WaitingWriters' = WaitingWriters
        /\ NoLostWakeup'
    BY <2>1, WakeNextEffect DEF IInv, CountersAgree, NoLostWakeup
  <2>3. \A u \in Threads : pc'[u] \in {"readers_cv", "rd_woken"}
                             => pc[u] \in {"readers_cv", "rd_woken"}
    BY <2>2 DEF WaitingWriters, IInv, TypeOK, PC
  <2>4. TypeOK'
    <3>1. /\ wr_held' \in [Threads -> Nat] /\ rec_write_lock_count' \in Nat
          /\ ret' \in [Threads -> {"SUCCEED", "FAIL"}]
      BY <1>1, <1>3 DEF IInv, TypeOK
    <3> QED
      BY <2>1, <2>2, <3>1 DEF IInv, TypeOK
  <2>5. TsdAgrees'
    BY <2>3 DEF IInv, TsdAgrees
  <2>6. NoHoldAndWait'
    BY <2>2 DEF IInv, NoHoldAndWait, Waiting, TypeOK
  <2>7. CountersAgree'
    BY <1>1, <1>3, <2>1, <2>2 DEF IInv, TypeOK, CountersAgree, IsWriter
  <2> QED
    BY <2>2, <2>4, <2>5, <2>6, <2>7 DEF IInv
<1> QED
  BY <1>2, <1>3

\* A spurious wake-up grants nothing.
LEMMA SpuriousWakeupStep ==
  ASSUME IInv, NEW t \in Threads, SpuriousWakeup(t) PROVE IInv'
<1> USE DEF SpuriousWakeup, Woken, lockVars, heldVars
<1>1. Readers' = Readers /\ WaitingWriters' = WaitingWriters
  BY DEF Readers, WaitingWriters, IInv, TypeOK
<1> QED
  BY <1>1 DEF IInv, TypeOK, PC, CountersAgree, IsWriter, TsdAgrees,
     NoLostWakeup, In, NoHoldAndWait, Waiting

\* A thread that ends holds no lock and waits for none.
LEMMA ThreadExitStep ==
  ASSUME IInv, NEW t \in Threads, ThreadExit(t) PROVE IInv'
<1> USE DEF ThreadExit, lockVars, heldVars
<1>1. Readers' = Readers /\ WaitingWriters' = WaitingWriters
  BY DEF Readers, WaitingWriters
<1> QED
  BY <1>1 DEF IInv, TypeOK, PC, CountersAgree, IsWriter, TsdAgrees,
     NoLostWakeup, In, NoHoldAndWait, Waiting

\* Every step of the lock preserves the invariant.
LEMMA NextIInv == IInv /\ [Next]_vars => IInv'
<1> SUFFICES ASSUME IInv, [Next]_vars PROVE IInv'
  OBVIOUS
<1>1. ASSUME NEW t \in Threads, Request(t) PROVE IInv'
  BY <1>1, RdLockStep, WrLockStep DEF Request
<1>2. ASSUME NEW t \in Threads, Release(t) PROVE IInv'
  BY <1>2, RdUnlockStep, WrUnlockStep DEF Release
<1>3. ASSUME NEW t \in Threads, Retest(t) PROVE IInv'
  BY <1>3, RdRetestStep, WrRetestStep DEF Retest
<1>4. ASSUME NEW t \in Threads, rdunlock_refused(t) \/ wrunlock_refused(t)
      PROVE  IInv'
  BY <1>4, RefuseStep DEF rdunlock_refused, wrunlock_refused
<1>5. CASE UNCHANGED vars
  <2> USE <1>5 DEF vars, lockVars, heldVars
  <2>1. Readers' = Readers /\ WaitingWriters' = WaitingWriters
    BY DEF Readers, WaitingWriters
  <2> QED
    BY <2>1 DEF IInv, TypeOK, CountersAgree, IsWriter, TsdAgrees,
       NoLostWakeup, In, NoHoldAndWait, Waiting
<1> QED
  BY <1>1, <1>2, <1>3, <1>4, <1>5, SpuriousWakeupStep, ThreadExitStep
     DEF Next
-----------------------------------------------------------------------------
(***************************************************************************)
(* The theorems.                                                           *)
(***************************************************************************)

\* The fields of the lock keep their types: in particular no counter of
\* H5TS_rec_rwlock_t ever goes below zero.
THEOREM TypeCorrect == Spec => []TypeOK
<1>1. IInv => TypeOK
  BY DEF IInv
<1> QED
  BY <1>1, InitIInv, NextIInv, PTL DEF Spec

\* The lock never admits a writer next to anyone else.
THEOREM MutualExclusionHolds == Spec => []MutualExclusion
<1>1. IInv => MutualExclusion
  BY DEF IInv, MutualExclusion, CountersAgree, IsWriter, TypeOK, Readers
<1> QED
  BY <1>1, InitIInv, NextIInv, PTL DEF Spec

\* The lock's own counters always agree with what the threads hold.
THEOREM CountersAgreeHolds == Spec => []CountersAgree
<1>1. IInv => CountersAgree
  BY DEF IInv
<1> QED
  BY <1>1, InitIInv, NextIInv, PTL DEF Spec

\* The wake-up protocol of the unlock functions leaves nobody asleep on a
\* free lock without an awake writer.
THEOREM NoLostWakeupHolds == Spec => []NoLostWakeup
<1>1. IInv => NoLostWakeup
  BY DEF IInv
<1> QED
  BY <1>1, InitIInv, NextIInv, PTL DEF Spec

\* A thread never waits for the lock while it holds it.
THEOREM NoHoldAndWaitHolds == Spec => []NoHoldAndWait
<1>1. IInv => NoHoldAndWait
  BY DEF IInv
<1> QED
  BY <1>1, InitIInv, NextIInv, PTL DEF Spec
-----------------------------------------------------------------------------
(***************************************************************************)
(* The lock implements RWLockSpec.                                         *)
(***************************************************************************)

\* What is held changes by one grant or one release that RWLockSpec allows.
LEMMA StepRefines == IInv /\ [Next]_vars => [RWLock!Next]_(RWLock!vars)
<1> SUFFICES ASSUME IInv, [Next]_vars
             PROVE  RWLock!Next \/ UNCHANGED heldVars
  BY DEF RWLock!vars, heldVars
<1>1. ASSUME NEW t \in Threads, GrantRead(t), lock_type # "WRITE"
      PROVE  RWLock!AcquireRead(t)
  BY <1>1 DEF GrantRead, RWLock!AcquireRead, IInv, CountersAgree, IsWriter,
     TypeOK
<1>2. ASSUME NEW t \in Threads, GrantWrite(t), lock_type = "UNUSED"
      PROVE  RWLock!AcquireWrite(t)
  BY <1>2 DEF GrantWrite, RWLock!AcquireWrite, IInv, CountersAgree, IsWriter,
     TypeOK, Readers
<1>3. ASSUME NEW t \in Threads, rdlock_recursive(t)
      PROVE  RWLock!AcquireRead(t)
  BY <1>3 DEF rdlock_recursive, RWLock!AcquireRead, IInv, CountersAgree,
     IsWriter, TypeOK, Readers
<1>4. ASSUME NEW t \in Threads, wrlock_recursive(t)
      PROVE  RWLock!AcquireWrite(t)
  BY <1>4 DEF wrlock_recursive, RWLock!AcquireWrite, IInv, CountersAgree,
     IsWriter, TypeOK, Readers
<1>5. ASSUME NEW t \in Threads, Request(t)
      PROVE  RWLock!Next \/ UNCHANGED heldVars
  <2>1. CASE rdlock(t)
    BY <2>1, <1>1, <1>3 DEF rdlock, rdlock_refused, rdlock_wait, rdlock_grant,
       Refuse, heldVars, RWLock!Next
  <2>2. CASE wrlock(t)
    BY <2>2, <1>2, <1>4 DEF wrlock, wrlock_refused, wrlock_wait, wrlock_grant,
       Refuse, heldVars, RWLock!Next
  <2> QED
    BY <1>5, <2>1, <2>2 DEF Request
<1>6. ASSUME NEW t \in Threads, Retest(t)
      PROVE  RWLock!Next \/ UNCHANGED heldVars
  BY <1>6, <1>1, <1>2 DEF Retest, rdlock_retest, wrlock_retest, heldVars,
     RWLock!Next
<1>7. ASSUME NEW t \in Threads, Release(t)
      PROVE  RWLock!Next
  <2>1. CASE rdunlock(t)
    BY <2>1 DEF rdunlock, RWLock!ReleaseRead, RWLock!Next
  <2>2. CASE wrunlock(t)
    BY <2>2 DEF wrunlock, RWLock!ReleaseWrite, RWLock!Next
  <2> QED
    BY <1>7, <2>1, <2>2 DEF Release
<1> QED
  BY <1>5, <1>6, <1>7 DEF Next, rdunlock_refused, wrunlock_refused, Refuse,
     SpuriousWakeup, ThreadExit, vars, heldVars

\* Every behaviour of H5TSrec_rwlock.c is one of the abstract lock.
THEOREM LockImplementsRWLock == Spec => ImplementsRWLock
<1>1. Init => RWLock!Init
  BY DEF Init, RWLock!Init
<1> QED
  BY <1>1, InitIInv, NextIInv, StepRefines, PTL
     DEF Spec, ImplementsRWLock, RWLock!Spec
=============================================================================
