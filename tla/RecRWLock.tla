------------------------------ MODULE RecRWLock ------------------------------
(***************************************************************************)
(* The recursive readers / writer lock of the H5TS package                 *)
(* (src/src/H5TSrec_rwlock.c).                                             *)
(*                                                                         *)
(* Every function of the lock runs under lock->mutex from its first line   *)
(* to its last, and leaves the mutex only inside H5TS_cond_wait.  A step   *)
(* of the model is therefore one mutex section: a whole call, a call up    *)
(* to its cond_wait, or the section of a woken thread up to its return or  *)
(* its next cond_wait.  Which thread gets the mutex is the choice of the   *)
(* thread that takes the next step.                                        *)
(***************************************************************************)
EXTENDS Naturals, FiniteSets

CONSTANTS Threads,    \* the threads that use the lock
          NoThread,   \* value of write_thread before the first write lock
          MaxDepth    \* bound on the recursion depth of a thread

ASSUME ThreadsAssumption  == IsFiniteSet(Threads)
ASSUME NoThreadAssumption == NoThread \notin Threads
ASSUME MaxDepthAssumption == MaxDepth \in Nat \ {0}

VARIABLES
  lock_type,              \* "UNUSED", "READ" or "WRITE"
  write_thread,           \* owner of the write lock; stale once released
  rec_write_lock_count,   \* recursion depth of the write lock
  waiting_writers_count,  \* writers inside their cond_wait loop
  reader_thread_count,    \* threads that hold a read lock
  tsd,                    \* threads whose read lock counter is allocated
  count,                  \* the thread-specific read lock counters
  pc,                     \* where each thread is, see PC
  ret,                    \* result of each thread's last completed call
  rd_held, wr_held        \* auxiliary: locks granted minus locks released,
                          \* as the calling thread knows them

lockVars == <<lock_type, write_thread, rec_write_lock_count,
              waiting_writers_count, reader_thread_count>>
heldVars == <<rd_held, wr_held>>
vars == <<lockVars, tsd, count, pc, ret, heldVars>>

\* A thread is outside the lock's functions, blocked in a cond_wait, or
\* woken from it and about to get the mutex back.
PC == {"idle", "readers_cv", "rd_woken", "writers_cv", "wr_woken"}

\* The fields of the lock keep their types: the counters, which the unlock
\* functions decrement without a test, never go below zero.
TypeOK ==
  /\ lock_type \in {"UNUSED", "READ", "WRITE"}
  /\ write_thread \in Threads \cup {NoThread}
  /\ rec_write_lock_count \in Nat
  /\ waiting_writers_count \in Nat
  /\ reader_thread_count \in Nat
  /\ tsd \subseteq Threads
  /\ count \in [Threads -> Nat]
  /\ pc \in [Threads -> PC]
  /\ ret \in [Threads -> {"SUCCEED", "FAIL"}]
  /\ rd_held \in [Threads -> Nat]
  /\ wr_held \in [Threads -> Nat]

\* H5TS__rec_rwlock_init: memset to zero, H5TS_REC_RWLOCK_UNUSED being 0.
Init ==
  /\ lock_type = "UNUSED"
  /\ write_thread = NoThread
  /\ rec_write_lock_count = 0
  /\ waiting_writers_count = 0
  /\ reader_thread_count = 0
  /\ tsd = {}
  /\ count = [t \in Threads |-> 0]
  /\ pc = [t \in Threads |-> "idle"]
  /\ ret = [t \in Threads |-> "SUCCEED"]
  /\ rd_held = [t \in Threads |-> 0]
  /\ wr_held = [t \in Threads |-> 0]

IsWriter(t) == lock_type = "WRITE" /\ write_thread = t

In(state) == {t \in Threads : pc[t] = state}

Readers == {t \in Threads : rd_held[t] > 0}
WaitingWriters == {t \in Threads : pc[t] \in {"writers_cv", "wr_woken"}}

Return(t, result) == /\ ret' = [ret EXCEPT ![t] = result]
                     /\ pc' = [pc EXCEPT ![t] = "idle"]

Block(t, cv) == pc' = [pc EXCEPT ![t] = cv] /\ UNCHANGED ret

\* A call that is refused changes nothing.
Refuse(t) == Return(t, "FAIL") /\ UNCHANGED <<lockVars, tsd, count, heldVars>>
-----------------------------------------------------------------------------
(***************************************************************************)
(* H5TS__rec_rwlock_rdlock                                                 *)
(***************************************************************************)

\* A thread that holds the write lock may not take a read lock.
rdlock_refused(t) == pc[t] = "idle" /\ IsWriter(t) /\ Refuse(t)

\* A read lock on top of one the thread already holds, at any time.
rdlock_recursive(t) ==
  /\ pc[t] = "idle"
  /\ ~IsWriter(t)
  /\ count[t] > 0
  /\ count[t] < MaxDepth
  /\ count' = [count EXCEPT ![t] = @ + 1]
  /\ rd_held' = [rd_held EXCEPT ![t] = @ + 1]
  /\ Return(t, "SUCCEED")
  /\ UNCHANGED <<lockVars, tsd, wr_held>>

\* The first read lock of a thread while another thread writes.
rdlock_wait(t) ==
  /\ pc[t] = "idle"
  /\ ~IsWriter(t)
  /\ count[t] = 0
  /\ lock_type = "WRITE"
  /\ tsd' = tsd \cup {t}
  /\ Block(t, "readers_cv")
  /\ UNCHANGED <<lockVars, count, heldVars>>

GrantRead(t) ==
  /\ lock_type' = "READ"
  /\ reader_thread_count' = reader_thread_count + 1
  /\ count' = [count EXCEPT ![t] = @ + 1]
  /\ rd_held' = [rd_held EXCEPT ![t] = @ + 1]
  /\ Return(t, "SUCCEED")
  /\ UNCHANGED <<write_thread, rec_write_lock_count, waiting_writers_count,
                 wr_held>>

\* The first read lock of a thread while nobody writes: writers that wait
\* on writers_cv are not consulted.
rdlock_grant(t) ==
  /\ pc[t] = "idle"
  /\ count[t] = 0
  /\ lock_type # "WRITE"
  /\ tsd' = tsd \cup {t}
  /\ GrantRead(t)

\* The cond_wait loop of a reader.
rdlock_retest(t) ==
  /\ pc[t] = "rd_woken"
  /\ UNCHANGED tsd
  /\ IF lock_type = "WRITE"
       THEN Block(t, "readers_cv") /\ UNCHANGED <<lockVars, count, heldVars>>
       ELSE GrantRead(t)

rdlock(t) == \/ rdlock_refused(t)
             \/ rdlock_recursive(t)
             \/ rdlock_wait(t)
             \/ rdlock_grant(t)
-----------------------------------------------------------------------------
(***************************************************************************)
(* H5TS__rec_rwlock_wrlock                                                 *)
(***************************************************************************)

wrlock_recursive(t) ==
  /\ pc[t] = "idle"
  /\ IsWriter(t)
  /\ rec_write_lock_count < MaxDepth
  /\ rec_write_lock_count' = rec_write_lock_count + 1
  /\ wr_held' = [wr_held EXCEPT ![t] = @ + 1]
  /\ Return(t, "SUCCEED")
  /\ UNCHANGED <<lock_type, write_thread, waiting_writers_count,
                 reader_thread_count, tsd, count, rd_held>>

\* A thread that holds a read lock may not upgrade it.
wrlock_refused(t) ==
  /\ pc[t] = "idle"
  /\ lock_type = "READ"
  /\ t \in tsd /\ count[t] > 0
  /\ Refuse(t)

\* May t ask for its first write lock: the upgrade test has passed.
MayWrite(t) == /\ ~IsWriter(t)
               /\ lock_type = "READ" => ~(t \in tsd /\ count[t] > 0)

wrlock_wait(t) ==
  /\ pc[t] = "idle"
  /\ MayWrite(t)
  /\ lock_type # "UNUSED"
  /\ waiting_writers_count' = waiting_writers_count + 1
  /\ Block(t, "writers_cv")
  /\ UNCHANGED <<lock_type, write_thread, rec_write_lock_count,
                 reader_thread_count, tsd, count, heldVars>>

GrantWrite(t) ==
  /\ lock_type' = "WRITE"
  /\ write_thread' = t
  /\ rec_write_lock_count' = rec_write_lock_count + 1
  /\ wr_held' = [wr_held EXCEPT ![t] = @ + 1]
  /\ Return(t, "SUCCEED")
  /\ UNCHANGED <<reader_thread_count, tsd, count, rd_held>>

wrlock_grant(t) ==
  /\ pc[t] = "idle"
  /\ MayWrite(t)
  /\ lock_type = "UNUSED"
  /\ GrantWrite(t)
  /\ UNCHANGED waiting_writers_count

\* Mutant: "if" in place of the "while" around the writer's cond_wait.
wrlock_retest_if(t) ==
  /\ pc[t] = "wr_woken"
  /\ waiting_writers_count' = waiting_writers_count - 1
  /\ GrantWrite(t)

\* Mutant: the waiting count is not dropped on waking.
wrlock_retest_stay_counted(t) ==
  /\ pc[t] = "wr_woken" /\ lock_type = "UNUSED"
  /\ GrantWrite(t) /\ UNCHANGED waiting_writers_count

\* The cond_wait loop of a writer: the waiting count is dropped on waking
\* and raised again before the next cond_wait.
wrlock_retest(t) ==
  /\ pc[t] = "wr_woken"
  /\ IF lock_type # "UNUSED"
       THEN /\ Block(t, "writers_cv")
            /\ UNCHANGED <<lockVars, tsd, count, heldVars>>
       ELSE /\ waiting_writers_count' = waiting_writers_count - 1
            /\ GrantWrite(t)

wrlock(t) == \/ wrlock_recursive(t)
             \/ wrlock_refused(t)
             \/ wrlock_wait(t)
             \/ wrlock_grant(t)
-----------------------------------------------------------------------------
(***************************************************************************)
(* The unlock functions.  H5TS_cond_signal wakes one thread blocked on the *)
(* condition variable if there is one, H5TS_cond_broadcast wakes them all. *)
(***************************************************************************)

Woken(cv) == IF cv = "writers_cv" THEN "wr_woken" ELSE "rd_woken"

cond_signal(cv) ==
  \/ In(cv) = {} /\ UNCHANGED pc
  \/ \E u \in In(cv) : pc' = [pc EXCEPT ![u] = Woken(cv)]

cond_broadcast(cv) ==
  pc' = [u \in Threads |-> IF pc[u] = cv THEN Woken(cv) ELSE pc[u]]

\* Mutant: the readers are woken whoever waits.
WakeNext_readers == cond_broadcast("readers_cv")

\* What both unlock functions do when the lock becomes unused.
WakeNext == IF waiting_writers_count > 0 THEN cond_signal("writers_cv")
                                         ELSE cond_broadcast("readers_cv")

\* Lock not held for reading, or never by this thread.
rdunlock_refused(t) ==
  /\ pc[t] = "idle"
  /\ lock_type # "READ" \/ t \notin tsd
  /\ Refuse(t)

\* assert(*count > 0) is the caller's obligation: a thread releases only
\* what it holds.
rdunlock(t) ==
  /\ pc[t] = "idle"
  /\ rd_held[t] > 0
  /\ lock_type = "READ" /\ t \in tsd
  /\ count' = [count EXCEPT ![t] = @ - 1]
  /\ rd_held' = [rd_held EXCEPT ![t] = @ - 1]
  /\ ret' = [ret EXCEPT ![t] = "SUCCEED"]
  /\ IF count[t] = 1
       THEN /\ reader_thread_count' = reader_thread_count - 1
            /\ IF reader_thread_count = 1
                 THEN lock_type' = "UNUSED" /\ WakeNext
                 ELSE UNCHANGED <<lock_type, pc>>
       ELSE UNCHANGED <<reader_thread_count, lock_type, pc>>
  /\ UNCHANGED <<write_thread, rec_write_lock_count, waiting_writers_count,
                 tsd, wr_held>>

wrunlock_refused(t) ==
  /\ pc[t] = "idle"
  /\ lock_type # "WRITE"
  /\ Refuse(t)

\* The code does not compare write_thread with the caller: that a thread
\* releases only what it holds is the caller's obligation.
wrunlock(t) ==
  /\ pc[t] = "idle"
  /\ wr_held[t] > 0
  /\ lock_type = "WRITE"
  /\ rec_write_lock_count' = rec_write_lock_count - 1
  /\ wr_held' = [wr_held EXCEPT ![t] = @ - 1]
  /\ ret' = [ret EXCEPT ![t] = "SUCCEED"]
  /\ IF rec_write_lock_count = 1
       THEN lock_type' = "UNUSED" /\ WakeNext
       ELSE UNCHANGED <<lock_type, pc>>
  /\ UNCHANGED <<write_thread, waiting_writers_count, reader_thread_count,
                 tsd, count, rd_held>>
-----------------------------------------------------------------------------
(***************************************************************************)
(* The thread library.                                                     *)
(***************************************************************************)

\* A condition variable may wake a thread nobody signalled.
SpuriousWakeup(t) ==
  /\ pc[t] \in {"readers_cv", "writers_cv"}
  /\ pc' = [pc EXCEPT ![t] = Woken(@)]
  /\ UNCHANGED <<lockVars, tsd, count, ret, heldVars>>

\* A thread that holds nothing exits: the key destructor frees its counter.
\* A later thread may have the same identity.
ThreadExit(t) ==
  /\ pc[t] = "idle"
  /\ rd_held[t] = 0 /\ wr_held[t] = 0
  /\ t \in tsd
  /\ tsd' = tsd \ {t}
  /\ count' = [count EXCEPT ![t] = 0]
  /\ UNCHANGED <<lockVars, pc, ret, heldVars>>

Request(t) == rdlock(t) \/ wrlock(t)
Release(t) == rdunlock(t) \/ wrunlock(t)
Retest(t)  == rdlock_retest(t) \/ wrlock_retest(t)

Next == \E t \in Threads : \/ Request(t)
                           \/ Release(t)
                           \/ Retest(t)
                           \/ rdunlock_refused(t)
                           \/ wrunlock_refused(t)
                           \/ SpuriousWakeup(t)
                           \/ ThreadExit(t)

Spec == Init /\ [][Next]_vars

\* Threads release what they hold, and a woken thread gets the mutex.
Fairness == \A t \in Threads : WF_vars(Release(t)) /\ WF_vars(Retest(t))

FairSpec == Spec /\ Fairness
-----------------------------------------------------------------------------
(***************************************************************************)
(* Properties                                                              *)
(***************************************************************************)

Waiting(t) == pc[t] # "idle"

\* The promise of the lock: two threads never hold it together unless both
\* read, whatever the lock's own counters say.
MutualExclusion ==
  \A t, u \in Threads :
    wr_held[t] > 0 => rd_held[u] = 0 /\ (u # t => wr_held[u] = 0)

\* The counters agree with the locks actually granted, so that the last
\* release, and no other, frees the lock; these are also the facts the
\* code asserts on its recursive and release paths.
CountersAgree ==
  /\ \A t \in Threads : count[t] = rd_held[t]
  /\ \A t \in Threads : wr_held[t] > 0 <=> IsWriter(t)
  /\ rec_write_lock_count = IF lock_type = "WRITE" THEN wr_held[write_thread]
                                                   ELSE 0
  /\ lock_type = "READ" <=> Readers # {}
  /\ lock_type = "WRITE" => write_thread \in Threads
  /\ reader_thread_count = Cardinality(Readers)
  /\ waiting_writers_count = Cardinality(WaitingWriters)

\* No lost wake-up: a thread is never left blocked on a free lock unless a
\* writer that was woken is on its way to take it.
NoLostWakeup ==
  lock_type = "UNUSED" /\ (In("readers_cv") \cup In("writers_cv") # {})
    => In("wr_woken") # {}

\* No hold and wait: a thread blocked in the lock holds none of it, so the
\* refused upgrades and downgrades rule out deadlock on a single lock.
NoHoldAndWait ==
  \A t \in Threads : Waiting(t) => rd_held[t] = 0 /\ wr_held[t] = 0

\* A thread without an allocated counter is no reader, waiting or granted.
TsdAgrees == \A t \in Threads \ tsd :
               count[t] = 0 /\ pc[t] \notin {"readers_cv", "rd_woken"}

\* The inductive invariant behind the theorems of RecRWLock_proof.
IInv == TypeOK /\ CountersAgree /\ TsdAgrees /\ NoLostWakeup /\ NoHoldAndWait

\* The recursive readers / writer lock implements its abstract promise.
RWLock == INSTANCE RWLockSpec
ImplementsRWLock == RWLock!Spec

\* Once no thread asks for a further lock, every blocked thread is granted
\* its lock: the wake-ups of the unlock functions reach everyone.
EveryWaiterServed ==
  (<>[][\A t \in Threads : ~Request(t)]_vars)
    => \A t \in Threads : Waiting(t) ~> ~Waiting(t)

=============================================================================
