------------------------------ MODULE APILock --------------------------------
(***************************************************************************)
(* The lock around the library in a build with H5_HAVE_CONCURRENCY: the    *)
(* readers / writer lock of H5TSrwlock.h, of which the library takes the   *)
(* write side only, and above it the API lock of H5TSint.c, entered and    *)
(* left by every public function.                                          *)
(*                                                                         *)
(* A public function locks only when the calling thread's disable count    *)
(* dlftt is zero, and unlocks only when the count it read at its entry     *)
(* was zero.  The count is positive while the thread runs a callback of    *)
(* the application, and while the application holds the lock through       *)
(* H5TSmutex_acquire; H5TSmutex_release gives the lock up in the middle of *)
(* either.  A thread is a stack of frames, user code and public functions  *)
(* in turn.  Each function of the lock runs under lock->mutex and leaves   *)
(* it only in cnd_wait, so a step is one mutex section.                    *)
(***************************************************************************)
EXTENDS Naturals, FiniteSets, Sequences, SequencesExt

CONSTANTS Threads,       \* the threads of the application
          MaxFrames,     \* bound on the frames of a thread
          MaxCalls       \* bound on the calls of all threads, see Counted

ASSUME ThreadsAssumption == IsFiniteSet(Threads)
ASSUME BoundsAssumption  == MaxFrames \in Nat \ {0} /\ MaxCalls \in Nat

VARIABLES
  writers,         \* lock->writers
  write_waiters,   \* lock->write_waiters: threads in the loop of wrlock
  at,              \* "run", or where in wrlock a thread waits
  dlftt,           \* dlftt[t]: the disable count in t's thread info
  frames,          \* frames[t]: the code t is in, outermost first
  calls,           \* auxiliary: calls counted against MaxCalls
  wr_held          \* auxiliary: write locks granted to a thread, not released

lockVars == <<writers, write_waiters, at, wr_held>>
vars == <<lockVars, dlftt, frames, calls>>

\* A public function keeps the count it read at its entry in a local
\* variable; user code keeps what H5TSmutex_release gave it (0: nothing).
ApiFrame(d)  == [code |-> "api", dlftt |-> d]
UserFrame(c) == [code |-> "user", saved |-> c]

Top(t) == Last(frames[t])

Push(t, f)    == frames' = [frames EXCEPT ![t] = Append(@, f)]
Pop(t)        == frames' = [frames EXCEPT ![t] = Front(@)]
SetSaved(t, c) == frames' = [frames EXCEPT ![t] = Append(Front(@), UserFrame(c))]

InUserCode(t) == at[t] = "run" /\ Top(t).code = "user"
InLibrary(t)  == at[t] = "run" /\ Top(t).code = "api"
InCallback(t) == InUserCode(t) /\ Len(frames[t]) > 1

Init == /\ writers = 0
        /\ write_waiters = 0
        /\ at = [t \in Threads |-> "run"]
        /\ dlftt = [t \in Threads |-> 0]
        /\ frames = [t \in Threads |-> <<UserFrame(0)>>]
        /\ calls = 0
        /\ wr_held = [t \in Threads |-> 0]

\* Calls into the library, calls of callbacks and calls that may ask for
\* the lock are bounded; a callback may always take back what it released.
Counted == calls < MaxCalls /\ calls' = calls + 1
-----------------------------------------------------------------------------
(***************************************************************************)
(* The write side of H5TS_rwlock_t                                         *)
(***************************************************************************)

TakeWrite(t) == /\ writers' = writers + 1
                /\ wr_held' = [wr_held EXCEPT ![t] = @ + 1]

\* H5TS_rwlock_wrlock up to its return, or up to the first cnd_wait.
wrlock_take(t) == writers = 0 /\ TakeWrite(t) /\ UNCHANGED <<write_waiters, at>>

wrlock_wait(t) == /\ writers > 0
                  /\ write_waiters' = write_waiters + 1
                  /\ at' = [at EXCEPT ![t] = "write_cv"]
                  /\ UNCHANGED <<writers, wr_held>>

\* H5TS_rwlock_trywrlock when it succeeds; a refusal changes nothing.
trywrlock(t) == wrlock_take(t)

\* Mutant: nobody is woken.
wrunlock_silent(t) == /\ writers' = writers - 1
                      /\ wr_held' = [wr_held EXCEPT ![t] = @ - 1]
                      /\ UNCHANGED <<write_waiters, at>>

\* H5TS_rwlock_wrunlock: one of the threads asleep on write_cv, if any, is
\* woken; nobody ever waits to read.
wrunlock(t) ==
  LET asleep == {u \in Threads : at[u] = "write_cv"} IN
  /\ writers' = writers - 1
  /\ wr_held' = [wr_held EXCEPT ![t] = @ - 1]
  /\ IF write_waiters > 0 /\ asleep # {}
       THEN \E u \in asleep : at' = [at EXCEPT ![u] = "woken"]
       ELSE UNCHANGED at
  /\ UNCHANGED write_waiters

\* pthread_cond_wait and cnd_wait may return without a signal.
SpuriousWakeup(t) == /\ at[t] = "write_cv"
                     /\ at' = [at EXCEPT ![t] = "woken"]
                     /\ UNCHANGED <<writers, write_waiters, wr_held, dlftt, frames, calls>>
-----------------------------------------------------------------------------
(***************************************************************************)
(* H5_API_LOCK and H5_API_UNLOCK of a public function                      *)
(***************************************************************************)

\* The disable count says that the thread has the lock already.
api_lock_skip(t) == /\ InUserCode(t)
                    /\ dlftt[t] > 0
                    /\ Len(frames[t]) < MaxFrames
                    /\ Counted
                    /\ Push(t, ApiFrame(dlftt[t]))
                    /\ UNCHANGED <<lockVars, dlftt>>

api_lock_take(t) == /\ InUserCode(t)
                    /\ dlftt[t] = 0
                    /\ Len(frames[t]) < MaxFrames
                    /\ Counted
                    /\ wrlock_take(t)
                    /\ Push(t, ApiFrame(0))
                    /\ UNCHANGED dlftt

api_lock_wait(t) == /\ InUserCode(t)
                    /\ dlftt[t] = 0
                    /\ Len(frames[t]) < MaxFrames
                    /\ Counted
                    /\ wrlock_wait(t)
                    /\ UNCHANGED <<dlftt, frames>>

\* Mutant: the loop of wrlock is a test.
api_lock_retest_if(t) ==
  /\ at[t] = "woken"
  /\ at' = [at EXCEPT ![t] = "run"]
  /\ write_waiters' = write_waiters - 1
  /\ TakeWrite(t)
  /\ Push(t, ApiFrame(0))
  /\ UNCHANGED <<dlftt, calls>>

\* A woken thread looks again: another one may have taken the lock first.
api_lock_retest(t) ==
  /\ at[t] = "woken"
  /\ IF writers > 0
       THEN /\ at' = [at EXCEPT ![t] = "write_cv"]
            /\ UNCHANGED <<writers, write_waiters, wr_held, frames>>
       ELSE /\ at' = [at EXCEPT ![t] = "run"]
            /\ write_waiters' = write_waiters - 1
            /\ TakeWrite(t)
            /\ Push(t, ApiFrame(0))
  /\ UNCHANGED <<dlftt, calls>>

api_unlock(t) == /\ InLibrary(t)
                 /\ IF Top(t).dlftt = 0 THEN wrunlock(t) ELSE UNCHANGED lockVars
                 /\ Pop(t)
                 /\ UNCHANGED <<dlftt, calls>>
-----------------------------------------------------------------------------
(***************************************************************************)
(* H5_BEFORE_USER_CB and H5_AFTER_USER_CB                                  *)
(***************************************************************************)

user_cb_prepare(t) == /\ InLibrary(t)
                      /\ Len(frames[t]) < MaxFrames
                      /\ Counted
                      /\ dlftt' = [dlftt EXCEPT ![t] = @ + 1]
                      /\ Push(t, UserFrame(0))
                      /\ UNCHANGED lockVars

\* Mutant: the disable count is not counted down.
user_cb_restore_keep(t) == /\ InCallback(t)
                           /\ Top(t).saved = 0
                           /\ Pop(t)
                           /\ UNCHANGED <<lockVars, dlftt, calls>>

\* A callback that released the lock takes it back before it returns.
user_cb_restore(t) == /\ InCallback(t)
                      /\ Top(t).saved = 0
                      /\ dlftt' = [dlftt EXCEPT ![t] = @ - 1]
                      /\ Pop(t)
                      /\ UNCHANGED <<lockVars, calls>>
-----------------------------------------------------------------------------
(***************************************************************************)
(* H5TSmutex_acquire and H5TSmutex_release                                 *)
(***************************************************************************)

\* H5TS__api_mutex_acquire with *acquired true.
mutex_acquire(t, lock_count) ==
  /\ IF dlftt[t] = 0 THEN trywrlock(t) ELSE UNCHANGED lockVars
  /\ dlftt' = [dlftt EXCEPT ![t] = @ + lock_count]
  /\ SetSaved(t, 0)

\* The application takes the lock for a sequence of calls, perhaps again.
app_acquire(t) == /\ InUserCode(t)
                  /\ ~InCallback(t)
                  /\ Counted
                  /\ mutex_acquire(t, 1)

\* User code resumes with the lock count that its release returned.
reacquire(t) == /\ InUserCode(t)
                /\ Top(t).saved > 0
                /\ mutex_acquire(t, Top(t).saved)
                /\ IF InCallback(t) THEN UNCHANGED calls ELSE Counted

\* Mutant: the disable count is not set to zero.
mutex_release_keep(t) == /\ dlftt[t] > 0
                         /\ SetSaved(t, dlftt[t])
                         /\ wrunlock(t)
                         /\ UNCHANGED dlftt

\* H5TS__api_mutex_release: all levels are given up at once.
mutex_release(t) == /\ dlftt[t] > 0
                    /\ SetSaved(t, dlftt[t])
                    /\ dlftt' = [dlftt EXCEPT ![t] = 0]
                    /\ wrunlock(t)

app_release(t) == /\ InUserCode(t)
                  /\ ~InCallback(t)
                  /\ mutex_release(t)
                  /\ UNCHANGED calls

cb_release(t) == InCallback(t) /\ Counted /\ mutex_release(t)
-----------------------------------------------------------------------------
Step(t) == \/ api_lock_skip(t)   \/ api_lock_take(t)  \/ api_lock_wait(t)
           \/ api_lock_retest(t) \/ api_unlock(t)
           \/ user_cb_prepare(t) \/ user_cb_restore(t)
           \/ app_acquire(t)     \/ app_release(t)
           \/ cb_release(t)      \/ reacquire(t)
           \/ SpuriousWakeup(t)

Next == \E t \in Threads : Step(t)

Spec == Init /\ [][Next]_vars

\* Public functions and callbacks return, the application gives up a lock
\* it acquired, a callback that released the lock keeps asking for it, and
\* a woken thread gets the mutex.
Fairness == \A t \in Threads : /\ WF_vars(api_lock_retest(t))
                               /\ WF_vars(api_unlock(t))
                               /\ WF_vars(user_cb_restore(t))
                               /\ WF_vars(app_release(t))
                               /\ WF_vars(InCallback(t) /\ reacquire(t))

FairSpec == Spec /\ Fairness
-----------------------------------------------------------------------------
\* The counters keep their types (none is decremented below zero), and at
\* most one write lock is out.
TypeOK ==
  /\ writers \in 0..1
  /\ write_waiters \in 0..Cardinality(Threads)
  /\ at \in [Threads -> {"run", "write_cv", "woken"}]
  /\ dlftt \in [Threads -> Nat]
  /\ \A t \in Threads : \A i \in 1..Len(frames[t]) :
       frames[t][i] \in IF i % 2 = 1 THEN [code : {"user"}, saved : Nat]
                                     ELSE [code : {"api"}, dlftt : Nat]
  /\ calls \in 0..MaxCalls
  /\ wr_held \in [Threads -> 0..1]

\* A thread that runs library code, also when it skipped the lock because
\* of its disable count, owns the API lock: a callback that gave the lock
\* up, or an application that never had it, never enters without it
\* (H5TSint.c, H5TS_api_lock and H5TS__api_mutex_release).
InsideOwnsLock == \A t \in Threads : InLibrary(t) => wr_held[t] = 1

\* When control comes back to a public function, after any nesting of
\* callbacks, releases and calls, the disable count is what the function
\* read at its entry; and user code has a positive count exactly when its
\* thread owns the lock.  The test H5_API_UNLOCK makes on the old value is
\* right only because of this.
CountRestored ==
  \A t \in Threads :
    /\ InLibrary(t) => dlftt[t] = Top(t).dlftt
    /\ InUserCode(t) => (dlftt[t] > 0) = (wr_held[t] = 1)

\* The lock the library sees is the abstract lock: one owner at a time
\* (H5TSrwlock.h, H5TS_rwlock_wrlock, _trywrlock and _wrunlock).
RWLock == INSTANCE RWLockSpec WITH rd_held <- [t \in Threads |-> 0]
ImplementsRWLock == RWLock!Spec

\* A thread asleep in H5TS_api_lock gets the lock in the end, whoever takes
\* it first by H5TSmutex_acquire, once new calls cease.
EveryCallerEnters == \A t \in Threads : at[t] # "run" ~> at[t] = "run"
=============================================================================
