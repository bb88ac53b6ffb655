------------------------------ MODULE Semaphore ------------------------------
(***************************************************************************)
(* The semaphore that the H5TS package builds from a mutex and a condition *)
(* variable where the system has none it can use                           *)
(* (src/src/H5TSsemaphore.h and .c).                                       *)
(*                                                                         *)
(* A step is one section under sem->mutex: a whole call, a call up to its  *)
(* cond_wait, or what a woken thread does up to its return or its next     *)
(* cond_wait.  Failures of the mutex and the condition variable are left   *)
(* out.                                                                    *)
(***************************************************************************)
EXTENDS Naturals, FiniteSets

CONSTANTS Threads,         \* the threads that use the semaphore
          initial_count,   \* argument of H5TS_semaphore_init
          MaxCounter       \* bound on the counter

ASSUME ThreadsAssumption == IsFiniteSet(Threads)
ASSUME CountAssumption == initial_count \in Nat /\ MaxCounter \in Nat

VARIABLES counter, waiters,   \* the fields of H5TS_semaphore_t
          pc                  \* where each thread is

vars == <<counter, waiters, pc>>

In(state) == {t \in Threads : pc[t] = state}

\* "cond": blocked in H5TS_cond_wait.  "woken": about to get the mutex back.
\* The counter and the number of waiters never go below zero, whoever takes
\* the unit a thread was woken for.
TypeOK ==
  /\ counter \in Nat /\ waiters \in Nat
  /\ pc \in [Threads -> {"idle", "cond", "woken"}]

\* H5TS_semaphore_init
Init ==
  /\ counter = initial_count /\ waiters = 0
  /\ pc = [t \in Threads |-> "idle"]

WakeOne(queue) ==
  IF queue = {} THEN UNCHANGED pc
  ELSE \E t \in queue : pc' = [pc EXCEPT ![t] = "woken"]

\* Mutant: the thread is woken only as the counter leaves zero.
semaphore_signal_first ==
  /\ counter < MaxCounter
  /\ IF waiters > 0 /\ counter = 0 THEN WakeOne(In("cond")) ELSE UNCHANGED pc
  /\ counter' = counter + 1
  /\ UNCHANGED waiters

semaphore_signal ==
  /\ counter < MaxCounter
  /\ IF waiters > 0 THEN WakeOne(In("cond")) ELSE UNCHANGED pc
  /\ counter' = counter + 1
  /\ UNCHANGED waiters

\* The counter is positive at once.
semaphore_wait_take(t) ==
  /\ pc[t] = "idle" /\ counter > 0
  /\ counter' = counter - 1
  /\ UNCHANGED <<waiters, pc>>

semaphore_wait_block(t) ==
  /\ pc[t] = "idle" /\ counter = 0
  /\ waiters' = waiters + 1
  /\ pc' = [pc EXCEPT ![t] = "cond"]
  /\ UNCHANGED counter

\* The loop of H5TS_semaphore_wait, from the return of its cond_wait: the
\* thread stops counting as a waiter, and counts again if it has to go on
\* waiting.
semaphore_wait_retest(t) ==
  /\ pc[t] = "woken"
  /\ IF counter = 0
       THEN pc' = [pc EXCEPT ![t] = "cond"] /\ UNCHANGED <<counter, waiters>>
       ELSE /\ counter' = counter - 1
            /\ waiters' = waiters - 1
            /\ pc' = [pc EXCEPT ![t] = "idle"]

\* A condition variable may wake a thread nobody signalled.
SpuriousWakeup(t) ==
  /\ pc[t] = "cond"
  /\ pc' = [pc EXCEPT ![t] = "woken"]
  /\ UNCHANGED <<counter, waiters>>

Next ==
  \/ semaphore_signal
  \/ \E t \in Threads :
       \/ semaphore_wait_take(t)
       \/ semaphore_wait_block(t)
       \/ semaphore_wait_retest(t)
       \/ SpuriousWakeup(t)

\* A woken thread gets the mutex.
Fairness == \A t \in Threads : WF_vars(semaphore_wait_retest(t))

SafeSpec == Init /\ [][Next]_vars
Spec == SafeSpec /\ Fairness

-----------------------------------------------------------------------------

\* No signal is lost: while threads sleep, as many others are on their way to
\* the counter as it can serve, whoever takes from it first.
NoLostWakeup == In("cond") # {} => counter <= Cardinality(In("woken"))

\* H5TS_semaphore_signal looks at the number of waiters: it counts exactly the
\* threads inside the loop of H5TS_semaphore_wait.
WaitersExact == waiters = Cardinality(In("cond") \cup In("woken"))

\* The emulation is a semaphore: a wait returns only with a unit of its own,
\* and blocked threads get what is signalled.
Sem == INSTANCE SemaphoreSpec WITH value <- counter,
                                   blocked <- In("cond") \cup In("woken")
ImplementsSemaphore == Sem!Spec
=============================================================================
