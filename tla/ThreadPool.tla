----------------------------- MODULE ThreadPool -----------------------------
(***************************************************************************)
(* The thread pool of the H5TS package (src/src/H5TSpool.c and             *)
(* H5TSpool.h): a queue of tasks, a counting semaphore that announces      *)
(* them, and worker threads that run them until the pool is destroyed.     *)
(*                                                                         *)
(* Each section under queue_mutex is one step, and so is each semaphore    *)
(* operation; everything between them interleaves.  A task may itself add  *)
(* tasks, as the I/O concentrator's do.  Failures of the mutex and of the  *)
(* semaphore themselves are left out; failures to create a thread are in.  *)
(***************************************************************************)
EXTENDS Naturals, Sequences, FiniteSets

CONSTANTS N,          \* number of threads asked of H5TS_pool_create
          Clients,    \* threads outside the pool that add tasks
          Tasks,      \* the tasks, each added at most once
          NoTask,     \* a worker that runs no task
          MayFail     \* may H5TS_thread_create fail

ASSUME NAssumption       == N \in Nat \ {0}
ASSUME ClientsAssumption == IsFiniteSet(Clients) /\ Clients \cap Nat = {}
ASSUME NoTaskAssumption  == NoTask \notin Tasks
ASSUME MayFailAssumption == MayFail \in BOOLEAN

Workers == 1..N

VARIABLES
  phase,        \* what the thread that creates and destroys the pool does
  num_threads,  \* pool->num_threads
  shutdown,     \* pool->shutdown
  queue,        \* the list from pool->head to pool->tail
  sem,          \* value of pool->sem
  u,            \* loop counter of the creating or destroying thread
  sent,         \* auxiliary: shutdown signals sent
  pc,           \* where each worker and client is, see PC
  running,      \* running[w]: the task worker w has dequeued
  status        \* auxiliary: what became of each task

poolVars == <<num_threads, shutdown, queue, sem>>
ownerVars == <<phase, u, sent>>
vars == <<phase, num_threads, shutdown, queue, sem, u, sent, pc, running,
          status>>

Phase == {"creating", "open", "signalling", "joining", "freed"}

\* "none": not created.  "wait": in H5TS_semaphore_wait.  "lock": past the
\* semaphore, about to lock queue_mutex.  "run": in the task's function.
\* "signal": inside add_task, queue_mutex released, semaphore not signalled.
\* "exited": returned from H5TS__pool_do.  Clients: "idle" or "signal".
PC == {"none", "idle", "wait", "lock", "run", "signal", "exited"}

Status == {"new", "queued", "running", "done", "rejected"}

\* The pool's fields keep their types: the semaphore never goes below zero,
\* and H5TS_pool_destroy signals and joins no more threads than there are.
TypeOK ==
  /\ phase \in Phase
  /\ num_threads \in 0..N
  /\ shutdown \in BOOLEAN
  /\ queue \in Seq(Tasks)
  /\ sem \in Nat
  /\ u \in 0..N
  /\ sent \in 0..N
  /\ pc \in [Workers \cup Clients -> PC]
  /\ running \in [Workers -> Tasks \cup {NoTask}]
  /\ status \in [Tasks -> Status]

Init ==
  /\ phase = "creating"
  /\ num_threads = 0
  /\ shutdown = FALSE
  /\ queue = <<>>
  /\ sem = 0
  /\ u = 0
  /\ sent = 0
  /\ pc = [t \in Workers \cup Clients |->
             IF t \in Workers THEN "none" ELSE "idle"]
  /\ running = [w \in Workers |-> NoTask]
  /\ status = [k \in Tasks |-> "new"]

In(state) == {t \in Workers \cup Clients : pc[t] = state}
-----------------------------------------------------------------------------
(***************************************************************************)
(* H5TS_pool_create                                                        *)
(***************************************************************************)

\* Worker u starts, and at once waits on the semaphore.
create_thread ==
  /\ phase = "creating" /\ u < N
  /\ pc' = [pc EXCEPT ![u + 1] = "wait"]
  /\ u' = u + 1
  /\ UNCHANGED <<phase, poolVars, sent, running, status>>

create_done ==
  /\ phase = "creating" /\ u = N
  /\ phase' = "open"
  /\ num_threads' = N
  /\ UNCHANGED <<shutdown, queue, sem, u, sent, pc, running, status>>

\* Thread creation, or an earlier allocation, fails: the workers started so
\* far are told of the shutdown and joined, but not signalled.
create_fail ==
  /\ MayFail
  /\ phase = "creating" /\ u < N
  /\ num_threads' = u
  /\ shutdown' = TRUE
  /\ phase' = "joining"
  /\ u' = 0
  /\ UNCHANGED <<queue, sem, sent, pc, running, status>>
-----------------------------------------------------------------------------
(***************************************************************************)
(* H5TS_pool_destroy and H5TS__pool_free                                   *)
(***************************************************************************)

destroy_shutdown ==
  /\ phase = "open"
  /\ shutdown' = TRUE
  /\ phase' = "signalling"
  /\ u' = 0
  /\ UNCHANGED <<num_threads, queue, sem, sent, pc, running, status>>

\* Mutant: one shutdown signal too few.
destroy_signal_short ==
  /\ phase = "signalling"
  /\ IF u + 1 < num_threads
       THEN /\ sem' = sem + 1 /\ sent' = sent + 1 /\ u' = u + 1
            /\ UNCHANGED phase
       ELSE phase' = "joining" /\ u' = 0 /\ UNCHANGED <<sem, sent>>
  /\ UNCHANGED <<num_threads, shutdown, queue, pc, running, status>>

\* One shutdown signal per thread, then the joins.
destroy_signal ==
  /\ phase = "signalling"
  /\ IF u < num_threads
       THEN /\ sem' = sem + 1 /\ sent' = sent + 1 /\ u' = u + 1
            /\ UNCHANGED phase
       ELSE phase' = "joining" /\ u' = 0 /\ UNCHANGED <<sem, sent>>
  /\ UNCHANGED <<num_threads, shutdown, queue, pc, running, status>>

\* Join the threads in order, then destroy and free everything.
pool_free ==
  /\ phase = "joining"
  /\ IF u < num_threads
       THEN pc[u + 1] = "exited" /\ u' = u + 1 /\ UNCHANGED phase
       ELSE phase' = "freed" /\ UNCHANGED u
  /\ UNCHANGED <<poolVars, sent, pc, running, status>>
-----------------------------------------------------------------------------
(***************************************************************************)
(* H5TS_pool_add_task, called by a client or from a running task.  The     *)
(* caller owes that it does not enter the call once the pool is freed; the *)
(* queue section decides whether the task is accepted.                     *)
(***************************************************************************)

\* Clients have the pool's address only from a create that succeeded.
Published == num_threads = N

MayCall(t) == IF t \in Workers THEN pc[t] = "run"
                               ELSE pc[t] = "idle" /\ Published

\* Mutant: the pool's shutdown flag is not consulted.
add_task_queue_always(t, k) ==
  /\ MayCall(t) /\ phase # "freed" /\ status[k] = "new"
  /\ queue' = Append(queue, k)
  /\ status' = [status EXCEPT ![k] = "queued"]
  /\ pc' = [pc EXCEPT ![t] = "signal"]
  /\ UNCHANGED <<ownerVars, num_threads, shutdown, sem, running>>

\* The section under queue_mutex.
add_task_queue(t, k) ==
  /\ MayCall(t) /\ phase # "freed" /\ status[k] = "new"
  /\ IF shutdown
       THEN /\ status' = [status EXCEPT ![k] = "rejected"]
            /\ UNCHANGED <<queue, pc>>
       ELSE /\ queue' = Append(queue, k)
            /\ status' = [status EXCEPT ![k] = "queued"]
            /\ pc' = [pc EXCEPT ![t] = "signal"]
  /\ UNCHANGED <<ownerVars, num_threads, shutdown, sem, running>>

\* Mutant: the semaphore is signalled only for the first queued task.
add_task_signal_first(t) ==
  /\ pc[t] = "signal"
  /\ sem' = IF Len(queue) = 1 THEN sem + 1 ELSE sem
  /\ pc' = [pc EXCEPT ![t] = IF t \in Workers THEN "run" ELSE "idle"]
  /\ UNCHANGED <<ownerVars, num_threads, shutdown, queue, running, status>>

\* The semaphore is signalled after queue_mutex is released.
add_task_signal(t) ==
  /\ pc[t] = "signal"
  /\ sem' = sem + 1
  /\ pc' = [pc EXCEPT ![t] = IF t \in Workers THEN "run" ELSE "idle"]
  /\ UNCHANGED <<ownerVars, num_threads, shutdown, queue, running, status>>
-----------------------------------------------------------------------------
(***************************************************************************)
(* H5TS__pool_do                                                           *)
(***************************************************************************)

semaphore_wait(w) ==
  /\ pc[w] = "wait"
  /\ sem > 0
  /\ sem' = sem - 1
  /\ pc' = [pc EXCEPT ![w] = "lock"]
  /\ UNCHANGED <<ownerVars, num_threads, shutdown, queue, running, status>>

\* The section under queue_mutex: take the head task, or leave the loop.
take_task(w) ==
  /\ pc[w] = "lock"
  /\ queue # <<>>
  /\ running' = [running EXCEPT ![w] = Head(queue)]
  /\ status' = [status EXCEPT ![Head(queue)] = "running"]
  /\ queue' = Tail(queue)
  /\ pc' = [pc EXCEPT ![w] = "run"]
  /\ UNCHANGED <<ownerVars, num_threads, shutdown, sem>>

\* Mutant: a worker leaves as soon as it sees the shutdown flag.
leave_early(w) ==
  /\ pc[w] = "lock"
  /\ queue = <<>> \/ shutdown
  /\ pc' = [pc EXCEPT ![w] = "exited"]
  /\ UNCHANGED <<ownerVars, poolVars, running, status>>

leave(w) ==
  /\ pc[w] = "lock"
  /\ queue = <<>>
  /\ pc' = [pc EXCEPT ![w] = "exited"]
  /\ UNCHANGED <<ownerVars, poolVars, running, status>>

\* The task's function returns and the task is freed.
task_done(w) ==
  /\ pc[w] = "run"
  /\ status' = [status EXCEPT ![running[w]] = "done"]
  /\ running' = [running EXCEPT ![w] = NoTask]
  /\ pc' = [pc EXCEPT ![w] = "wait"]
  /\ UNCHANGED <<ownerVars, poolVars>>
-----------------------------------------------------------------------------
Create  == create_thread \/ create_done \/ create_fail
Destroy == destroy_shutdown \/ destroy_signal \/ pool_free
Work(w) == \/ semaphore_wait(w) \/ take_task(w) \/ leave(w) \/ task_done(w)

Next == \/ Create
        \/ Destroy
        \/ \E w \in Workers : Work(w)
        \/ \E t \in Workers \cup Clients :
             \/ add_task_signal(t)
             \/ \E k \in Tasks : add_task_queue(t, k)

Spec == Init /\ [][Next]_vars

\* Threads that can run do run, and task functions return.  Nobody has to
\* destroy the pool or to add a task.
Fairness ==
  /\ WF_vars(Create)
  /\ WF_vars(destroy_signal \/ pool_free)
  /\ \A w \in Workers : WF_vars(semaphore_wait(w))
                        /\ WF_vars(take_task(w) \/ leave(w) \/ task_done(w))
  /\ \A t \in Workers \cup Clients : WF_vars(add_task_signal(t))

FairSpec == Spec /\ Fairness
-----------------------------------------------------------------------------
(***************************************************************************)
(* Properties                                                              *)
(***************************************************************************)

\* assert(pool->shutdown) in H5TS__pool_do: a worker past the semaphore that
\* finds the queue empty was woken by a shutdown signal, although tasks and
\* shutdown signals come through the same semaphore in any order.
EmptyOnlyAtShutdown ==
  \A w \in Workers : pc[w] = "lock" /\ queue = <<>> => shutdown

\* "Destroy a thread pool, waiting for all tasks to be invoked": when the
\* pool is freed every task it accepted has run to its end.
AcceptedTasksDone ==
  phase = "freed" => \A k \in Tasks : status[k] \in {"new", "rejected", "done"}

\* The pool is not freed under a thread that still uses it; in particular
\* not under an add_task that queued its task and has yet to signal, which
\* no join waits for.
NotFreedInUse ==
  phase = "freed" => \A t \in Workers \cup Clients :
                       pc[t] \in {"none", "idle", "exited"}

\* Every semaphore token is accounted for: announced tasks and shutdown
\* signals against tokens available, taken, spent on leaving, or to come.
TokensBalance ==
  sem + Cardinality(In("lock")) + Cardinality(In("exited"))
      + Cardinality(In("signal")) = Len(queue) + sent

\* The creating thread's progress: what it has started, signalled, joined.
OwnerProgress ==
  /\ phase = "creating" =>
       /\ num_threads = 0 /\ sent = 0 /\ ~shutdown
       /\ \A w \in Workers : pc[w] = (IF w <= u THEN "wait" ELSE "none")
  /\ phase = "open" => num_threads = N /\ sent = 0 /\ ~shutdown
  /\ phase = "signalling" => num_threads = N /\ sent = u /\ shutdown
  /\ phase \in {"joining", "freed"} =>
       /\ shutdown
       /\ sent = IF num_threads = N THEN N ELSE 0
       /\ u <= num_threads
       /\ \A w \in 1..u : pc[w] = "exited"
  /\ phase = "freed" => u = num_threads

\* Nobody uses a pool whose create failed or has not returned.
UnpublishedIdle ==
  ~Published =>
    /\ sem = 0 /\ queue = <<>>
    /\ \A t \in Workers \cup Clients : pc[t] \in {"none", "idle", "wait"}
    /\ phase # "creating" =>
         \A w \in Workers : w > num_threads => pc[w] = "none"

\* A queued task is in the queue, a running one is some worker's.
StatusAgrees ==
  \A k \in Tasks :
    /\ status[k] = "queued" => \E i \in 1..Len(queue) : queue[i] = k
    /\ status[k] = "running" =>
         \E w \in Workers : pc[w] \in {"run", "signal"} /\ running[w] = k

\* Clients are outside the pool or in add_task; a worker in a task has one;
\* a worker leaves only once nothing is left to run.
ThreadsAgree ==
  /\ \A t \in Clients : pc[t] \in {"idle", "signal"}
  /\ \A w \in Workers : pc[w] \in {"run", "signal"} => running[w] \in Tasks
  /\ \A w \in Workers : pc[w] = "exited" => shutdown /\ queue = <<>>

\* The inductive invariant behind the theorems of ThreadPool_proof.
IInv == /\ TypeOK /\ TokensBalance /\ ThreadsAgree
        /\ OwnerProgress /\ UnpublishedIdle /\ StatusAgrees

\* Once H5TS_pool_destroy is called the pool is freed.
DestroyTerminates == phase = "signalling" ~> phase = "freed"

\* An accepted task is run, destroy or no destroy.
AcceptedTasksRun ==
  \A k \in Tasks : status[k] = "queued" ~> status[k] = "done"

=============================================================================
